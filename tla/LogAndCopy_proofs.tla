--------------------------- MODULE LogAndCopy_proofs ---------------------------
(***************************************************************************)
(* Two sequences that grow while they are read part by part: the audit log *)
(* and a database that is copied to PostgreSQL.                            *)
(*                                                                         *)
(* The log, for any number of transactions and entries.  With one writer   *)
(* at a time, its sequence numbers have no gap, and it implements one to   *)
(* which whole transactions are appended in turn.  If transactions also    *)
(* change a row of their own before they touch the log, the chain verifies *)
(* from end to end.  A reading of several pages, of any size, is as good   *)
(* as one: it shows no break, and skips and repeats nothing.  The          *)
(* numbering needs the lock only: who has it has its rows numbered on from *)
(* the committed ones.  The chain needs more, since a transaction may read *)
(* the tip before its first write takes the lock: under Serialized it      *)
(* holds the lock when it reads, so that the tip is still the tip when it  *)
(* inserts.                                                                *)
(*                                                                         *)
(* The copy, for any source, size of a chunk and number of processes: what *)
(* a report calls ok is a snapshot, and a source nobody writes to is       *)
(* copied without a hole (CopyInv).                                        *)
(***************************************************************************)
EXTENDS AuditReads, PostgresCopy, FiniteSetTheorems, SequenceTheorems, TLAPS

\* The setting of the log's theorems: SQLite, and every use case writes a row first.
Serialized == SingleWriter /\ ~AuditOnly

\* rows are numbered from 1 without a gap or a repetition, and form a chain.
Sound(rows) ==
  /\ IsFiniteSet(rows)
  /\ {r.seq : r \in rows} = 1 .. Cardinality(rows)
  /\ Verifies(rows)

\* Whoever is in a transaction holds the lock, so that nothing is committed between
\* its reading of the tip and its insert.
LockHeld == \A w \in Writers : pc[w] # "idle" => lock = w

TipIsFresh == \A w \in Writers : pc[w] = "read" => tip[w] = TipHash(Visible(w))

IInv ==
  /\ TypeOK
  /\ LockHeld
  /\ TipIsFresh
  /\ Sound(log)
  /\ \A w \in Writers : Sound(Visible(w))

-----------------------------------------------------------------------------

\* The empty log is sound.
LEMMA EmptySound == Sound({})
<1>1. IsFiniteSet({}) /\ Cardinality({}) = 0
  BY FS_EmptySet
<1> QED
  BY <1>1 DEF Sound, Verifies

\* A row behind all others, which hashes the hash of the last of them, continues the
\* chain.
LEMMA ExtendVerifies ==
  ASSUME NEW rows, Verifies(rows), \A r \in rows : r.seq \in Nat,
         NEW seq \in Nat, NEW event, \A r \in rows : r.seq < seq
  PROVE  Verifies(rows \union {Entry(seq, TipHash(rows), event)})
<1> DEFINE new == Entry(seq, TipHash(rows), event)
<1> DEFINE all == rows \union {new}
<1>1. /\ new.seq = seq /\ new.prev = TipHash(rows)
      /\ new.event = event /\ new.hash = EntryHash(new.prev, event)
  BY DEF Entry
<1> HIDE DEF new
<1>2. Before(all, seq) = rows
  BY <1>1 DEF Before
<1>3. \A r \in rows : Before(all, r.seq) = Before(rows, r.seq)
  BY <1>1 DEF Before
<1>4. Linked(all, new) /\ Intact(new)
  BY <1>1, <1>2 DEF Linked, Intact
<1>5. ASSUME NEW r \in rows PROVE Linked(all, r) /\ Intact(r)
  BY <1>3 DEF Linked, Intact, Verifies
<1>6. Verifies(all)
  BY <1>4, <1>5 DEF Verifies
<1> QED
  BY <1>6 DEF new

\* The row after the last one continues the numbering.
LEMMA ExtendGapFree ==
  ASSUME NEW rows, IsFiniteSet(rows), {r.seq : r \in rows} = 1 .. Cardinality(rows),
         NEW new, new.seq \in Nat,
         \A r \in rows : r.seq < new.seq,
         new.seq = 1 \/ \E r \in rows : r.seq + 1 = new.seq
  PROVE  /\ IsFiniteSet(rows \union {new})
         /\ {r.seq : r \in rows \union {new}} = 1 .. Cardinality(rows \union {new})
<1> DEFINE n == Cardinality(rows)
<1>1. n \in Nat
  BY FS_CardinalityType
<1>2. \A r \in rows : r.seq \in 1 .. n
  OBVIOUS
<1>3. \A i \in 1 .. n : \E r \in rows : r.seq = i
  OBVIOUS
<1>4. new \notin rows
  BY <1>1, <1>2
<1>5. IsFiniteSet(rows \union {new}) /\ Cardinality(rows \union {new}) = n + 1
  BY <1>4, FS_AddElement
<1> HIDE DEF n
<1>6. new.seq = n + 1
  <2>1. n < new.seq
    BY <1>1, <1>2, <1>3
  <2>2. new.seq <= n + 1
    BY <1>1, <1>2
  <2> QED
    BY <1>1, <2>1, <2>2
<1>7. {r.seq : r \in rows \union {new}} = 1 .. n + 1
  BY <1>1, <1>2, <1>3, <1>6
<1> QED
  BY <1>5, <1>7

-----------------------------------------------------------------------------

\* The invariant holds before the first entry.
LEMMA InitInvariant == ASSUME Serialized, Init PROVE IInv
<1>1. TypeOK
  BY AuditLogAssumption DEF Init, TypeOK, Genesis, Rows
<1>2. LockHeld /\ TipIsFresh
  BY DEF Init, LockHeld, TipIsFresh
<1>3. Sound(log)
  BY EmptySound DEF Init
<1>4. \A w \in Writers : Visible(w) = {}
  BY DEF Init, Visible
<1> QED
  BY <1>1, <1>2, <1>3, <1>4, EmptySound DEF IInv

\* Taking the lock changes no rows.
LEMMA BeginInvariant ==
  ASSUME Serialized, IInv, NEW w \in Writers, Begin(w) PROVE IInv'
<1> USE AuditLogAssumption DEF Serialized, IInv, Begin
<1>1. lock = None /\ lock' = w
  OBVIOUS
<1>2. TypeOK'
  BY <1>1 DEF TypeOK
<1>3. LockHeld'
  BY <1>1 DEF LockHeld, TypeOK
<1>4. TipIsFresh'
  BY DEF TipIsFresh, TypeOK, Visible
<1> QED
  BY <1>2, <1>3, <1>4 DEF Visible

\* The hash of the last of a set of rows is one of theirs, or the genesis hash.
LEMMA TipHashType ==
  ASSUME NEW rows \in SUBSET Rows, Sound(rows) PROVE TipHash(rows) \in Seq(Events)
<1>1. CASE rows = {}
  BY <1>1 DEF TipHash, Genesis
<1>2. CASE rows # {}
  <2> DEFINE n == Cardinality(rows)
  <2>1. n \in Nat
    BY FS_CardinalityType DEF Sound
  <2>2. {r.seq : r \in rows} = 1 .. n
    BY DEF Sound
  <2>3. n \in 1 .. n
    BY <1>2, <2>1, <2>2
  <2>4. \E r \in rows : \A x \in rows : x.seq <= r.seq
    <3>1. PICK r \in rows : r.seq = n
      BY <2>2, <2>3
    <3>2. \A x \in rows : x.seq \in 1 .. n
      BY <2>2
    <3> QED
      BY <2>1, <3>1, <3>2
  <2>5. (CHOOSE r \in rows : \A x \in rows : x.seq <= r.seq) \in rows
    BY <2>4
  <2> QED
    BY <1>2, <2>5 DEF TipHash, Rows
<1> QED
  BY <1>1, <1>2

\* The tip is read from what the transaction sees.
LEMMA ReadTipInvariant ==
  ASSUME Serialized, IInv, NEW w \in Writers, ReadTip(w) PROVE IInv'
<1> USE DEF IInv, ReadTip
<1>1. TipHash(Visible(w)) \in Seq(Events)
  <2>1. Visible(w) \in SUBSET Rows
    BY DEF TypeOK, Visible
  <2> QED
    BY <2>1, TipHashType
<1>2. TypeOK'
  BY <1>1 DEF TypeOK
<1>3. LockHeld'
  BY DEF LockHeld, TypeOK
<1>4. \A v \in Writers : Visible(v)' = Visible(v)
  BY DEF Visible
<1>5. TipIsFresh'
  BY <1>4 DEF TipIsFresh, TypeOK
<1> QED
  BY <1>2, <1>3, <1>4, <1>5

\* The row that is inserted continues what the transaction sees: nobody has written
\* since it read the tip.
LEMMA InsertInvariant ==
  ASSUME Serialized, IInv, NEW w \in Writers, Insert(w) PROVE IInv'
<1> USE DEF IInv
<1>1. PICK seq \in Seqs :
        /\ NextSeq(w, seq)
        /\ pending' = [pending EXCEPT ![w] = @ \union {Entry(seq, tip[w], written + 1)}]
  BY DEF Insert
<1> DEFINE new == Entry(seq, tip[w], written + 1)
<1>2. seq \in Nat /\ written + 1 \in Events /\ written' \in 0 .. MaxEntries /\ log' = log
  BY AuditLogAssumption DEF Insert, TypeOK, Seqs, Events
<1>3. new.seq = seq /\ new \in Rows
  BY <1>2 DEF Entry, EntryHash, Rows, TypeOK
<1>4. Visible(w) \in SUBSET Rows /\ \A r \in Visible(w) : r.seq \in Nat
  BY DEF Visible, TypeOK, Rows, Seqs
<1>5. tip[w] = TipHash(Visible(w))
  BY DEF Insert, TipIsFresh
<1>6. /\ \A r \in Visible(w) : r.seq < seq
      /\ seq = 1 \/ \E r \in Visible(w) : r.seq + 1 = seq
  BY <1>1 DEF NextSeq, Serialized
<1>7. Verifies(Visible(w) \union {new})
  BY <1>2, <1>4, <1>5, <1>6, ExtendVerifies DEF Sound
<1> HIDE DEF new
<1>8. Sound(Visible(w) \union {new})
  BY <1>2, <1>3, <1>6, <1>7, ExtendGapFree DEF Sound
<1>9. pending' = [pending EXCEPT ![w] = @ \union {new}]
  BY <1>1 DEF new
<1>10. Visible(w)' = Visible(w) \union {new}
  BY <1>2, <1>9 DEF Visible, TypeOK
<1>11. \A v \in Writers : v # w => Visible(v)' = Visible(v)
  BY <1>2, <1>9 DEF Visible, TypeOK
<1>12. \A v \in Writers : Sound(Visible(v))'
  BY <1>8, <1>10, <1>11 DEF Sound
<1>13. lock = w /\ lock' = w
  BY DEF Insert, LockHeld, Serialized, TypeOK
<1>14. TypeOK'
  BY <1>2, <1>3, <1>9, <1>13 DEF TypeOK, Insert
<1>15. LockHeld'
  BY <1>13 DEF LockHeld, Insert, TypeOK
<1>16. TipIsFresh'
  BY <1>11 DEF TipIsFresh, Insert, TypeOK
<1> QED
  BY <1>2, <1>12, <1>14, <1>15, <1>16 DEF Sound

\* A transaction that ends was the only one: no other sees rows of its own.
LEMMA EndInvariant ==
  ASSUME Serialized, IInv, NEW w \in Writers, pc[w] # "idle", End(w),
         log' = log \/ log' = Visible(w)
  PROVE  IInv'
<1> USE DEF IInv
<1>1. lock = w /\ lock' = None
  BY DEF LockHeld, End
<1>2. \A v \in Writers : v # w => pc[v] = "idle"
  BY <1>1 DEF LockHeld
<1>3. \A v \in Writers : pending'[v] = {} /\ pc'[v] = "idle"
  BY <1>2 DEF End, TypeOK
<1>4. \A v \in Writers : Visible(v)' = log'
  BY <1>3 DEF Visible
<1>5. Sound(log')
  OBVIOUS
<1>6. log' \subseteq Rows
  BY DEF Visible, TypeOK
<1>7. TypeOK'
  BY <1>1, <1>3, <1>6, AuditLogAssumption DEF TypeOK, End, Genesis
<1>8. LockHeld' /\ TipIsFresh'
  BY <1>3 DEF LockHeld, TipIsFresh
<1> QED
  BY <1>4, <1>5, <1>7, <1>8 DEF Sound

\* Every step preserves the invariant.
LEMMA NextInvariant == ASSUME Serialized, IInv, [Next]_vars PROVE IInv'
<1>1. CASE Next
  <2>1. PICK w \in Writers :
          Begin(w) \/ ReadTip(w) \/ Insert(w) \/ Commit(w) \/ Rollback(w)
    BY <1>1 DEF Next
  <2>2. CASE Begin(w)
    BY <2>2, BeginInvariant
  <2>3. CASE ReadTip(w)
    BY <2>3, ReadTipInvariant
  <2>4. CASE Insert(w)
    BY <2>4, InsertInvariant
  <2>5. CASE Commit(w)
    BY <2>5, EndInvariant DEF Commit, Visible
  <2>6. CASE Rollback(w)
    BY <2>6, EndInvariant DEF Rollback
  <2> QED
    BY <2>1, <2>2, <2>3, <2>4, <2>5, <2>6
<1>2. CASE UNCHANGED vars
  BY <1>2 DEF vars, IInv, TypeOK, LockHeld, TipIsFresh, Sound, Visible
<1> QED
  BY <1>1, <1>2

-----------------------------------------------------------------------------

\* The inductive invariant holds in every behaviour.
THEOREM AuditInvariance == ASSUME Serialized PROVE Spec => []IInv
<1>1. Init => IInv
  BY InitInvariant
<1>2. IInv /\ [Next]_vars => IInv'
  BY NextInvariant
<1> QED
  BY <1>1, <1>2, PTL DEF Spec

\* verify_chain finds no break in a log that only this program has written.
THEOREM ChainIsIntact == ASSUME Serialized PROVE Spec => []ChainVerifies
<1>1. IInv => ChainVerifies
  BY DEF IInv, Sound, ChainVerifies
<1> QED
  BY <1>1, AuditInvariance, PTL

-----------------------------------------------------------------------------
(* The numbering and the order of the log, which take the one writer only: *)
(* transactions that write nothing but entries may read a stale tip, but   *)
(* they too number their rows under the lock.                              *)

Numbered(rows) == IsFiniteSet(rows) /\ {r.seq : r \in rows} = 1 .. Cardinality(rows)

\* Rows that are not committed are the lock holder's.
RowsAreLocked == \A w \in Writers : pending[w] # {} => lock = w

NumberInv ==
  /\ TypeOK /\ RowsAreLocked
  /\ Numbered(log) /\ \A w \in Writers : Numbered(Visible(w))

\* Numbers are not given twice.
LEMMA NumbersDiffer ==
  ASSUME NEW rows, Numbered(rows)
  PROVE  \A r, s \in rows : r.seq = s.seq => r = s
<1>. DEFINE n == Cardinality(rows)
            f == [r \in rows |-> r.seq]
<1>1. n \in Nat /\ IsFiniteSet(rows)
  BY FS_CardinalityType DEF Numbered
<1>2. f \in Surjection(rows, 1 .. n)
  BY DEF Numbered, Surjection
<1>3. Cardinality(1 .. n) = n
  BY <1>1, FS_Interval
<1>. HIDE DEF n
<1>4. f \in Injection(rows, 1 .. n)
  <2>. HIDE DEF f
  <2>. QED
    BY <1>1, <1>2, <1>3, FS_Surjection DEF n
<1>. QED
  BY <1>4 DEF Injection, IsInjective

\* The number of a row is one more than that of the rows before it.
LEMMA RowsBefore ==
  ASSUME NEW rows, Numbered(rows), NEW r \in rows
  PROVE  Cardinality(Before(rows, r.seq)) = r.seq - 1
<1>. DEFINE n == Cardinality(rows)
            k == r.seq
            T == Before(rows, k)
            f == [i \in 1 .. k - 1 |-> CHOOSE s \in rows : s.seq = i]
<1>1. n \in Nat /\ k \in 1 .. n
  BY FS_CardinalityType DEF Numbered
<1>2. \A s \in rows : s.seq \in 1 .. n
  BY DEF Numbered
<1>3. \A i \in 1 .. n : \E s \in rows : s.seq = i
  BY DEF Numbered
<1>. HIDE DEF k, n
<1>4. \A i \in 1 .. k - 1 : f[i] \in rows /\ f[i].seq = i
  BY <1>1, <1>3
<1>5. \A s \in T : s \in rows /\ s.seq \in 1 .. k - 1
  BY <1>1, <1>2 DEF Before
<1>. HIDE DEF f
<1>6. \A s \in T : f[s.seq] = s
  BY <1>4, <1>5, NumbersDiffer
<1>7. \A i \in 1 .. k - 1 : f[i] \in T
  BY <1>1, <1>4 DEF Before
<1>8. f \in [1 .. k - 1 -> T]
  BY <1>7 DEF f
<1>9. f \in Bijection(1 .. k - 1, T)
  <2>1. \A i, j \in 1 .. k - 1 : f[i] = f[j] => i = j
    BY <1>4
  <2>. HIDE DEF T
  <2>. QED
    BY <1>5, <1>6, <1>8, <2>1 DEF Bijection, Injection, Surjection, IsInjective
<1>10. IsFiniteSet(1 .. k - 1) /\ Cardinality(1 .. k - 1) = k - 1
  BY <1>1, FS_Interval
<1>. HIDE DEF T
<1>11. Cardinality(T) = k - 1
  BY <1>9, <1>10, FS_Bijection DEF ExistsBijection
<1>. QED
  BY <1>11 DEF T, k

\* The hash of the last of them.
LEMMA TipOfNumbered ==
  ASSUME NEW rows \in SUBSET Rows, Numbered(rows) PROVE TipHash(rows) \in Seq(Events)
<1>1. CASE rows = {}
  BY <1>1, EmptySeq DEF TipHash, Genesis
<1>2. CASE rows # {}
  <2>. DEFINE n == Cardinality(rows)
  <2>1. n \in Nat /\ \A r \in rows : r.seq \in 1 .. n
    BY FS_CardinalityType DEF Numbered
  <2>2. n \in 1 .. n
    BY <1>2, <2>1
  <2>3. \E r \in rows : r.seq = n
    BY <2>2 DEF Numbered
  <2>4. \E r \in rows : \A x \in rows : x.seq <= r.seq
    BY <2>1, <2>3
  <2>5. (CHOOSE r \in rows : \A x \in rows : x.seq <= r.seq) \in rows
    BY <2>4
  <2>. QED
    BY <1>2, <2>5 DEF TipHash, Rows
<1>. QED
  BY <1>1, <1>2

LEMMA InitNumbers == Init => NumberInv
<1>. SUFFICES ASSUME Init PROVE NumberInv
  OBVIOUS
<1>1. TypeOK
  BY AuditLogAssumption, EmptySeq DEF Init, TypeOK, Genesis
<1>2. Numbered({})
  BY FS_EmptySet DEF Numbered
<1>. QED
  BY <1>1, <1>2 DEF Init, NumberInv, RowsAreLocked, Visible

LEMMA InsertNumbers ==
  ASSUME SingleWriter, NumberInv, NEW w \in Writers, Insert(w)
  PROVE  NumberInv'
<1>. USE DEF NumberInv
<1>1. PICK seq \in Seqs :
        /\ NextSeq(w, seq)
        /\ pending' = [pending EXCEPT ![w] = @ \union {Entry(seq, tip[w], written + 1)}]
  BY DEF Insert
<1>. DEFINE new == Entry(seq, tip[w], written + 1)
<1>2. seq \in Nat /\ written + 1 \in Events /\ written' \in 0 .. MaxEntries /\ log' = log
  BY AuditLogAssumption DEF Insert, TypeOK, Seqs, Events
<1>3. EntryHash(tip[w], written + 1) \in Seq(Events)
  BY <1>2, AppendProperties DEF TypeOK, EntryHash
<1>4. new.seq = seq /\ new \in Rows
  BY <1>2, <1>3 DEF Entry, Rows, TypeOK
<1>5. /\ \A r \in Visible(w) : r.seq < seq
      /\ seq = 1 \/ \E r \in Visible(w) : r.seq + 1 = seq
  BY <1>1 DEF NextSeq
<1>. HIDE DEF new
<1>6. Numbered(Visible(w) \union {new})
  BY <1>2, <1>4, <1>5, ExtendGapFree DEF Numbered
<1>7. pending' = [pending EXCEPT ![w] = @ \union {new}]
  BY <1>1 DEF new
<1>8. Visible(w)' = Visible(w) \union {new}
  BY <1>2, <1>7 DEF Visible, TypeOK
<1>9. \A v \in Writers : v # w => Visible(v)' = Visible(v) /\ pending'[v] = pending[v]
  BY <1>2, <1>7 DEF Visible, TypeOK
<1>10. \A v \in Writers : Numbered(Visible(v))'
  BY <1>6, <1>8, <1>9 DEF Numbered
<1>11. lock \in {None, w} /\ lock' = w
  BY DEF Insert
<1>12. TypeOK'
  BY <1>2, <1>4, <1>7, <1>11 DEF TypeOK, Insert
<1>13. RowsAreLocked'
  BY <1>9, <1>11, AuditLogAssumption DEF RowsAreLocked
<1>. QED
  BY <1>2, <1>10, <1>12, <1>13 DEF Numbered

LEMMA EndNumbers ==
  ASSUME NumberInv, NEW w \in Writers, pc[w] # "idle", End(w),
         log' = log \/ (pending[w] # {} /\ log' = Visible(w))
  PROVE  NumberInv'
<1>. USE DEF NumberInv
<1>1. pending'[w] = {} /\ \A v \in Writers \ {w} : pending'[v] = pending[v]
  BY DEF End, TypeOK
<1>2. log' # log => \A v \in Writers \ {w} : pending[v] = {}
  BY DEF RowsAreLocked
<1>3. Numbered(log)' /\ log' \subseteq Rows
  BY DEF Visible, TypeOK, Numbered
<1>4. \A v \in Writers : Visible(v)' = log' \/ Visible(v)' = Visible(v)
  BY <1>1, <1>2 DEF Visible
<1>5. \A v \in Writers : Numbered(Visible(v))'
  BY <1>3, <1>4 DEF Numbered
<1>6. TypeOK'
  BY <1>3, EmptySeq, AuditLogAssumption DEF TypeOK, End, Genesis
<1>7. RowsAreLocked'
  BY <1>1 DEF RowsAreLocked, End
<1>. QED
  BY <1>3, <1>5, <1>6, <1>7

LEMMA NextNumbers == ASSUME SingleWriter, NumberInv, [Next]_vars PROVE NumberInv'
<1>. USE DEF NumberInv
<1>1. ASSUME NEW w \in Writers, Begin(w) \/ ReadTip(w)
      PROVE  NumberInv'
  <2>1. UNCHANGED <<log, pending, written>> /\ \A v \in Writers : Visible(v)' = Visible(v)
    BY <1>1 DEF Begin, ReadTip, Visible
  <2>2. lock' = lock \/ (lock = None /\ lock' = w)
    BY <1>1 DEF Begin, ReadTip
  <2>3. TipHash(Visible(w)) \in Seq(Events)
    BY TipOfNumbered DEF TypeOK, Visible
  <2>4. TypeOK'
    <3>1. CASE Begin(w)
      BY <2>1, <2>2, <3>1, AuditLogAssumption DEF Begin, TypeOK
    <3>2. CASE ReadTip(w)
      BY <2>1, <2>3, <3>2 DEF ReadTip, TypeOK
    <3>. QED
      BY <1>1, <3>1, <3>2
  <2>5. RowsAreLocked'
    BY <2>1, <2>2, AuditLogAssumption DEF RowsAreLocked
  <2>. QED
    BY <2>1, <2>4, <2>5 DEF Numbered
<1>2. ASSUME NEW w \in Writers, Commit(w) \/ Rollback(w)
      PROVE  NumberInv'
  BY <1>2, EndNumbers DEF Commit, Rollback, Visible
<1>3. CASE UNCHANGED vars
  BY <1>3 DEF vars, TypeOK, RowsAreLocked, Numbered, Visible
<1>. QED
  BY <1>1, <1>2, <1>3, InsertNumbers DEF Next

THEOREM NumberInvariance == ASSUME SingleWriter PROVE Spec => []NumberInv
<1>1. NumberInv /\ [Next]_vars => NumberInv'
  BY NextNumbers
<1>. QED
  BY <1>1, InitNumbers, PTL DEF Spec

\* The sequence numbers of audit_log are 1, 2, 3 and so on, on a database with one
\* writer, whatever its transactions write and however they end.
THEOREM SequenceHasNoGap == ASSUME SingleWriter PROVE Spec => []SeqIsGapFree
<1>1. NumberInv => SeqIsGapFree
  BY DEF NumberInv, Numbered, SeqIsGapFree
<1>. QED
  BY <1>1, NumberInvariance, PTL

-----------------------------------------------------------------------------
(* The refinement.                                                         *)

\* The log in seq order.
Ordered(rows) ==
  [i \in 1 .. Cardinality(rows) |->
     (CHOOSE r \in rows : Cardinality(Before(rows, r.seq)) = i - 1).event]

\* It has the events of the rows, each at its number.
LEMMA OrderedByNumber ==
  ASSUME NEW rows \in SUBSET Rows, Numbered(rows)
  PROVE  /\ Ordered(rows) \in Seq(Events) /\ Len(Ordered(rows)) = Cardinality(rows)
         /\ \A r \in rows : Ordered(rows)[r.seq] = r.event
<1>. DEFINE n == Cardinality(rows)
            at(i) == CHOOSE r \in rows : Cardinality(Before(rows, r.seq)) = i - 1
            o == [i \in 1 .. n |-> at(i).event]
<1>1. n \in Nat /\ \A r \in rows : r.seq \in 1 .. n
  BY FS_CardinalityType DEF Numbered
<1>2. \A i \in 1 .. n : \E r \in rows : r.seq = i
  BY DEF Numbered
<1>. HIDE DEF n
<1>3. \A r \in rows, i \in 1 .. n : Cardinality(Before(rows, r.seq)) = i - 1 <=> r.seq = i
  <2>. SUFFICES ASSUME NEW r \in rows, NEW i \in 1 .. n
                PROVE  Cardinality(Before(rows, r.seq)) = i - 1 <=> r.seq = i
    OBVIOUS
  <2>1. Cardinality(Before(rows, r.seq)) = r.seq - 1 /\ r.seq \in Nat
    BY <1>1, RowsBefore
  <2>. QED
    BY <1>1, <2>1
<1>4. \A i \in 1 .. n : at(i) \in rows /\ at(i).seq = i
  BY <1>2, <1>3
<1>. HIDE DEF at
<1>5. o \in [1 .. n -> Events]
  BY <1>4 DEF Rows
<1>6. \A r \in rows : o[r.seq] = r.event
  <2>. SUFFICES ASSUME NEW r \in rows PROVE o[r.seq] = r.event
    OBVIOUS
  <2>1. at(r.seq) = r
    BY <1>1, <1>4, NumbersDiffer
  <2>. QED
    BY <1>1, <2>1
<1>7. o = Ordered(rows)
  BY DEF at, n, Ordered
<1>. HIDE DEF o
<1>8. o \in Seq(Events) /\ Len(o) = n
  BY <1>1, <1>5
<1>. QED
  BY <1>6, <1>7, <1>8 DEF n

\* More rows behind those there are add events at the end.
LEMMA OrderedGrows ==
  ASSUME NEW rows \in SUBSET Rows, Numbered(rows),
         NEW more \in SUBSET Rows, Numbered(more), rows \subseteq more
  PROVE  \/ more = rows
         \/ LET added == Len(Ordered(more)) - Len(Ordered(rows))
            IN  \E n \in 1 .. added : \E seen \in [1 .. n -> Events] :
                  Ordered(more) = Ordered(rows) \o seen
<1>. DEFINE m == Cardinality(rows)
            n == Cardinality(more)
            old == Ordered(rows)
            new == Ordered(more)
            seen == [i \in 1 .. n - m |-> new[m + i]]
<1>1. /\ m \in Nat /\ n \in Nat /\ m <= n /\ (m = n => more = rows)
  BY FS_CardinalityType, FS_Subset DEF Numbered
<1>2. /\ old \in Seq(Events) /\ Len(old) = m /\ \A r \in rows : old[r.seq] = r.event
      /\ new \in Seq(Events) /\ Len(new) = n /\ \A r \in more : new[r.seq] = r.event
  BY OrderedByNumber
<1>3. \A i \in 1 .. m : \E r \in rows : r.seq = i
  BY DEF Numbered
<1>. HIDE DEF m, n, old, new
<1>4. \A i \in 1 .. m : new[i] = old[i]
  BY <1>2, <1>3
<1>5. CASE m = n
  BY <1>1, <1>5
<1>6. CASE m # n
  <2>1. n - m \in 1 .. n - m /\ n - m \in Nat
    BY <1>1, <1>6
  <2>2. \A i \in 1 .. n - m : new[m + i] \in Events
    BY <1>1, <1>2, ElementOfSeq
  <2>3. seen \in [1 .. n - m -> Events]
    BY <2>2
  <2>4. /\ seen \in Seq(Events) /\ Len(seen) = n - m
        /\ \A i \in 1 .. n - m : seen[i] = new[m + i]
    BY <2>1, <2>3
  <2>. HIDE DEF seen
  <2>5. /\ old \o seen \in Seq(Events) /\ Len(old \o seen) = n
        /\ \A i \in 1 .. n : (old \o seen)[i] = IF i <= m THEN old[i] ELSE seen[i - m]
    <3>1. /\ old \o seen \in Seq(Events) /\ Len(old \o seen) = Len(old) + Len(seen)
          /\ \A i \in 1 .. Len(old) + Len(seen) :
               (old \o seen)[i] = IF i <= Len(old) THEN old[i] ELSE seen[i - Len(old)]
      BY <1>2, <2>4, ConcatProperties
    <3>2. Len(old) + Len(seen) = n
      BY <1>1, <1>2, <2>4
    <3>. QED
      BY <1>2, <3>1, <3>2
  <2>6. \A i \in 1 .. n : (old \o seen)[i] = new[i]
    BY <1>1, <1>4, <2>4, <2>5
  <2>7. new = old \o seen
    BY <1>2, <2>5, <2>6, SeqEqual
  <2>8. Len(new) - Len(old) = n - m
    BY <1>2
  <2>. QED
    BY <2>1, <2>3, <2>7, <2>8 DEF new, old
<1>. QED
  BY <1>5, <1>6

\* One transaction adds its entries behind all that is committed: a reader of the log
\* sees one history that only grows at its end, on a database with one writer.
THEOREM Refinement == ASSUME SingleWriter PROVE Spec => ImplementsAppendOnlyLog
<1>1. InOrder = Ordered(log) /\ InOrder' = Ordered(log')
  BY DEF InOrder, Ordered
<1>2. Init => History!Init
  <2>. SUFFICES ASSUME Init PROVE InOrder = <<>>
    BY DEF History!Init
  <2>1. log = {} /\ Cardinality(log) = 0
    BY FS_EmptySet DEF Init
  <2>2. Ordered(log) \in Seq(Events) /\ Len(Ordered(log)) = 0
    BY <2>1, OrderedByNumber, InitNumbers DEF NumberInv
  <2>. QED
    BY <1>1, <2>2, EmptySeq
<1>3. NumberInv /\ NumberInv' /\ [Next]_vars => [History!Add]_InOrder
  <2>. SUFFICES ASSUME NumberInv, NumberInv', [Next]_vars PROVE [History!Add]_InOrder
    OBVIOUS
  <2>1. log \subseteq log'
    BY DEF Next, vars, Begin, ReadTip, Insert, Commit, Rollback
  <2>2. /\ log \subseteq Rows /\ Numbered(log)
        /\ log' \subseteq Rows /\ Numbered(log')
    BY DEF NumberInv, TypeOK, Numbered
  <2>3. CASE log' = log
    BY <1>1, <2>3
  <2>4. CASE log' # log
    <3>1. PICK n \in 1 .. Len(InOrder') - Len(InOrder) : \E seen \in [1 .. n -> Events] :
            InOrder' = InOrder \o seen
      BY <1>1, <2>1, <2>2, <2>4, OrderedGrows
    <3>. QED
      BY <3>1 DEF History!Add
  <2>. QED
    BY <2>3, <2>4
<1>. QED
  BY <1>2, <1>3, NumberInvariance, PTL DEF Spec, ImplementsAppendOnlyLog, History!Spec

-----------------------------------------------------------------------------
(* Rows in seq order.                                                      *)

\* Rows that have a number each.
Distinct(rows) ==
  /\ IsFiniteSet(rows)
  /\ \A r \in rows : r.seq \in Nat
  /\ \A r, s \in rows : r.seq = s.seq => r = s

LEMMA NumberedIsDistinct ==
  ASSUME NEW rows, Numbered(rows), NEW part \in SUBSET rows
  PROVE  Distinct(part)
<1>1. Cardinality(rows) \in Nat
  BY FS_CardinalityType DEF Numbered
<1>2. \A r \in rows : r.seq \in Nat
  BY <1>1 DEF Numbered
<1>. QED
  BY <1>2, FS_Subset, NumbersDiffer DEF Distinct, Numbered

\* A row has a place of its own, further back the greater its number.
LEMMA PlacesDiffer ==
  ASSUME NEW rows, Distinct(rows)
  PROVE  /\ \A r \in rows : Place(rows, r) \in 1 .. Cardinality(rows)
         /\ \A r, s \in rows : r.seq < s.seq => Place(rows, r) < Place(rows, s)
<1>1. IsFiniteSet(rows) /\ Cardinality(rows) \in Nat
  BY FS_CardinalityType DEF Distinct
<1>2. \A r \in rows : IsFiniteSet(Before(rows, r.seq)) /\ Cardinality(Before(rows, r.seq)) \in Nat
  BY <1>1, FS_Subset, FS_CardinalityType DEF Before
<1>3. ASSUME NEW r \in rows
      PROVE  Place(rows, r) \in 1 .. Cardinality(rows)
  <2>1. Before(rows, r.seq) \in SUBSET (rows \ {r})
    BY DEF Before, Distinct
  <2>2. IsFiniteSet(rows \ {r}) /\ Cardinality(rows \ {r}) = Cardinality(rows) - 1
    BY <1>1, FS_RemoveElement
  <2>3. Cardinality(Before(rows, r.seq)) <= Cardinality(rows) - 1
    BY <2>1, <2>2, FS_Subset
  <2>. QED
    BY <1>1, <1>2, <2>3 DEF Place
<1>4. ASSUME NEW r \in rows, NEW s \in rows, r.seq < s.seq
      PROVE  Place(rows, r) < Place(rows, s)
  <2>1. Before(rows, r.seq) \in SUBSET Before(rows, s.seq)
    BY <1>4 DEF Before, Distinct
  <2>2. r \in Before(rows, s.seq) /\ r \notin Before(rows, r.seq)
    BY <1>4 DEF Before, Distinct
  <2>3. Cardinality(Before(rows, r.seq)) <= Cardinality(Before(rows, s.seq))
        /\ Cardinality(Before(rows, r.seq)) # Cardinality(Before(rows, s.seq))
    BY <1>2, <2>1, <2>2, FS_Subset
  <2>. QED
    BY <1>2, <2>3 DEF Place
<1>. QED
  BY <1>3, <1>4

\* Every place is taken.
LEMMA PlacesAreTaken ==
  ASSUME NEW rows, Distinct(rows), NEW i \in 1 .. Cardinality(rows)
  PROVE  \E r \in rows : Place(rows, r) = i
<1>. DEFINE n == Cardinality(rows)
            f == [r \in rows |-> Place(rows, r)]
<1>1. IsFiniteSet(rows) /\ n \in Nat
  BY FS_CardinalityType DEF Distinct
<1>2. \A r, s \in rows : r # s => Place(rows, r) # Place(rows, s)
  BY PlacesDiffer DEF Distinct
<1>3. f \in Injection(rows, 1 .. n)
  BY <1>2, PlacesDiffer DEF Injection, IsInjective
<1>4. IsFiniteSet(1 .. n) /\ Cardinality(1 .. n) = n
  BY <1>1, FS_Interval
<1>. HIDE DEF f
<1>5. f \in Surjection(rows, 1 .. n)
  BY <1>3, <1>4, FS_Injection
<1>6. \E r \in rows : f[r] = i
  BY <1>5 DEF Surjection
<1>. QED
  BY <1>6 DEF f

\* The sequence of the rows has each at its place.
LEMMA InSeqOrderPlaces ==
  ASSUME NEW rows, Distinct(rows)
  PROVE  LET o == InSeqOrder(rows) IN
         /\ o \in Seq(rows) /\ Len(o) = Cardinality(rows)
         /\ \A i \in 1 .. Len(o) : o[i] \in rows /\ Place(rows, o[i]) = i
         /\ \A r \in rows : o[Place(rows, r)] = r
<1>. DEFINE n == Cardinality(rows)
            at(i) == CHOOSE row \in rows : Place(rows, row) = i
            o == [i \in 1 .. n |-> at(i)]
<1>1. n \in Nat
  BY FS_CardinalityType DEF Distinct
<1>2. \A i \in 1 .. n : at(i) \in rows /\ Place(rows, at(i)) = i
  BY PlacesAreTaken
<1>3. \A r, s \in rows : Place(rows, r) = Place(rows, s) => r = s
  <2>. SUFFICES ASSUME NEW r \in rows, NEW s \in rows, Place(rows, r) = Place(rows, s)
                PROVE  r = s
    OBVIOUS
  <2>1. Place(rows, r) \in Nat /\ r.seq \in Nat /\ s.seq \in Nat
    BY <1>1, PlacesDiffer DEF Distinct
  <2>2. ~(r.seq < s.seq) /\ ~(s.seq < r.seq)
    BY <2>1, PlacesDiffer
  <2>. QED
    BY <2>1, <2>2 DEF Distinct
<1>4. \A r \in rows : Place(rows, r) \in 1 .. n
  BY PlacesDiffer
<1>5. o = InSeqOrder(rows)
  BY DEF InSeqOrder
<1>. HIDE DEF at
<1>6. o \in Seq(rows) /\ Len(o) = n /\ \A i \in 1 .. n : o[i] = at(i)
  BY <1>1, <1>2
<1>. HIDE DEF o
<1>7. \A r \in rows : o[Place(rows, r)] = r
  BY <1>2, <1>3, <1>4, <1>6
<1>8. \A i \in 1 .. Len(o) : o[i] \in rows /\ Place(rows, o[i]) = i
  BY <1>2, <1>6
<1>. QED
  BY <1>5, <1>6, <1>7, <1>8 DEF n

Descending(s) == \A i, j \in 1 .. Len(s) : i < j => s[j].seq < s[i].seq

\* Turned round it descends.
LEMMA ReverseDescends ==
  ASSUME NEW rows, Distinct(rows)
  PROVE  LET s == Reverse(InSeqOrder(rows)) IN
         /\ s \in Seq(rows) /\ Len(s) = Cardinality(rows)
         /\ Descending(s)
         /\ \A r \in rows : \E i \in 1 .. Len(s) : s[i] = r
<1>. DEFINE o == InSeqOrder(rows)
            n == Len(o)
            s == Reverse(o)
<1>1. /\ o \in Seq(rows) /\ n \in Nat /\ n = Cardinality(rows)
      /\ \A i \in 1 .. n : o[i] \in rows /\ Place(rows, o[i]) = i
      /\ \A r \in rows : o[Place(rows, r)] = r
  BY InSeqOrderPlaces
<1>. HIDE DEF o
<1>2. \A i \in 1 .. n : n - i + 1 \in 1 .. n /\ o[n - i + 1] \in rows
  BY <1>1
<1>3. s \in Seq(rows) /\ Len(s) = n /\ \A i \in 1 .. n : s[i] = o[n - i + 1]
  BY <1>1, <1>2 DEF Reverse
<1>. HIDE DEF s
<1>4. \A i \in 1 .. n : s[i] \in rows /\ Place(rows, s[i]) = n - i + 1 /\ s[i].seq \in Nat
  BY <1>1, <1>2, <1>3 DEF Distinct
<1>5. ASSUME NEW i \in 1 .. n, NEW j \in 1 .. n, i < j
      PROVE  s[j].seq < s[i].seq
  <2>1. Place(rows, s[j]) < Place(rows, s[i])
    BY <1>1, <1>4, <1>5
  <2>2. s[i].seq # s[j].seq
    <3>1. s[i] # s[j]
      <4>1. Place(rows, s[j]) = n - j + 1
        BY <1>4
      <4>. QED
        BY <1>1, <1>4, <2>1, <4>1
    <3>2. s[i] \in rows /\ s[j] \in rows
      BY <1>4
    <3>. QED
      BY <3>1, <3>2 DEF Distinct
  <2>3. ~(s[i].seq < s[j].seq)
    <3>1. Place(rows, s[i]) \in Nat /\ Place(rows, s[j]) \in Nat
      <4>1. \A k \in 1 .. n : n - k + 1 \in Nat
        BY <1>1
      <4>. QED
        BY <1>4, <4>1
    <3>2. s[i].seq < s[j].seq => Place(rows, s[i]) < Place(rows, s[j])
      BY <1>4, PlacesDiffer
    <3>. QED
      BY <2>1, <3>1, <3>2
  <2>. QED
    BY <1>4, <2>2, <2>3
<1>6. ASSUME NEW r \in rows
      PROVE  \E i \in 1 .. n : s[i] = r
  <2>1. Place(rows, r) \in 1 .. n
    BY <1>1, PlacesDiffer
  <2>2. n - Place(rows, r) + 1 \in 1 .. n /\ n - (n - Place(rows, r) + 1) + 1 = Place(rows, r)
    BY <1>1, <2>1
  <2>. QED
    BY <1>1, <1>3, <2>2
<1>. QED
  BY <1>1, <1>3, <1>5, <1>6 DEF o, s, Descending

\* A sequence of the rows that descends is that one.
LEMMA DescendingIsReverse ==
  ASSUME NEW rows, Distinct(rows), NEW s \in Seq(rows), Descending(s),
         \A r \in rows : \E i \in 1 .. Len(s) : s[i] = r
  PROVE  s = Reverse(InSeqOrder(rows))
<1>. DEFINE n == Len(s)
            o == InSeqOrder(rows)
<1>1. n \in Nat /\ s \in [1 .. n -> rows]
  BY LenProperties
<1>2. \A i \in 1 .. n : s[i] \in rows /\ s[i].seq \in Nat
  BY <1>1 DEF Distinct
<1>3. \A i, j \in 1 .. n : s[i] = s[j] => i = j
  BY <1>1, <1>2 DEF Descending
<1>4. Cardinality(rows) = n
  <2>1. s \in Bijection(1 .. n, rows)
    BY <1>1, <1>3 DEF Bijection, Injection, Surjection, IsInjective
  <2>. HIDE DEF n
  <2>2. 0 \in Int /\ 1 \in Int /\ n \in Int /\ n >= 0
    BY <1>1
  <2>3. IsFiniteSet(1 .. n) /\ Cardinality(1 .. n) = n
    <3>1. IsFiniteSet(1 .. n) /\ Cardinality(1 .. n) = IF 1 > n THEN 0 ELSE n - 1 + 1
      BY ONLY <2>2, FS_Interval
    <3>. QED
      BY <2>2, <3>1
  <2>. QED
    BY <2>1, <2>3, FS_Bijection DEF ExistsBijection
<1>5. ASSUME NEW i \in 1 .. n
      PROVE  Place(rows, s[i]) = n - i + 1
  <2>. DEFINE T == Before(rows, s[i].seq)
              f == [j \in 1 .. n - i |-> s[i + j]]
  <2>1. \A j \in 1 .. n - i : i + j \in 1 .. n /\ i < i + j
    BY <1>1
  <2>2. \A j \in 1 .. n - i : f[j] \in T
    BY <1>2, <2>1 DEF Before, Descending
  <2>3. ASSUME NEW r \in T
        PROVE  \E j \in 1 .. n - i : f[j] = r
    <3>1. r \in rows /\ r.seq < s[i].seq
      BY DEF Before
    <3>2. PICK k \in 1 .. n : s[k] = r
      BY <3>1
    <3>3. i < k
      BY <1>1, <1>2, <3>1, <3>2 DEF Descending
    <3>4. k - i \in 1 .. n - i /\ i + (k - i) = k
      BY <1>1, <3>3
    <3>. QED
      BY <3>2, <3>4
  <2>4. \A j, k \in 1 .. n - i : f[j] = f[k] => j = k
    BY <1>1, <1>3, <2>1
  <2>5. f \in [1 .. n - i -> T]
    BY <2>2
  <2>. HIDE DEF f, T
  <2>6. f \in Bijection(1 .. n - i, T)
    BY <2>3, <2>4, <2>5 DEF Bijection, Injection, Surjection, IsInjective
  <2>7. IsFiniteSet(1 .. n - i) /\ Cardinality(1 .. n - i) = n - i
    <3>. DEFINE k == n - i
    <3>1. k \in Int /\ k >= 0 /\ 1 \in Int
      BY <1>1
    <3>. HIDE DEF k
    <3>2. IsFiniteSet(1 .. k) /\ Cardinality(1 .. k) = IF 1 > k THEN 0 ELSE k - 1 + 1
      BY ONLY <3>1, FS_Interval
    <3>3. Cardinality(1 .. k) = k
      BY <3>1, <3>2
    <3>. QED
      BY <3>2, <3>3 DEF k
  <2>8. Cardinality(T) = n - i
    BY <2>6, <2>7, FS_Bijection DEF ExistsBijection
  <2>. QED
    BY <2>8 DEF Place, T
<1>6. /\ o \in Seq(rows) /\ Len(o) = n /\ \A r \in rows : o[Place(rows, r)] = r
  BY <1>4, InSeqOrderPlaces
<1>. HIDE DEF o
<1>7. ASSUME NEW i \in 1 .. n
      PROVE  n - i + 1 \in 1 .. n /\ o[n - i + 1] = s[i]
  <2>1. o[Place(rows, s[i])] = s[i]
    BY <1>2, <1>6
  <2>. QED
    BY <1>1, <1>5, <2>1
<1>8. Reverse(o) \in Seq(rows) /\ Len(Reverse(o)) = n /\ \A i \in 1 .. n : Reverse(o)[i] = s[i]
  BY <1>1, <1>2, <1>6, <1>7 DEF Reverse
<1>9. s = Reverse(o)
  BY <1>8, SeqEqual
<1>. QED
  BY <1>9 DEF o

-----------------------------------------------------------------------------
(* Readers of a log that grows.  What has been read from the front is all  *)
(* that is before the page to come; what has been shown from the end is a  *)
(* window of the log without a hole.  Neither is disturbed by rows that    *)
(* are added, which are numbered behind all that is there.                 *)

LEMMA GrowsBehind ==
  ASSUME NEW rows, Numbered(rows), NEW more, Numbered(more), rows \subseteq more
  PROVE  /\ Cardinality(rows) <= Cardinality(more)
         /\ \A r \in more \ rows : Cardinality(rows) < r.seq
         /\ \A k \in 1 .. Cardinality(rows) + 1 : Before(more, k) = Before(rows, k)
<1>. DEFINE n == Cardinality(rows)
<1>1. n \in Nat /\ Cardinality(more) \in Nat /\ n <= Cardinality(more)
  BY FS_CardinalityType, FS_Subset DEF Numbered
<1>2. \A r \in more : r.seq \in 1 .. Cardinality(more)
  BY DEF Numbered
<1>3. \A i \in 1 .. n : \E r \in rows : r.seq = i
  BY DEF Numbered
<1>. HIDE DEF n
<1>4. \A r \in more \ rows : n < r.seq
  <2>. SUFFICES ASSUME NEW r \in more \ rows, ~(n < r.seq) PROVE FALSE
    OBVIOUS
  <2>1. r.seq \in 1 .. n
    BY <1>1, <1>2
  <2>2. PICK s \in rows : s.seq = r.seq
    BY <1>3, <2>1
  <2>. QED
    BY <2>2, NumbersDiffer
<1>5. ASSUME NEW k \in 1 .. n + 1
      PROVE  Before(more, k) = Before(rows, k)
  BY <1>1, <1>2, <1>4 DEF Before
<1>. QED
  BY <1>1, <1>4, <1>5 DEF n

\* Part of a chain from its beginning is a chain.
LEMMA PrefixVerifies ==
  ASSUME NEW rows, Numbered(rows), Verifies(rows), NEW k \in Nat
  PROVE  Verifies(Before(rows, k))
<1>1. \A r \in rows : r.seq \in Nat
  BY NumberedIsDistinct DEF Distinct
<1>2. \A r \in Before(rows, k) : r \in rows /\ Before(Before(rows, k), r.seq) = Before(rows, r.seq)
  BY <1>1 DEF Before
<1>. QED
  BY <1>2 DEF Verifies, Linked, Intact

\* A page that is not empty has a last row.
LEMMA LastOfPage ==
  ASSUME NEW rows, Distinct(rows), rows # {}
  PROVE  /\ LastOf(rows) \in rows
         /\ \A row \in rows : row.seq <= LastOf(rows).seq
<1>. DEFINE n == Cardinality(rows)
<1>1. n \in Nat /\ n # 0
  BY FS_CardinalityType, FS_EmptySet DEF Distinct
<1>2. PICK last \in rows : Place(rows, last) = n
  BY <1>1, PlacesAreTaken
<1>3. ASSUME NEW row \in rows
      PROVE  row.seq <= last.seq
  <2>1. row.seq \in Nat /\ last.seq \in Nat
    BY DEF Distinct
  <2>2. Place(rows, row) \in 1 .. n
    BY PlacesDiffer
  <2>3. last.seq < row.seq => Place(rows, last) < Place(rows, row)
    BY PlacesDiffer
  <2>. QED
    BY <1>1, <1>2, <2>1, <2>2, <2>3
<1>. QED
  BY <1>3 DEF LastOf

\* After a page from the front, all that is before the next page has been read.
LEMMA PageFromFront ==
  ASSUME NumberInv, NEW start \in 1 .. Cardinality(log) + 1
  PROVE  LET page == ListRange(start)
             next == IF page = {} THEN start ELSE LastOf(page).seq + 1
         IN  /\ next \in 1 .. Cardinality(log) + 1
             /\ Before(log, start) \union page = Before(log, next)
<1>. DEFINE rows == {row \in log : row.seq >= start}
            page == FirstOf(rows)
            last == LastOf(page)
            n == Cardinality(log)
<1>1. /\ Numbered(log) /\ n \in Nat /\ PageSize \in Nat
      /\ \A row \in log : row.seq \in 1 .. n
  BY FS_CardinalityType, AuditReadsAssumption DEF NumberInv, Numbered
<1>2. page \subseteq rows /\ rows \subseteq log /\ Distinct(rows) /\ Distinct(page)
  <2>1. rows \in SUBSET log /\ page \in SUBSET log
    BY DEF FirstOf
  <2>. QED
    BY <1>1, <2>1, NumberedIsDistinct DEF FirstOf
<1>3. CASE page = {}
  BY <1>3 DEF ListRange
<1>4. CASE page # {}
  <2>1. last \in page /\ \A row \in page : row.seq <= last.seq
    BY <1>2, <1>4, LastOfPage
  <2>2. last \in log /\ last.seq \in 1 .. n /\ last.seq >= start
    BY <1>1, <1>2, <2>1
  <2>3. ASSUME NEW row \in rows, row.seq <= last.seq
        PROVE  row \in page
    <3>1. Place(rows, row) \in Nat /\ Place(rows, last) \in Nat /\ Place(rows, last) <= PageSize
      BY <1>2, <2>1, FS_CardinalityType, PlacesDiffer DEF Distinct, FirstOf
    <3>2. row.seq < last.seq => Place(rows, row) < Place(rows, last)
      BY <1>2, <2>1, PlacesDiffer
    <3>3. row.seq = last.seq => row = last
      BY <1>2, <2>1 DEF Distinct
    <3>4. row.seq \in Nat /\ last.seq \in Nat
      BY <1>2, <2>1 DEF Distinct
    <3>. QED
      BY <1>1, <2>3, <3>1, <3>2, <3>3, <3>4 DEF FirstOf
  <2>. HIDE DEF page, last, n
  <2>4. Before(log, start) \union page = Before(log, last.seq + 1)
    <3>1. ASSUME NEW row \in log
          PROVE  (row.seq < start \/ row \in page) <=> row.seq < last.seq + 1
      BY <1>1, <2>1, <2>2, <2>3
    <3>. QED
      BY <1>2, <3>1 DEF Before
  <2>5. last.seq + 1 \in 1 .. n + 1
    BY <1>1, <2>2
  <2>. QED
    BY <1>4, <2>4, <2>5 DEF page, last, n, ListRange
<1>. QED
  BY <1>3, <1>4

\* What list_audit_events has shown of the rows: each that its caller may see between the
\* newest and the oldest of them, and in that order.
Window(shown, rows) ==
  /\ shown \in Seq(rows) /\ Descending(shown)
  /\ \A i \in 1 .. Len(shown) : shown[i].event \in Scope
  /\ \A row \in rows :
       /\ shown # <<>> /\ row.event \in Scope
       /\ shown[Len(shown)].seq <= row.seq /\ row.seq <= shown[1].seq
       => \E i \in 1 .. Len(shown) : shown[i] = row

\* The rows after the cursor.
Candidates(shown, rows) ==
  {row \in rows : row.event \in Scope /\ (shown # <<>> => row.seq < shown[Len(shown)].seq)}

\* The first of the rows behind a window extend it.
LEMMA PageExtends ==
  ASSUME NEW rows, Distinct(rows), NEW shown, Window(shown, rows),
         NEW older, older = Reverse(InSeqOrder(Candidates(shown, rows))),
         NEW m \in 0 .. Len(older)
  PROVE  Window(shown \o SubSeq(older, 1, m), rows)
<1>. DEFINE cand == Candidates(shown, rows)
            page == SubSeq(older, 1, m)
            all == shown \o page
            k == Len(shown)
<1>1. /\ shown \in Seq(rows) /\ k \in Nat /\ shown \in [1 .. k -> rows]
      /\ \A i \in 1 .. k : shown[i] \in rows /\ shown[i].seq \in Nat
  <2>1. shown \in Seq(rows)
    BY DEF Window
  <2>. QED
    BY <2>1, LenProperties DEF Distinct
<1>2. cand \in SUBSET rows /\ Distinct(cand)
  BY FS_Subset DEF Candidates, Distinct
<1>3. /\ older \in Seq(cand) /\ Descending(older)
      /\ \A r \in cand : \E i \in 1 .. Len(older) : older[i] = r
  BY <1>2, ReverseDescends
<1>4. /\ Len(older) \in Nat /\ m \in Nat /\ m <= Len(older)
      /\ \A i \in 1 .. Len(older) : older[i] \in cand
  BY <1>3, LenProperties
<1>5. page \in Seq(cand) /\ Len(page) = m /\ \A i \in 1 .. m : page[i] = older[i]
  <2>1. \A i \in 1 .. m : older[i] \in cand
    BY <1>4
  <2>. QED
    BY <1>3, <1>4, <2>1
<1>6. \A i \in 1 .. m : /\ page[i] \in rows /\ page[i].seq \in Nat /\ page[i].event \in Scope
                        /\ \A j \in 1 .. k : page[i].seq < shown[j].seq
  <2>. SUFFICES ASSUME NEW i \in 1 .. m
                PROVE  /\ page[i] \in rows /\ page[i].seq \in Nat /\ page[i].event \in Scope
                       /\ \A j \in 1 .. k : page[i].seq < shown[j].seq
    OBVIOUS
  <2>1. page[i] \in cand
    BY <1>4, <1>5
  <2>2. page[i] \in rows /\ page[i].seq \in Nat /\ page[i].event \in Scope
    BY <2>1 DEF Candidates, Distinct
  <2>3. ASSUME NEW j \in 1 .. k
        PROVE  page[i].seq < shown[j].seq
    <3>1. shown # <<>>
      BY <1>1
    <3>2. page[i].seq < shown[k].seq
      BY <2>1, <3>1 DEF Candidates
    <3>3. shown[k].seq <= shown[j].seq
      BY <1>1 DEF Window, Descending
    <3>. QED
      BY <1>1, <2>2, <3>2, <3>3
  <2>. QED
    BY <2>2, <2>3
<1>. HIDE DEF page, cand
<1>7. page \in Seq(rows)
  BY <1>4, <1>5, <1>6
<1>8. /\ all \in Seq(rows) /\ Len(all) = k + m
      /\ \A i \in 1 .. k : all[i] = shown[i]
      /\ \A i \in 1 .. m : all[k + i] = page[i]
  <2>1. all \in Seq(rows) /\ Len(all) = k + Len(page)
        /\ \A i \in 1 .. k + Len(page) : all[i] = IF i <= k THEN shown[i] ELSE page[i - k]
    BY <1>1, <1>7, ConcatProperties
  <2>. QED
    BY <1>1, <1>4, <1>5, <2>1
<1>9. \A i \in 1 .. k + m : i \in 1 .. k \/ \E j \in 1 .. m : i = k + j
  <2>. SUFFICES ASSUME NEW i \in 1 .. k + m, i \notin 1 .. k
                PROVE  i - k \in 1 .. m /\ i = k + (i - k)
    OBVIOUS
  <2>. QED
    BY <1>1, <1>4
<1>. HIDE DEF all, k
<1>10. Descending(all)
  <2>. SUFFICES ASSUME NEW i \in 1 .. k + m, NEW j \in 1 .. k + m, i < j
                PROVE  all[j].seq < all[i].seq
    BY <1>8 DEF Descending
  <2>1. CASE i \in 1 .. k /\ j \in 1 .. k
    BY <1>8, <2>1 DEF Window, Descending, k
  <2>2. CASE i \in 1 .. k /\ j \notin 1 .. k
    BY <1>6, <1>8, <1>9, <2>2
  <2>3. CASE i \notin 1 .. k
    <3>1. PICK a \in 1 .. m : i = k + a
      BY <1>9, <2>3
    <3>2. PICK b \in 1 .. m : j = k + b
      BY <1>1, <1>4, <1>9, <3>1
    <3>3. a < b /\ a \in 1 .. Len(older) /\ b \in 1 .. Len(older)
      BY <1>1, <1>4, <3>1, <3>2
    <3>4. older[b].seq < older[a].seq
      BY <1>3, <3>3 DEF Descending
    <3>. QED
      BY <1>5, <1>8, <3>1, <3>2, <3>4
  <2>. QED
    BY <2>1, <2>2, <2>3
<1>11. \A i \in 1 .. k + m : all[i].event \in Scope
  <2>. SUFFICES ASSUME NEW i \in 1 .. k + m PROVE all[i].event \in Scope
    OBVIOUS
  <2>1. CASE i \in 1 .. k
    BY <1>8, <2>1 DEF Window, k
  <2>2. CASE i \notin 1 .. k
    BY <1>6, <1>8, <1>9, <2>2
  <2>. QED
    BY <2>1, <2>2
<1>12. ASSUME NEW row \in rows, all # <<>>, row.event \in Scope,
              all[Len(all)].seq <= row.seq, row.seq <= all[1].seq
       PROVE  \E i \in 1 .. k + m : all[i] = row
  <2>0. row.seq \in Nat
    BY DEF Distinct
  <2>1. CASE row \in cand
    <3>1. PICK i \in 1 .. Len(older) : older[i] = row
      BY <1>3, <2>1
    <3>2. m # 0
      <4>. SUFFICES ASSUME m = 0 PROVE FALSE
        OBVIOUS
      <4>1. k \in 1 .. k /\ Len(all) = k
        BY <1>1, <1>8, <1>12
      <4>2. shown # <<>> /\ all[Len(all)] = shown[k]
        BY <1>1, <1>8, <4>1
      <4>3. row.seq < shown[k].seq
        BY <2>1, <4>2 DEF cand, Candidates, k
      <4>. QED
        BY <1>1, <1>12, <2>0, <4>1, <4>2, <4>3
    <3>3. all[Len(all)] = older[m] /\ m \in 1 .. m
      BY <1>4, <1>5, <1>8, <3>2
    <3>4. ~(m < i)
      <4>1. older[m].seq \in Nat
        BY <1>5, <1>6, <3>3
      <4>2. m < i => older[i].seq < older[m].seq
        BY <1>3, <1>4, <3>3 DEF Descending
      <4>. QED
        BY <1>12, <2>0, <3>1, <3>3, <4>1, <4>2
    <3>5. i \in 1 .. m /\ k + i \in 1 .. k + m
      BY <1>1, <1>4, <3>4
    <3>. QED
      BY <1>5, <1>8, <3>1, <3>5
  <2>2. CASE row \notin cand
    <3>1. shown # <<>> /\ ~(row.seq < shown[Len(shown)].seq)
      BY <1>12, <2>2 DEF cand, Candidates
    <3>2. k \in 1 .. k /\ 1 \in 1 .. k
      BY <1>1, <3>1 DEF k
    <3>3. shown[Len(shown)].seq <= row.seq /\ row.seq <= shown[1].seq
      BY <1>1, <1>8, <1>12, <2>0, <3>1, <3>2 DEF k
    <3>4. PICK i \in 1 .. k : shown[i] = row
      BY <1>12, <3>1, <3>3 DEF Window, k
    <3>. QED
      BY <1>1, <1>4, <1>8, <3>4
  <2>. QED
    BY <2>1, <2>2
<1>. QED
  BY <1>8, <1>10, <1>11, <1>12 DEF Window, all, page

\* New rows do not come into a window.
LEMMA WindowStays ==
  ASSUME NEW rows, Numbered(rows), NEW more, Numbered(more), rows \subseteq more,
         NEW shown, Window(shown, rows)
  PROVE  Window(shown, more)
<1>1. /\ shown \in Seq(rows) /\ Len(shown) \in Nat
      /\ \A i \in 1 .. Len(shown) : shown[i] \in rows
  <2>1. shown \in Seq(rows)
    BY DEF Window
  <2>. QED
    BY <2>1, LenProperties
<1>2. shown \in Seq(more)
  BY <1>1
<1>3. ASSUME NEW row \in more, shown # <<>>, row.seq <= shown[1].seq
      PROVE  row \in rows
  <2>1. shown[1] \in rows
    BY <1>1, <1>3
  <2>2. Cardinality(rows) \in Nat /\ Cardinality(more) \in Nat
    BY FS_CardinalityType DEF Numbered
  <2>3. shown[1].seq \in 1 .. Cardinality(rows) /\ row.seq \in 1 .. Cardinality(more)
    BY <2>1 DEF Numbered
  <2>4. ~(Cardinality(rows) < row.seq)
    BY <1>3, <2>2, <2>3
  <2>. QED
    BY <2>4, GrowsBehind
<1>. QED
  BY <1>2, <1>3 DEF Window

Reading ==
  [kind : {"verify", "export", "list"}, parts : Seq({"entries", "operations", "page"}), from : Nat,
   entries : SUBSET Rows, operations : SUBSET Events, shown : Seq(Rows)]

\* The entries are those before the next page.  An export that is done has read the
\* operations after all of them.
FrontIsRead(x) ==
  /\ x.from \in 1 .. Cardinality(log) + 1
  /\ x.entries = Before(log, x.from)
  /\ x.kind = "export" =>
       /\ x.parts \in {<<"entries", "operations">>, <<"operations">>, <<>>}
       /\ x.parts = <<>> => {row.event : row \in x.entries} \subseteq x.operations

ReadsInv ==
  /\ reading \in [Readers -> {NotReading} \union Reading]
  /\ \A r \in Readers : reading[r] # NotReading =>
       FrontIsRead(reading[r]) /\ Window(reading[r].shown, log)

\* What a reader does leaves the others alone.
LEMMA ReaderStep ==
  ASSUME ReadsInv, UNCHANGED vars, NEW r \in Readers, NEW x \in Reading,
         reading' = [reading EXCEPT ![r] = x], FrontIsRead(x), Window(x.shown, log)
  PROVE  ReadsInv'
<1>1. /\ reading' \in [Readers -> {NotReading} \union Reading] /\ log' = log
      /\ reading'[r] = x /\ \A s \in Readers \ {r} : reading'[s] = reading[s]
  BY DEF ReadsInv, vars
<1>2. ASSUME NEW s \in Readers, reading'[s] # NotReading
      PROVE  FrontIsRead(reading[s])' /\ Window(reading[s].shown, log)'
  <2>1. CASE s = r
    BY <1>1, <2>1 DEF FrontIsRead, Window
  <2>2. CASE s # r
    <3>1. reading'[s] = reading[s] /\ FrontIsRead(reading[s]) /\ Window(reading[s].shown, log)
      BY <1>1, <1>2, <2>2 DEF ReadsInv
    <3>. QED
      BY <1>1, <3>1 DEF FrontIsRead, Window
  <2>. QED
    BY <2>1, <2>2
<1>. QED
  BY <1>1, <1>2 DEF ReadsInv

LEMMA BeginReads ==
  ASSUME NumberInv, ReadsInv, UNCHANGED vars,
         NEW r \in Readers, NEW kind \in {"verify", "export", "list"}, BeginReading(r, kind)
  PROVE  ReadsInv'
<1>. DEFINE x == [kind |-> kind, parts |-> Parts(kind), from |-> 1,
                  entries |-> {}, operations |-> {}, shown |-> <<>>]
<1>1. reading' = [reading EXCEPT ![r] = x]
  BY DEF BeginReading
<1>2. Parts(kind) \in Seq({"entries", "operations", "page"})
  <2>1. /\ <<"entries">> \in Seq({"entries", "operations", "page"})
        /\ <<"entries", "operations">> \in Seq({"entries", "operations", "page"})
        /\ <<"page">> \in Seq({"entries", "operations", "page"})
    OBVIOUS
  <2>. QED
    BY <2>1 DEF Parts, ExportParts
<1>3. x \in Reading
  BY <1>1, <1>2, EmptySeq DEF Reading
<1>4. Cardinality(log) \in Nat /\ \A row \in log : row.seq \in 1 .. Cardinality(log)
  BY FS_CardinalityType DEF NumberInv, Numbered
<1>5. FrontIsRead(x)
  <2>1. Before(log, 1) = {}
    BY <1>4 DEF Before
  <2>. QED
    BY <1>1, <1>4, <2>1 DEF FrontIsRead, Parts, ExportParts
<1>6. Window(x.shown, log)
  BY <1>1, EmptySeq DEF Window, Descending
<1>. HIDE DEF x
<1>. QED
  BY <1>1, <1>3, <1>5, <1>6, ReaderStep

LEMMA EntriesRead ==
  ASSUME NumberInv, ReadsInv, UNCHANGED vars, NEW r \in Readers, ReadEntries(r)
  PROVE  ReadsInv'
<1>. DEFINE x == reading[r]
            page == ListRange(x.from)
            next == IF page = {} THEN x.from ELSE LastOf(page).seq + 1
            left == IF Cardinality(page) < PageSize THEN Tail(x.parts) ELSE x.parts
            y == [x EXCEPT !.entries = x.entries \union page, !.from = next, !.parts = left]
<1>1. x \in Reading /\ FrontIsRead(x) /\ Window(x.shown, log)
  BY DEF ReadsInv, ReadEntries, Reads
<1>2. x.parts # <<>> /\ Head(x.parts) = "entries"
  BY DEF ReadEntries, Reads
<1>3. /\ next \in 1 .. Cardinality(log) + 1
      /\ x.entries \union page = Before(log, next)
  BY <1>1, PageFromFront DEF FrontIsRead
<1>4. reading' = [reading EXCEPT ![r] = y]
  BY DEF ReadEntries
<1>5. Cardinality(log) \in Nat /\ next \in Nat
  BY <1>3, FS_CardinalityType DEF NumberInv, Numbered
<1>6. x.parts \in Seq({"entries", "operations", "page"})
  BY <1>1 DEF Reading
<1>7. left \in Seq({"entries", "operations", "page"})
  BY <1>2, <1>6, HeadTailProperties
<1>8. x.kind = "export" => left \in {<<"entries", "operations">>, <<"operations">>}
  <2>. SUFFICES ASSUME x.kind = "export"
                PROVE  left \in {<<"entries", "operations">>, <<"operations">>}
    OBVIOUS
  <2>1. x.parts = <<"entries", "operations">>
    BY <1>1, <1>2 DEF FrontIsRead
  <2>2. Tail(<<"entries", "operations">>) = <<"operations">>
    OBVIOUS
  <2>. QED
    BY <2>1, <2>2
<1>9. Before(log, next) \subseteq Rows
  BY DEF Before, NumberInv, TypeOK
<1>. HIDE DEF page, next, left
<1>10. /\ y.kind = x.kind /\ y.parts = left /\ y.from = next /\ y.operations = x.operations
       /\ y.entries = Before(log, next) /\ y.shown = x.shown
  BY <1>1, <1>3 DEF Reading
<1>11. y \in Reading
  BY <1>1, <1>3, <1>5, <1>7, <1>9 DEF Reading
<1>12. FrontIsRead(y)
  BY <1>3, <1>8, <1>10 DEF FrontIsRead
<1>. HIDE DEF y
<1>. QED
  BY <1>1, <1>4, <1>10, <1>11, <1>12, ReaderStep

LEMMA OperationsRead ==
  ASSUME NumberInv, ReadsInv, UNCHANGED vars, NEW r \in Readers, ReadOperations(r)
  PROVE  ReadsInv'
<1>. DEFINE x == reading[r]
            all == {row.event : row \in log}
            left == Tail(x.parts)
            y == [x EXCEPT !.operations = all, !.parts = left]
<1>1. x \in Reading /\ FrontIsRead(x) /\ Window(x.shown, log)
  BY DEF ReadsInv, ReadOperations, Reads
<1>2. x.parts # <<>> /\ Head(x.parts) = "operations"
  BY DEF ReadOperations, Reads
<1>3. reading' = [reading EXCEPT ![r] = y]
  BY DEF ReadOperations
<1>4. x.parts \in Seq({"entries", "operations", "page"})
  BY <1>1 DEF Reading
<1>5. left \in Seq({"entries", "operations", "page"})
  BY <1>2, <1>4, HeadTailProperties
<1>6. x.kind = "export" => left = <<>>
  <2>. SUFFICES ASSUME x.kind = "export" PROVE left = <<>>
    OBVIOUS
  <2>1. Head(<<"entries", "operations">>) = "entries" /\ Tail(<<"operations">>) = <<>>
    OBVIOUS
  <2>2. x.parts = <<"operations">>
    BY <1>1, <1>2, <2>1 DEF FrontIsRead
  <2>. QED
    BY <2>1, <2>2
<1>7. all \in SUBSET Events /\ {row.event : row \in x.entries} \subseteq all
  BY <1>1 DEF NumberInv, TypeOK, Rows, FrontIsRead, Before
<1>. HIDE DEF all, left
<1>8. /\ y.kind = x.kind /\ y.parts = left /\ y.from = x.from /\ y.operations = all
      /\ y.entries = x.entries /\ y.shown = x.shown
  BY <1>1 DEF Reading
<1>9. y \in Reading
  BY <1>1, <1>5, <1>7 DEF Reading
<1>10. FrontIsRead(y)
  BY <1>1, <1>6, <1>7, <1>8 DEF FrontIsRead
<1>. HIDE DEF y
<1>. QED
  BY <1>1, <1>3, <1>8, <1>9, <1>10, ReaderStep

LEMMA PageRead ==
  ASSUME NumberInv, ReadsInv, UNCHANGED vars, NEW r \in Readers, ReadPage(r)
  PROVE  ReadsInv'
<1>. DEFINE x == reading[r]
            older == Older(r)
            m == IF Len(older) < PageSize THEN Len(older) ELSE PageSize
            page == SubSeq(older, 1, m)
            left == IF Len(page) < PageSize THEN Tail(x.parts) ELSE x.parts
            longer == x.shown \o page
            y == [x EXCEPT !.shown = longer, !.parts = left]
<1>1. x \in Reading /\ FrontIsRead(x) /\ Window(x.shown, log)
  BY DEF ReadsInv, ReadPage, Reads
<1>2. x.parts # <<>> /\ Head(x.parts) = "page"
  BY DEF ReadPage, Reads
<1>3. reading' = [reading EXCEPT ![r] = y]
  BY DEF ReadPage
<1>4. x.parts \in Seq({"entries", "operations", "page"})
  BY <1>1 DEF Reading
<1>5. left \in Seq({"entries", "operations", "page"})
  BY <1>2, <1>4, HeadTailProperties
<1>6. x.kind # "export"
  BY <1>1, <1>2 DEF FrontIsRead
<1>7. Distinct(log)
  BY NumberedIsDistinct DEF NumberInv
<1>8. older = Reverse(InSeqOrder(Candidates(x.shown, log)))
  BY DEF Older, Candidates
<1>9. m \in 0 .. Len(older)
  <2>1. Candidates(x.shown, log) \in SUBSET log
    BY DEF Candidates
  <2>2. Distinct(Candidates(x.shown, log))
    BY <2>1, NumberedIsDistinct DEF NumberInv
  <2>3. older \in Seq(Candidates(x.shown, log))
    BY <1>8, <2>2, ReverseDescends
  <2>4. Len(older) \in Nat
    BY <2>3, LenProperties
  <2>. QED
    BY <2>4, AuditReadsAssumption
<1>. HIDE DEF older, m
<1>10. Window(longer, log)
  BY <1>1, <1>7, <1>8, <1>9, PageExtends
<1>11. longer \in Seq(Rows)
  BY <1>10 DEF Window, NumberInv, TypeOK
<1>. HIDE DEF longer, left
<1>12. /\ y.kind = x.kind /\ y.parts = left /\ y.from = x.from /\ y.operations = x.operations
       /\ y.entries = x.entries /\ y.shown = longer
  BY <1>1 DEF Reading
<1>13. y \in Reading
  BY <1>1, <1>5, <1>11 DEF Reading
<1>14. FrontIsRead(y)
  BY <1>1, <1>6, <1>12 DEF FrontIsRead
<1>. HIDE DEF y
<1>. QED
  BY <1>3, <1>10, <1>12, <1>13, <1>14, ReaderStep

\* A transaction disturbs no reader.
LEMMA WritersAddBehind ==
  ASSUME NumberInv, NumberInv', ReadsInv, [Next]_vars, UNCHANGED reading
  PROVE  ReadsInv'
<1>1. log \subseteq log'
  BY DEF Next, vars, Begin, ReadTip, Insert, Commit, Rollback
<1>2. Numbered(log) /\ Numbered(log')
  BY DEF NumberInv, Numbered
<1>3. Cardinality(log) \in Nat /\ Cardinality(log') \in Nat /\ Cardinality(log) <= Cardinality(log')
  BY <1>1, <1>2, GrowsBehind, FS_CardinalityType DEF Numbered
<1>4. ASSUME NEW r \in Readers, reading[r] # NotReading
      PROVE  FrontIsRead(reading[r])' /\ Window(reading[r].shown, log)'
  <2>1. FrontIsRead(reading[r]) /\ Window(reading[r].shown, log)
    BY <1>4 DEF ReadsInv
  <2>2. reading[r].from \in 1 .. Cardinality(log') + 1
    BY <1>3, <2>1 DEF FrontIsRead
  <2>3. Before(log', reading[r].from) = Before(log, reading[r].from)
    BY <1>1, <1>2, <2>1, GrowsBehind DEF FrontIsRead
  <2>4. FrontIsRead(reading[r])'
    BY <2>1, <2>2, <2>3 DEF FrontIsRead
  <2>5. Window(reading[r].shown, log')
    BY <1>1, <1>2, <2>1, WindowStays
  <2>. QED
    BY <2>4, <2>5 DEF Window
<1>. QED
  BY <1>4 DEF ReadsInv

LEMMA ReadsNextInvariant ==
  ASSUME NumberInv, NumberInv', ReadsInv, [ReadsNext]_readVars
  PROVE  ReadsInv'
<1>1. CASE [Next]_vars /\ UNCHANGED reading
  BY <1>1, WritersAddBehind
<1>2. ASSUME UNCHANGED vars, NEW r \in Readers, NEW kind \in {"verify", "export", "list"},
             BeginReading(r, kind)
      PROVE  ReadsInv'
  BY <1>2, BeginReads
<1>3. ASSUME UNCHANGED vars, NEW r \in Readers,
             ReadEntries(r) \/ ReadOperations(r) \/ ReadPage(r)
      PROVE  ReadsInv'
  BY <1>3, EntriesRead, OperationsRead, PageRead
<1>4. ASSUME UNCHANGED vars, NEW r \in Readers, EndReading(r)
      PROVE  ReadsInv'
  BY <1>4 DEF EndReading, ReadsInv, FrontIsRead, Window, vars
<1>. QED
  BY <1>1, <1>2, <1>3, <1>4 DEF ReadsNext, readVars

LEMMA ReadsInitInvariant == ReadsInit => ReadsInv
  BY DEF ReadsInit, ReadsInv

\* The readers change nothing of what the transactions work on.
THEOREM ReadsInvariance == ASSUME SingleWriter PROVE ReadsSpec => []NumberInv /\ []ReadsInv
<1>1. [ReadsNext]_readVars => [Next]_vars
  BY DEF ReadsNext, readVars
<1>2. ReadsInit => Init
  BY DEF ReadsInit
<1>3. NumberInv /\ [ReadsNext]_readVars => NumberInv'
  BY <1>1, NextNumbers
<1>4. NumberInv /\ NumberInv' /\ ReadsInv /\ [ReadsNext]_readVars => ReadsInv'
  BY ReadsNextInvariant
<1>. QED
  BY <1>2, <1>3, <1>4, InitNumbers, ReadsInitInvariant, PTL DEF ReadsSpec

\* A walk over the log page by page, while transactions append to it, finds no break in
\* it, and an export has the operations of all its entries.
THEOREM PagesShowNoBreak == ASSUME Serialized PROVE ReadsSpec => []NoBreakAcrossPages
<1>1. ReadsSpec => Spec
  <2>1. ReadsInit => Init
    BY DEF ReadsInit
  <2>2. [ReadsNext]_readVars => [Next]_vars
    BY DEF ReadsNext, readVars
  <2>. QED
    BY <2>1, <2>2, PTL DEF ReadsSpec, Spec
<1>2. NumberInv /\ ReadsInv /\ ChainVerifies => NoBreakAcrossPages
  <2>. SUFFICES ASSUME NumberInv, ReadsInv, ChainVerifies,
                       NEW r \in Readers, reading[r] # NotReading
                PROVE  /\ Verifies(reading[r].entries)
                       /\ reading[r].kind = "export" /\ reading[r].parts = <<>> =>
                            {row.event : row \in reading[r].entries} \subseteq reading[r].operations
    BY DEF NoBreakAcrossPages
  <2>1. FrontIsRead(reading[r])
    BY DEF ReadsInv
  <2>2. reading[r].from \in Nat
    BY <2>1, FS_CardinalityType DEF FrontIsRead, NumberInv, Numbered
  <2>3. Verifies(Before(log, reading[r].from))
    BY <2>2, PrefixVerifies DEF NumberInv, ChainVerifies
  <2>. QED
    BY <2>1, <2>3 DEF FrontIsRead
<1>. QED
  BY <1>1, <1>2, ChainIsIntact, ReadsInvariance, PTL DEF Serialized

\* What list_audit_events has shown has every entry its caller may see between the first
\* and the last of them, once and newest first, whatever is appended meanwhile.
THEOREM PagesAreContiguous == ASSUME SingleWriter PROVE ReadsSpec => []NothingSkippedOrRepeated
<1>1. NumberInv /\ ReadsInv => NothingSkippedOrRepeated
  <2>. SUFFICES ASSUME NumberInv, ReadsInv,
                       NEW r \in Readers, reading[r] # NotReading, reading[r].shown # <<>>
                PROVE  LET shown == reading[r].shown IN
                       shown = Reverse(InSeqOrder({row \in log :
                                                     /\ row.event \in Scope
                                                     /\ row.seq <= shown[1].seq
                                                     /\ row.seq >= shown[Len(shown)].seq}))
    BY DEF NothingSkippedOrRepeated
  <2>. DEFINE shown == reading[r].shown
              n == Len(shown)
              part == {row \in log : /\ row.event \in Scope
                                     /\ row.seq <= shown[1].seq /\ row.seq >= shown[n].seq}
  <2>1. Window(shown, log) /\ shown # <<>>
    BY DEF ReadsInv
  <2>2. Distinct(log) /\ Distinct(part) /\ part \in SUBSET log
    BY NumberedIsDistinct DEF NumberInv
  <2>3. /\ shown \in Seq(log) /\ n \in Nat /\ n # 0 /\ shown \in [1 .. n -> log]
        /\ \A i \in 1 .. n : shown[i] \in log /\ shown[i].seq \in Nat
    <3>1. shown \in Seq(log)
      BY <2>1 DEF Window
    <3>. QED
      BY <2>1, <2>2, <3>1, LenProperties, EmptySeq DEF Distinct
  <2>. HIDE DEF shown, n
  <2>4. ASSUME NEW i \in 1 .. n
        PROVE  shown[i] \in part
    <3>1. 1 \in 1 .. n /\ n \in 1 .. n
      BY <2>3
    <3>2. shown[i].seq <= shown[1].seq /\ shown[n].seq <= shown[i].seq
      BY <2>1, <2>3, <3>1 DEF Window, Descending, n
    <3>3. shown[i].event \in Scope
      BY <2>1 DEF Window, n
    <3>. QED
      BY <2>3, <3>1, <3>2, <3>3
  <2>5. shown \in Seq(part)
    <3>1. shown \in [1 .. n -> part]
      BY <2>3, <2>4
    <3>. QED
      BY <2>3, <3>1
  <2>6. ASSUME NEW row \in part
        PROVE  \E i \in 1 .. n : shown[i] = row
    <3>1. row \in log /\ row.seq \in Nat /\ 1 \in 1 .. n /\ n \in 1 .. n
      BY <2>2, <2>3 DEF Distinct
    <3>. QED
      BY <2>1, <2>3, <3>1 DEF Window, n
  <2>7. Descending(shown)
    BY <2>1 DEF Window
  <2>. HIDE DEF part
  <2>8. shown = Reverse(InSeqOrder(part))
    BY <2>2, <2>5, <2>6, <2>7, DescendingIsReverse DEF n
  <2>. QED
    BY <2>8 DEF shown, n, part
<1>. QED
  BY <1>1, ReadsInvariance, PTL

-----------------------------------------------------------------------------
(* Rows in key order.                                                      *)

Row == [key : Nat, of : Nat]

\* Rows that have a key each.
Keyed(rows) ==
  /\ IsFiniteSet(rows) /\ rows \subseteq Row
  /\ \A row, other \in rows : row.key = other.key => row = other

\* A row has a place of its own, further back the greater its key.
LEMMA KeyPlacesDiffer ==
  ASSUME NEW rows, Keyed(rows)
  PROVE  /\ \A row \in rows : KeyPlace(rows, row) \in 1 .. Cardinality(rows)
         /\ \A row, other \in rows : row.key < other.key => KeyPlace(rows, row) < KeyPlace(rows, other)
<1>. DEFINE UpTo(row) == {other \in rows : other.key <= row.key}
<1>1. IsFiniteSet(rows) /\ Cardinality(rows) \in Nat /\ \A row \in rows : row.key \in Nat
  BY FS_CardinalityType DEF Keyed, Row
<1>2. \A row \in rows : UpTo(row) \in SUBSET rows /\ row \in UpTo(row)
  BY <1>1
<1>3. ASSUME NEW row \in rows
      PROVE  /\ IsFiniteSet(UpTo(row)) /\ Cardinality(UpTo(row)) \in Nat
             /\ Cardinality(UpTo(row)) <= Cardinality(rows) /\ Cardinality(UpTo(row)) # 0
  BY <1>1, <1>2, FS_Subset, FS_CardinalityType, FS_EmptySet
<1>4. ASSUME NEW row \in rows, NEW other \in rows, row.key < other.key
      PROVE  Cardinality(UpTo(row)) < Cardinality(UpTo(other))
  <2>1. UpTo(row) \in SUBSET UpTo(other)
    BY <1>1, <1>4
  <2>2. other \in UpTo(other) /\ other \notin UpTo(row)
    BY <1>1, <1>4
  <2>. QED
    BY <1>3, <2>1, <2>2, FS_Subset
<1>5. \A row \in rows : KeyPlace(rows, row) = Cardinality(UpTo(row))
  BY DEF KeyPlace
<1>. HIDE DEF UpTo
<1>6. \A row \in rows : KeyPlace(rows, row) \in 1 .. Cardinality(rows)
  BY <1>1, <1>3, <1>5
<1>. QED
  BY <1>4, <1>5, <1>6

\* Every place is taken.
LEMMA KeyPlacesAreTaken ==
  ASSUME NEW rows, Keyed(rows), NEW i \in 1 .. Cardinality(rows)
  PROVE  \E row \in rows : KeyPlace(rows, row) = i
<1>. DEFINE n == Cardinality(rows)
            f == [row \in rows |-> KeyPlace(rows, row)]
<1>1. IsFiniteSet(rows) /\ n \in Nat /\ \A row \in rows : row.key \in Nat
  BY FS_CardinalityType DEF Keyed, Row
<1>2. ASSUME NEW row \in rows, NEW other \in rows, row # other
      PROVE  KeyPlace(rows, row) # KeyPlace(rows, other)
  <2>1. row.key < other.key \/ other.key < row.key
    BY <1>1, <1>2 DEF Keyed
  <2>2. KeyPlace(rows, row) \in Nat /\ KeyPlace(rows, other) \in Nat
    BY <1>1, KeyPlacesDiffer
  <2>. QED
    BY <2>1, <2>2, KeyPlacesDiffer
<1>3. f \in Injection(rows, 1 .. n)
  BY <1>2, KeyPlacesDiffer DEF Injection, IsInjective
<1>4. IsFiniteSet(1 .. n) /\ Cardinality(1 .. n) = n
  BY <1>1, FS_Interval
<1>. HIDE DEF f
<1>5. f \in Surjection(rows, 1 .. n)
  BY <1>3, <1>4, FS_Injection
<1>6. \E row \in rows : f[row] = i
  BY <1>5 DEF Surjection
<1>. QED
  BY <1>6 DEF f

\* The first rows of all are those whose place is not beyond their number.
LEMMA BeginningHasFirstPlaces ==
  ASSUME NEW all, Keyed(all), NEW some, IsBeginning(some, all)
  PROVE  /\ IsFiniteSet(some) /\ Cardinality(some) \in Nat /\ Cardinality(some) <= Cardinality(all)
         /\ \A row \in all : row \in some <=> KeyPlace(all, row) <= Cardinality(some)
<1>. DEFINE UpTo(row) == {other \in all : other.key <= row.key}
<1>1. /\ IsFiniteSet(all) /\ Cardinality(all) \in Nat /\ \A row \in all : row.key \in Nat
      /\ some \in SUBSET all
  BY FS_CardinalityType DEF Keyed, Row, IsBeginning
<1>2. IsFiniteSet(some) /\ Cardinality(some) \in Nat /\ Cardinality(some) <= Cardinality(all)
  BY <1>1, FS_Subset, FS_CardinalityType
<1>3. ASSUME NEW row \in all
      PROVE  IsFiniteSet(UpTo(row)) /\ Cardinality(UpTo(row)) \in Nat
  BY <1>1, FS_Subset, FS_CardinalityType
<1>4. ASSUME NEW row \in some PROVE Cardinality(UpTo(row)) <= Cardinality(some)
  <2>1. UpTo(row) \in SUBSET some
    BY <1>1, <1>4 DEF IsBeginning, Keyed
  <2>. QED
    BY <1>2, <2>1, FS_Subset
<1>5. ASSUME NEW row \in all, row \notin some
      PROVE  Cardinality(some) < Cardinality(UpTo(row))
  <2>1. some \in SUBSET UpTo(row)
    <3>. SUFFICES ASSUME NEW x \in some, ~(x.key <= row.key) PROVE FALSE
      BY <1>1
    <3>1. row.key < x.key
      BY <1>1
    <3>. QED
      BY <1>5, <3>1 DEF IsBeginning
  <2>2. row \in UpTo(row)
    BY <1>1
  <2>. QED
    BY <1>2, <1>3, <1>5, <2>1, <2>2, FS_Subset
<1>6. \A row \in all : KeyPlace(all, row) = Cardinality(UpTo(row))
  BY DEF KeyPlace
<1>. HIDE DEF UpTo
<1>7. ASSUME NEW row \in all PROVE row \in some <=> KeyPlace(all, row) <= Cardinality(some)
  BY <1>2, <1>3, <1>4, <1>5, <1>6
<1>. QED
  BY <1>2, <1>7

\* Where a slice finds nothing there are no rows any more.
LEMMA EmptySliceIsEnd ==
  ASSUME NEW all, Keyed(all), NEW offset \in Nat, Slice(all, offset) = {}
  PROVE  Cardinality(all) <= offset
<1>. SUFFICES ASSUME offset < Cardinality(all) PROVE FALSE
  BY FS_CardinalityType DEF Keyed
<1>1. Cardinality(all) \in Nat
  BY FS_CardinalityType DEF Keyed
<1>2. PICK row \in all : KeyPlace(all, row) = offset + 1
  BY <1>1, KeyPlacesAreTaken
<1>3. row \in Slice(all, offset)
  BY <1>2, CopyAssumption DEF Slice
<1>. QED
  BY <1>3

\* A beginning with as many rows as there are is all of them.
LEMMA WholeBeginning ==
  ASSUME NEW all, Keyed(all), NEW some, IsBeginning(some, all), Cardinality(all) <= Cardinality(some)
  PROVE  some = all
<1>1. IsFiniteSet(all) /\ Cardinality(all) \in Nat /\ some \in SUBSET all
  BY FS_CardinalityType DEF Keyed, IsBeginning
<1>2. Cardinality(some) \in Nat /\ Cardinality(some) <= Cardinality(all)
  BY BeginningHasFirstPlaces
<1>. QED
  BY <1>1, <1>2, FS_Subset

\* A slice that has none of the rows that are there follows them at once.
LEMMA SliceExtends ==
  ASSUME NEW all, Keyed(all), NEW some, IsBeginning(some, all),
         NEW offset \in Nat, offset <= Cardinality(some),
         Slice(all, offset) # {}, Slice(all, offset) \intersect some = {}
  PROVE  IsBeginning(some \union Slice(all, offset), all)
<1>. DEFINE n == Cardinality(some)
            chunk == Slice(all, offset)
<1>1. /\ n \in Nat /\ Cardinality(all) \in Nat /\ n <= Cardinality(all)
      /\ \A row \in all : row \in some <=> KeyPlace(all, row) <= n
  BY BeginningHasFirstPlaces, FS_CardinalityType DEF Keyed
<1>2. \A row \in all : KeyPlace(all, row) \in 1 .. Cardinality(all)
  BY KeyPlacesDiffer
<1>3. offset = n
  <2>. SUFFICES ASSUME offset < n PROVE FALSE
    BY <1>1
  <2>1. PICK row \in all : KeyPlace(all, row) = offset + 1
    BY <1>1, KeyPlacesAreTaken
  <2>2. row \in chunk
    BY <2>1, CopyAssumption DEF Slice
  <2>3. row \in some
    BY <1>1, <2>1
  <2>. QED
    BY <2>2, <2>3
<1>4. ASSUME NEW row \in some \union chunk, NEW earlier \in all, earlier.key < row.key
      PROVE  earlier \in some \union chunk
  <2>1. row \in all
    BY DEF Slice, IsBeginning
  <2>2. KeyPlace(all, earlier) < KeyPlace(all, row)
    BY <1>4, <2>1, KeyPlacesDiffer
  <2>3. CASE row \in some
    BY <1>4, <2>3 DEF IsBeginning
  <2>4. CASE row \in chunk /\ KeyPlace(all, earlier) <= n
    BY <1>1, <2>4
  <2>5. CASE row \in chunk /\ ~(KeyPlace(all, earlier) <= n)
    BY <1>1, <1>2, <1>3, <2>1, <2>2, <2>5, CopyAssumption DEF Slice
  <2>. QED
    BY <2>3, <2>4, <2>5
<1>5. some \union chunk \subseteq all
  BY DEF Slice, IsBeginning
<1>. HIDE DEF chunk
<1>6. IsBeginning(some \union chunk, all)
  BY <1>4, <1>5 DEF IsBeginning
<1>. QED
  BY <1>6 DEF chunk

-----------------------------------------------------------------------------
(* A table of the source.                                                  *)

\* A table has finitely many rows, with a key each, and as many events as there are.
LEMMA TableIsKeyed ==
  ASSUME NEW source \in Seq(Operations), NEW t \in TableNames
  PROVE  /\ Keyed(TableRows(source, t))
         /\ Cardinality(TableRows(source, t)) \in Nat
         /\ Cardinality(TableRows(source, "operation_events")) = Len(source)
<1>. DEFINE n == Len(source)
            Change(i) == [key |-> source[i], of |-> EventsOf(source, source[i])]
            Event(i) == [key |-> i, of |-> source[i]]
<1>1. /\ n \in Nat /\ DOMAIN source = 1 .. n
      /\ \A i \in 1 .. n : source[i] \in Nat /\ i \in Nat
  <2>1. n \in Nat /\ DOMAIN source = 1 .. n /\ \A i \in 1 .. n : source[i] \in Operations
    OBVIOUS
  <2>2. Operations \subseteq Nat /\ 1 .. n \subseteq Nat
    BY <2>1, CopyAssumption
  <2>. HIDE DEF n
  <2>. QED
    BY <2>1, <2>2
<1>2. IsFiniteSet(1 .. n) /\ Cardinality(1 .. n) = n
  BY <1>1, FS_Interval
<1>3. \A i \in 1 .. n : EventsOf(source, source[i]) \in Nat
  <2>. TAKE i \in 1 .. n
  <2>. DEFINE same == {j \in DOMAIN source : source[j] = source[i]}
  <2>1. IsFiniteSet(same)
    BY <1>1, <1>2, FS_Subset
  <2>. QED
    BY <2>1, FS_CardinalityType DEF EventsOf
<1>4. /\ TableRows(source, "operations") = {Change(i) : i \in 1 .. n}
      /\ TableRows(source, "operation_events") = {Event(i) : i \in 1 .. n}
  BY <1>1 DEF TableRows
<1>5. IsFiniteSet({Change(i) : i \in 1 .. n})
  <2>. DEFINE f == [i \in 1 .. n |-> Change(i)]
              T == {Change(i) : i \in 1 .. n}
  <2>. HIDE DEF Change
  <2>1. f \in Surjection(1 .. n, T)
    BY DEF Surjection
  <2>. HIDE DEF f, T
  <2>2. IsFiniteSet(T)
    BY <1>2, <2>1, FS_Surjection
  <2>. QED
    BY <2>2 DEF T
<1>6. /\ IsFiniteSet({Event(i) : i \in 1 .. n})
      /\ Cardinality({Event(i) : i \in 1 .. n}) = n
  <2>. DEFINE f == [i \in 1 .. n |-> Event(i)]
              T == {Event(i) : i \in 1 .. n}
  <2>1. \A i, j \in 1 .. n : Event(i) = Event(j) => i = j
    OBVIOUS
  <2>2. f \in Surjection(1 .. n, T) /\ f \in Injection(1 .. n, T)
    <3>. HIDE DEF Event
    <3>. QED
      BY <2>1 DEF Surjection, Injection, IsInjective
  <2>. HIDE DEF f, T
  <2>3. IsFiniteSet(T) /\ Cardinality(T) = Cardinality(1 .. n)
    BY <1>2, <2>2, FS_Surjection
  <2>. QED
    BY <1>2, <2>3 DEF T
<1>7. Keyed(TableRows(source, "operations"))
  <2>1. \A i \in 1 .. n : Change(i) \in Row
    BY <1>1, <1>3 DEF Row
  <2>2. \A i, j \in 1 .. n : Change(i).key = Change(j).key => Change(i) = Change(j)
    OBVIOUS
  <2>. HIDE DEF Change
  <2>. QED
    BY <1>4, <1>5, <2>1, <2>2 DEF Keyed
<1>8. Keyed(TableRows(source, "operation_events"))
  <2>1. \A i \in 1 .. n : Event(i) \in Row
    BY <1>1 DEF Row
  <2>2. \A i, j \in 1 .. n : Event(i).key = Event(j).key => Event(i) = Event(j)
    OBVIOUS
  <2>. HIDE DEF Event
  <2>. QED
    BY <1>4, <1>6, <2>1, <2>2 DEF Keyed
<1>9. t = "operations" \/ t = "operation_events"
  BY DEF TableNames
<1>. QED
  BY <1>4, <1>6, <1>7, <1>8, <1>9, FS_CardinalityType DEF Keyed

\* What was there before an event is the same after it.
LEMMA PrefixStays ==
  ASSUME NEW source \in Seq(Operations), NEW o \in Operations, NEW n \in Nat, n <= Len(source)
  PROVE  /\ Append(source, o) \in Seq(Operations) /\ Len(Append(source, o)) = Len(source) + 1
         /\ SubSeq(Append(source, o), 1, n) = SubSeq(source, 1, n)
<1>1. Append(source, o) \in Seq(Operations) /\ Len(Append(source, o)) = Len(source) + 1
      /\ \A i \in 1 .. Len(source) : Append(source, o)[i] = source[i]
  OBVIOUS
<1>2. SubSeq(Append(source, o), 1, n) = [i \in 1 .. n |-> Append(source, o)[i]]
      /\ SubSeq(source, 1, n) = [i \in 1 .. n |-> source[i]]
  BY <1>1 DEF SubSeq
<1>. QED
  BY <1>1, <1>2

-----------------------------------------------------------------------------
(* The invariant of the copy.                                              *)

RunRecords ==
  [pc : {"counted", "admitted", "next", "read", "insert", "copied"}, resume : BOOLEAN,
   counts : [TableNames -> Nat], had : Nat, completed : Completed, offset : Nat,
   chunk : SUBSET Row, marks : SUBSET Operations]

CopyTypeOK ==
  /\ events \in Seq(Operations)
  /\ destination \in [TableNames -> SUBSET Row]
  /\ \A t \in TableNames : IsFiniteSet(destination[t])
  /\ checkpoint \in Checkpoints \union {Absent}
  /\ runs \in [Runs -> RunRecords \union {Idle}]
  /\ verified \in Nat \union {Absent}
  /\ overlapped \in BOOLEAN

\* the events of the source when the checkpoint was first written
Had == checkpoint.counts["operation_events"]

\* The source has not been written to: since the beginning, or since the only
\* copy there is was counted.
Steady ==
  \/ Len(events) = Len(InitialEvents)
  \/ ~overlapped /\ checkpoint # Absent /\ Len(events) = Had

IsSnapshot(t) == destination[t] = TableRows(SubSeq(events, 1, Had), t)

\* What is known of a table that is copied to the end: that of a source written to
\* in the meantime the events will be, or are, too many.
CopiedAll(t) ==
  IF t = "operations" THEN IsSnapshot("operations") \/ Len(events) > Had
  ELSE (\A u \in TableNames : IsSnapshot(u)) \/ DestinationCount("operation_events") > Had

\* A process has counted the events of some earlier moment; where it will go on is
\* not beyond what the destination has.
RunIsBounded(run) ==
  /\ run.had <= Len(events) /\ run.counts["operation_events"] = run.had
  /\ run.pc \in {"counted", "admitted"} => run.completed = Nothing
  /\ run.pc \in {"read", "insert", "copied"} => Remaining(run) # {}
  /\ run.pc \in {"read", "insert"} => run.offset <= DestinationCount(Table(run))
  /\ run.pc = "insert" => run.chunk # {} /\ IsFiniteSet(run.chunk)

\* A process that is alone found the destination empty or works as the checkpoint says.
RunIsAlone(run) ==
  /\ run.pc = "admitted" => checkpoint = Absent /\ Empty
  /\ run.pc \in {"next", "read", "insert", "copied"} =>
       /\ checkpoint # Absent
       /\ checkpoint.counts = run.counts
       /\ checkpoint.completed = run.completed
  /\ run.pc = "copied" => CopiedAll(Table(run))

RunOk(run) ==
  /\ RunIsBounded(run)
  /\ Steady /\ run.pc = "insert" => run.chunk = Slice(TableRows(events, Table(run)), run.offset)
  /\ ~overlapped => RunIsAlone(run)

\* What the file and the destination say between them while no two processes overlap.
FileIsTrue ==
  /\ checkpoint = Absent /\ verified = Absent => Empty
  /\ checkpoint # Absent =>
       /\ verified = Absent
       /\ \A t \in DOMAIN checkpoint.completed :
            /\ CopiedAll(t)
            /\ t = "operation_events" => checkpoint.completed[t] = DestinationCount(t)
  /\ RowsAreOfOneMoment
  /\ verified # Absent => verified <= Len(events)

CopyInv ==
  /\ CopyTypeOK
  /\ Len(InitialEvents) <= Len(events)
  /\ checkpoint # Absent => Had <= Len(events)
  /\ \A r \in Runs : runs[r] # Idle => RunOk(runs[r])
  /\ Steady => \A t \in TableNames : IsBeginning(destination[t], TableRows(events, t))
  /\ ~overlapped => \A r, other \in Runs : runs[r] # Idle /\ runs[other] # Idle => r = other
  /\ ~overlapped => FileIsTrue

\* What a process is at, it has a record for.
LEMMA RunAtWork ==
  ASSUME CopyInv, NEW r \in Runs, runs[r].pc # "idle"
  PROVE  runs[r] \in RunRecords /\ runs[r] # Idle /\ RunOk(runs[r])
BY DEF CopyInv, CopyTypeOK, Idle

\* The table that is being copied is one of those not recorded yet.
LEMMA TableIsRemaining ==
  ASSUME NEW run, run.completed \in Completed
  PROVE  /\ Table(run) \in TableNames
         /\ Remaining(run) # {} => Table(run) \notin DOMAIN run.completed
         /\ Remaining(run) # {} /\ Table(run) = "operations" => DOMAIN run.completed = {}
         /\ Remaining(run) # {} /\ Table(run) = "operation_events" => DOMAIN run.completed = {"operations"}
BY DEF Table, Remaining, Completed, TableNames

\* A step of one process, of which only it is changed, preserves the invariant if what
\* it is at afterwards is true of it.
LEMMA RunChanges ==
  ASSUME CopyInv, NEW r \in Runs, runs[r] # Idle,
         NEW run \in RunRecords \union {Idle}, run # Idle => RunOk(run),
         Continue(r, run), UNCHANGED <<destination, checkpoint, verified>>
  PROVE  CopyInv'
<1>. USE DEF CopyInv
<1>1. /\ runs' = [runs EXCEPT ![r] = run]
      /\ UNCHANGED <<events, destination, checkpoint, verified, overlapped>>
  BY DEF Continue
<1>2. CopyTypeOK'
  BY <1>1 DEF CopyTypeOK
<1>3. \A other \in Runs : runs'[other] = IF other = r THEN run ELSE runs[other]
  BY <1>1 DEF CopyTypeOK
<1>4. ASSUME NEW other \in Runs PROVE (runs[other] # Idle => RunOk(runs[other]))'
  <2>1. other # r => (runs[other] # Idle => RunOk(runs[other]))
    OBVIOUS
  <2>. QED
    BY <1>1, <1>3, <2>1 DEF RunOk, RunIsBounded, RunIsAlone, Steady, CopiedAll, IsSnapshot, Had, Empty, DestinationCount, Table, Remaining
<1>5. (Steady => \A t \in TableNames : IsBeginning(destination[t], TableRows(events, t)))'
  BY <1>1 DEF Steady, Had
<1>6. (~overlapped => FileIsTrue)'
  BY <1>1 DEF FileIsTrue, RowsAreOfOneMoment, CopiedAll, IsSnapshot, Had, Empty, DestinationCount
<1>7. (checkpoint # Absent => Had <= Len(events))'
  BY <1>1 DEF Had
<1>8. (~overlapped => \A s, other \in Runs : runs[s] # Idle /\ runs[other] # Idle => s = other)'
  BY <1>1, <1>3
<1>. QED
  BY <1>1, <1>2, <1>4, <1>5, <1>6, <1>7, <1>8

\* Nothing is copied at first.
LEMMA CopyInitInvariant == CopyInit => CopyInv
<1>. SUFFICES ASSUME CopyInit PROVE CopyInv
  OBVIOUS
<1>. USE DEF CopyInit
<1>1. CopyTypeOK
  BY CopyAssumption, FS_EmptySet DEF CopyTypeOK
<1>2. \A t \in TableNames : destination[t] = {}
  OBVIOUS
<1>3. \A t \in TableNames : IsBeginning(destination[t], TableRows(events, t))
  BY <1>2 DEF IsBeginning
<1>4. FileIsTrue
  BY <1>2 DEF FileIsTrue, RowsAreOfOneMoment, Empty
<1>5. Len(InitialEvents) <= Len(events)
  <2>1. Len(events) \in Nat
    BY CopyAssumption
  <2>. QED
    BY <2>1
<1>. QED
  BY <1>1, <1>3, <1>4, <1>5 DEF CopyInv

\* The application adds behind what was counted, and ends what was steady.
LEMMA WriteInvariant ==
  ASSUME CopyInv, NEW o \in Operations, Write(o) PROVE CopyInv'
<1>. USE DEF CopyInv
<1>1. /\ events' = Append(events, o) /\ events \in Seq(Operations)
      /\ UNCHANGED <<destination, checkpoint, runs, verified, overlapped>>
  BY DEF Write, CopyTypeOK
<1>2. /\ events' \in Seq(Operations) /\ Len(events') = Len(events) + 1 /\ Len(events) \in Nat
      /\ \A n \in Nat : n <= Len(events) => SubSeq(events', 1, n) = SubSeq(events, 1, n)
  BY <1>1, PrefixStays
<1>3. CopyTypeOK'
  BY <1>1, <1>2 DEF CopyTypeOK
<1>4. checkpoint # Absent => Had \in Nat /\ Had <= Len(events)
  BY DEF CopyTypeOK, Checkpoints, TableNames, Had
<1>5. ~Steady'
  <2>1. Len(InitialEvents) \in Nat
    BY CopyAssumption
  <2>. QED
    BY <1>1, <1>2, <1>4, <2>1 DEF Steady, Had
<1>6. ASSUME checkpoint # Absent, NEW t PROVE CopiedAll(t) => CopiedAll(t)'
  <2>1. Had' = Had /\ Had \in Nat /\ Had <= Len(events)
    BY <1>1, <1>4, <1>6 DEF Had
  <2>2. SubSeq(events', 1, Had') = SubSeq(events, 1, Had)
    BY <1>2, <2>1
  <2>3. \A u : IsSnapshot(u)' <=> IsSnapshot(u)
    BY <1>1, <2>2 DEF IsSnapshot
  <2>4. Len(events') > Had' <=> Len(events) >= Had
    BY <1>2, <2>1
  <2>. QED
    BY <1>1, <1>2, <2>1, <2>3, <2>4 DEF CopiedAll, DestinationCount
<1>7. ASSUME NEW r \in Runs, runs[r] # Idle PROVE RunOk(runs[r])'
  <2>1. runs[r] \in RunRecords /\ RunOk(runs[r])
    BY <1>7 DEF CopyTypeOK
  <2>2. RunIsBounded(runs[r])'
    BY <1>1, <1>2, <2>1 DEF RunOk, RunIsBounded, RunRecords, DestinationCount, Table, Remaining
  <2>3. ASSUME ~overlapped PROVE RunIsAlone(runs[r])'
    <3>1. runs[r]' = runs[r] /\ checkpoint' = checkpoint /\ Empty' = Empty
      BY <1>1 DEF Empty
    <3>2. RunIsAlone(runs[r])
      BY <2>1, <2>3 DEF RunOk
    <3>3. runs[r].pc = "copied" => CopiedAll(Table(runs[r]))'
      <4>1. Table(runs[r])' = Table(runs[r])
        BY <3>1 DEF Table, Remaining
      <4>. QED
        BY <1>6, <3>2, <4>1 DEF RunIsAlone
    <3>. QED
      BY <3>1, <3>2, <3>3 DEF RunIsAlone
  <2>. QED
    BY <1>1, <1>5, <2>2, <2>3 DEF RunOk
<1>8. ~overlapped => FileIsTrue'
  <2>. SUFFICES ASSUME ~overlapped PROVE FileIsTrue'
    OBVIOUS
  <2>1. RowsAreOfOneMoment'
    BY <1>1, <1>2 DEF FileIsTrue, RowsAreOfOneMoment, CopyTypeOK
  <2>2. ASSUME checkpoint # Absent, NEW t \in DOMAIN checkpoint.completed
        PROVE  /\ CopiedAll(t)'
               /\ t = "operation_events" => checkpoint.completed[t] = DestinationCount(t)'
    BY <1>1, <1>6, <2>2 DEF FileIsTrue, DestinationCount
  <2>3. (verified # Absent => verified <= Len(events))'
    BY <1>1, <1>2 DEF FileIsTrue, CopyTypeOK
  <2>. QED
    BY <1>1, <2>1, <2>2, <2>3 DEF FileIsTrue, Empty
<1>9. (~overlapped => \A r, other \in Runs : runs[r] # Idle /\ runs[other] # Idle => r = other)'
  BY <1>1
<1>10. (Len(InitialEvents) <= Len(events))' /\ (checkpoint # Absent => Had <= Len(events))'
  <2>1. Len(InitialEvents) \in Nat
    BY CopyAssumption
  <2>. QED
    BY <1>1, <1>2, <1>4, <2>1 DEF Had
<1>. QED
  BY <1>1, <1>3, <1>5, <1>7, <1>8, <1>9, <1>10

\* A run starts; one that is not alone makes no promise.
LEMMA StartInvariant ==
  ASSUME CopyInv, NEW r \in Runs, NEW resume \in BOOLEAN, Start(r, resume) PROVE CopyInv'
<1>. USE DEF CopyInv
<1>. DEFINE run == [pc |-> "counted", resume |-> resume, counts |-> Counts(events),
                    had |-> Len(events), completed |-> Nothing, offset |-> 0, chunk |-> {},
                    marks |-> {}]
<1>1. /\ runs' = [runs EXCEPT ![r] = run] /\ runs[r] = Idle
      /\ overlapped' = (overlapped \/ \E other \in Runs : runs[other] # Idle)
      /\ UNCHANGED <<events, destination, checkpoint, verified>>
  BY DEF Start
<1>2. /\ Counts(events) \in [TableNames -> Nat]
      /\ Counts(events)["operation_events"] = Len(events) /\ Len(events) \in Nat
  BY TableIsKeyed DEF Counts, CopyTypeOK, TableNames
<1>3. Nothing \in Completed
  BY DEF Nothing, Completed
<1>4. run \in RunRecords
  BY <1>2, <1>3 DEF RunRecords
<1>5. /\ run.pc = "counted" /\ run.had = Len(events) /\ run.counts = Counts(events)
      /\ run.completed = Nothing
  OBVIOUS
<1>. HIDE DEF run
<1>6. CopyTypeOK'
  BY <1>1, <1>4 DEF CopyTypeOK
<1>7. \A other \in Runs : runs'[other] = IF other = r THEN run ELSE runs[other]
  BY <1>1 DEF CopyTypeOK
<1>8. Steady' => Steady
  BY <1>1 DEF Steady, Had
<1>9. ASSUME NEW other \in Runs PROVE (runs[other] # Idle => RunOk(runs[other]))'
  <2>1. CASE other # r
    <3>. SUFFICES ASSUME runs[other] # Idle PROVE RunOk(runs[other])'
      BY <1>7, <2>1
    <3>1. runs'[other] = runs[other] /\ RunOk(runs[other])
      BY <1>7, <2>1
    <3>2. RunIsBounded(runs[other])'
      BY <1>1, <3>1 DEF RunOk, RunIsBounded, DestinationCount, Table, Remaining
    <3>3. RunIsAlone(runs[other]) => RunIsAlone(runs[other])'
      BY <1>1, <3>1 DEF RunIsAlone, CopiedAll, IsSnapshot, Had, Empty, DestinationCount, Table, Remaining
    <3>. QED
      BY <1>1, <1>8, <3>1, <3>2, <3>3 DEF RunOk, Table, Remaining
  <2>2. CASE other = r
    <3>1. runs'[other] = run
      BY <1>7, <2>2
    <3>2. RunIsBounded(runs[other])'
      BY <1>1, <1>2, <1>5, <3>1 DEF RunIsBounded
    <3>3. RunIsAlone(runs[other])'
      BY <1>5, <3>1 DEF RunIsAlone
    <3>. QED
      BY <1>5, <3>1, <3>2, <3>3 DEF RunOk
  <2>. QED
    BY <2>1, <2>2
<1>10. (~overlapped => FileIsTrue)'
  BY <1>1 DEF FileIsTrue, RowsAreOfOneMoment, CopiedAll, IsSnapshot, Had, Empty, DestinationCount
<1>11. (~overlapped => \A s, other \in Runs : runs[s] # Idle /\ runs[other] # Idle => s = other)'
  BY <1>1, <1>7
<1>12. (checkpoint # Absent => Had <= Len(events))'
  BY <1>1 DEF Had
<1>. QED
  BY <1>1, <1>6, <1>8, <1>9, <1>10, <1>11, <1>12

\* A refused run ends, one without a checkpoint found the destination empty, and one
\* that resumes takes over what the checkpoint says.
LEMMA AdmitInvariant ==
  ASSUME CopyInv, NEW r \in Runs, Admit(r) PROVE CopyInv'
<1>. DEFINE run == runs[r]
<1>1. /\ run \in RunRecords /\ run # Idle /\ RunOk(run) /\ run.pc = "counted"
      /\ checkpoint \in Checkpoints \union {Absent}
      /\ UNCHANGED <<destination, checkpoint, verified>>
  BY RunAtWork DEF Admit, CopyInv, CopyTypeOK
<1>2. CASE Continue(r, Idle)
  BY <1>1, <1>2, RunChanges
<1>3. CASE Admitted(run) /\ checkpoint = Absent /\ Continue(r, [run EXCEPT !.pc = "admitted"])
  <2>. DEFINE new == [run EXCEPT !.pc = "admitted"]
  <2>1. /\ new \in RunRecords /\ new.pc = "admitted"
        /\ new.had = run.had /\ new.counts = run.counts /\ new.completed = run.completed
    BY <1>1 DEF RunRecords
  <2>2. Empty
    BY <1>3 DEF Admitted
  <2>3. Continue(r, new)
    BY <1>3
  <2>. HIDE DEF new
  <2>4. RunOk(new)
    BY <1>1, <1>3, <2>1, <2>2 DEF RunOk, RunIsBounded, RunIsAlone
  <2>. QED
    BY <1>1, <2>1, <2>3, <2>4, RunChanges
<1>4. CASE /\ Admitted(run) /\ checkpoint # Absent
           /\ Continue(r, [run EXCEPT !.pc = "next", !.completed = checkpoint.completed])
  <2>. DEFINE new == [run EXCEPT !.pc = "next", !.completed = checkpoint.completed]
  <2>1. checkpoint \in Checkpoints
    BY <1>1, <1>4
  <2>2. /\ new \in RunRecords /\ new.pc = "next" /\ new.completed = checkpoint.completed
        /\ new.had = run.had /\ new.counts = run.counts
    BY <1>1, <2>1 DEF RunRecords, Checkpoints
  <2>3. checkpoint.counts = run.counts
    BY <1>4 DEF Admitted
  <2>4. Continue(r, new)
    BY <1>4
  <2>. HIDE DEF new
  <2>5. RunOk(new)
    BY <1>1, <1>4, <2>2, <2>3 DEF RunOk, RunIsBounded, RunIsAlone
  <2>. QED
    BY <1>1, <2>2, <2>4, <2>5, RunChanges
<1>. QED
  BY <1>2, <1>3, <1>4 DEF Admit

\* The next table goes on behind what the destination has.
LEMMA NextTableInvariant ==
  ASSUME CopyInv, NEW r \in Runs, NextTable(r) PROVE CopyInv'
<1>. DEFINE run == runs[r]
            new == [run EXCEPT !.pc = "read", !.offset = Offset(Table(run))]
<1>1. /\ run \in RunRecords /\ run # Idle /\ RunOk(run)
      /\ run.pc = "next" /\ Remaining(run) # {} /\ Continue(r, new)
      /\ UNCHANGED <<destination, checkpoint, verified>>
  BY RunAtWork DEF NextTable
<1>2. Offset(Table(run)) = DestinationCount(Table(run)) /\ Offset(Table(run)) \in Nat
  BY <1>1, TableIsRemaining, FS_CardinalityType DEF CopyInv, CopyTypeOK, RunRecords, Offset, DestinationCount
<1>3. /\ new \in RunRecords /\ new.pc = "read" /\ new.offset = DestinationCount(Table(run))
      /\ new.completed = run.completed /\ new.had = run.had /\ new.counts = run.counts
  BY <1>1, <1>2 DEF RunRecords
<1>. HIDE DEF new
<1>4. Table(new) = Table(run) /\ Remaining(new) = Remaining(run)
  BY <1>3 DEF Table, Remaining
<1>5. RunOk(new)
  BY <1>1, <1>2, <1>3, <1>4 DEF RunOk, RunIsBounded, RunIsAlone
<1>. QED
  BY <1>1, <1>3, <1>5, RunChanges

\* A process that dies leaves the rest as it is.
LEMMA CrashInvariant ==
  ASSUME CopyInv, NEW r \in Runs, Crash(r) PROVE CopyInv'
BY RunChanges DEF Crash

\* The first checkpoint is true of an empty destination.
LEMMA ClaimInvariant ==
  ASSUME CopyInv, NEW r \in Runs, Claim(r) PROVE CopyInv'
<1>. USE DEF CopyInv
<1>. DEFINE run == runs[r]
            new == [run EXCEPT !.pc = "next"]
            file == [counts |-> run.counts, completed |-> Nothing]
<1>1. /\ run \in RunRecords /\ run # Idle /\ RunOk(run) /\ run.pc = "admitted"
      /\ runs' = [runs EXCEPT ![r] = new] /\ checkpoint' = file /\ verified' = Absent
      /\ UNCHANGED <<events, destination, overlapped>>
  BY RunAtWork DEF Claim, Continue
<1>2. /\ new \in RunRecords /\ new.pc = "next" /\ new.completed = run.completed
      /\ new.had = run.had /\ new.counts = run.counts
  BY <1>1 DEF RunRecords
<1>3. /\ file \in Checkpoints /\ file.counts = run.counts /\ file.completed = Nothing
      /\ DOMAIN Nothing = {}
  BY <1>1 DEF RunRecords, Checkpoints, Completed, Nothing
<1>4. file # Absent
  BY <1>3, CopyAssumption
<1>5. run.had <= Len(events) /\ run.counts["operation_events"] = run.had /\ run.completed = Nothing
  BY <1>1 DEF RunOk, RunIsBounded
<1>. HIDE DEF new, file
<1>6. CopyTypeOK'
  BY <1>1, <1>2, <1>3 DEF CopyTypeOK
<1>7. \A other \in Runs : runs'[other] = IF other = r THEN new ELSE runs[other]
  BY <1>1 DEF CopyTypeOK
<1>8. ~overlapped => Empty /\ \A other \in Runs : other # r => runs[other] = Idle
  BY <1>1 DEF RunOk, RunIsAlone
<1>9. ASSUME NEW other \in Runs PROVE (runs[other] # Idle => RunOk(runs[other]))'
  <2>1. CASE other # r
    <3>1. runs'[other] = runs[other] /\ (~overlapped => runs[other] = Idle)
      BY <1>7, <1>8, <2>1
    <3>2. (runs[other] # Idle => RunIsBounded(runs[other]))'
      BY <1>1, <3>1 DEF RunOk, RunIsBounded, DestinationCount, Table, Remaining
    <3>3. overlapped /\ Steady' => Steady
      BY <1>1 DEF Steady
    <3>. QED
      BY <1>1, <3>1, <3>2, <3>3 DEF RunOk, Table, Remaining
  <2>2. CASE other = r
    <3>1. runs'[other] = new
      BY <1>7, <2>2
    <3>2. RunIsBounded(runs[other])'
      BY <1>1, <1>2, <1>5, <3>1 DEF RunIsBounded
    <3>3. ~overlapped => RunIsAlone(runs[other])'
      BY <1>1, <1>2, <1>3, <1>4, <1>5, <1>8, <3>1 DEF RunIsAlone
    <3>. QED
      BY <1>1, <1>2, <3>1, <3>2, <3>3 DEF RunOk
  <2>. QED
    BY <2>1, <2>2
<1>10. (Steady => \A t \in TableNames : IsBeginning(destination[t], TableRows(events, t)))'
  <2>1. CASE overlapped
    BY <1>1, <2>1 DEF Steady
  <2>2. CASE ~overlapped
    BY <1>1, <1>8, <2>2 DEF IsBeginning, Empty
  <2>. QED
    BY <2>1, <2>2
<1>11. (~overlapped => FileIsTrue)'
  BY <1>1, <1>3, <1>4 DEF FileIsTrue, RowsAreOfOneMoment
<1>12. (~overlapped => \A s, other \in Runs : runs[s] # Idle /\ runs[other] # Idle => s = other)'
  BY <1>1, <1>7, <1>8
<1>13. (checkpoint # Absent => Had <= Len(events))'
  BY <1>1, <1>3, <1>5 DEF Had
<1>. QED
  BY <1>1, <1>6, <1>9, <1>10, <1>11, <1>12, <1>13

\* A chunk is read from the source as it is now; where there is none, the table is
\* copied to its end.
LEMMA ReadInvariant ==
  ASSUME CopyInv, NEW r \in Runs, Read(r) PROVE CopyInv'
<1>. USE DEF CopyInv
<1>. DEFINE run == runs[r]
            t == Table(run)
            rows == TableRows(events, t)
            found == Slice(rows, run.offset)
            marks == IF t = "operations" THEN {row.key : row \in found} \cap Burned ELSE {}
            new == [run EXCEPT !.pc = IF found = {} THEN "copied" ELSE "insert", !.chunk = found,
                               !.marks = marks]
<1>1. /\ run \in RunRecords /\ run # Idle /\ RunOk(run) /\ run.pc = "read"
      /\ Continue(r, new) /\ UNCHANGED <<destination, checkpoint, verified>>
      /\ events \in Seq(Operations)
  BY RunAtWork DEF Read, CopyTypeOK
<1>2. /\ Remaining(run) # {} /\ run.offset <= DestinationCount(t) /\ run.offset \in Nat
      /\ run.completed \in Completed
  BY <1>1 DEF RunOk, RunIsBounded, RunRecords
<1>3. t \in TableNames
  BY <1>2, TableIsRemaining
<1>4. Keyed(rows) /\ Cardinality(rows) \in Nat
  BY <1>1, <1>3, TableIsKeyed
<1>5. found \subseteq Row /\ IsFiniteSet(found) /\ marks \subseteq Operations
  <2>1. t = "operations" => \A row \in rows : row.key \in Operations
    BY <1>1 DEF TableRows
  <2>. QED
    BY <1>4, <2>1, FS_Subset DEF Slice, Keyed
<1>6. DestinationCount(t) \in Nat /\ DestinationCount("operation_events") \in Nat
  BY <1>3, FS_CardinalityType DEF CopyTypeOK, DestinationCount, TableNames
<1>7. ASSUME found = {}, ~overlapped PROVE CopiedAll(t)
  <2>1. Cardinality(rows) <= run.offset
    BY <1>2, <1>4, <1>7, EmptySliceIsEnd
  <2>2. Cardinality(rows) <= Cardinality(destination[t])
    BY <1>2, <1>4, <1>6, <2>1 DEF DestinationCount
  <2>3. checkpoint # Absent /\ checkpoint.completed = run.completed
    BY <1>1, <1>7 DEF RunOk, RunIsAlone
  <2>4. Had \in Nat /\ Had <= Len(events) /\ Len(events) \in Nat
    BY <1>1, <2>3 DEF CopyTypeOK, Checkpoints, TableNames, Had
  <2>5. ASSUME Had = Len(events) PROVE IsSnapshot(t)
    <3>1. IsBeginning(destination[t], rows)
      BY <1>3, <1>7, <2>3, <2>5 DEF Steady
    <3>2. destination[t] = rows
      BY <1>4, <2>2, <3>1, WholeBeginning
    <3>3. SubSeq(events, 1, Had) = events
      BY <1>1, <2>5
    <3>. QED
      BY <3>2, <3>3 DEF IsSnapshot
  <2>6. CASE t = "operations"
    BY <2>4, <2>5, <2>6 DEF CopiedAll
  <2>7. CASE t = "operation_events"
    <3>1. IsSnapshot("operations") \/ Len(events) > Had
      <4>1. "operations" \in DOMAIN checkpoint.completed
        BY <1>2, <2>3, <2>7, TableIsRemaining
      <4>. QED
        BY <1>7, <2>3, <4>1 DEF FileIsTrue, CopiedAll
    <3>2. Len(events) > Had => DestinationCount("operation_events") > Had
      <4>1. Cardinality(rows) = Len(events)
        BY <1>1, <1>3, <2>7, TableIsKeyed
      <4>. QED
        BY <1>6, <2>2, <2>4, <2>7, <4>1 DEF DestinationCount
    <3>. QED
      BY <2>4, <2>5, <2>7, <3>1, <3>2 DEF CopiedAll, TableNames
  <2>. QED
    BY <1>3, <2>6, <2>7 DEF TableNames
<1>8. /\ new \in RunRecords /\ new.chunk = found /\ new.offset = run.offset
      /\ new.pc = IF found = {} THEN "copied" ELSE "insert"
      /\ new.completed = run.completed /\ new.had = run.had /\ new.counts = run.counts
  BY <1>1, <1>5 DEF RunRecords
<1>. HIDE DEF new, found
<1>9. Table(new) = t /\ Remaining(new) = Remaining(run)
  BY <1>8 DEF Table, Remaining
<1>10. RunIsBounded(new)
  BY <1>1, <1>2, <1>5, <1>8, <1>9 DEF RunOk, RunIsBounded
<1>11. ~overlapped => RunIsAlone(new)
  BY <1>1, <1>7, <1>8, <1>9 DEF RunOk, RunIsAlone
<1>12. RunOk(new)
  BY <1>8, <1>9, <1>10, <1>11 DEF RunOk, found
<1>. QED
  BY <1>1, <1>8, <1>12, RunChanges

\* A chunk that is accepted was read behind what the destination has, and one that was
\* read before rows that another process has added is refused.
LEMMA InsertChunkInvariant ==
  ASSUME CopyInv, NEW r \in Runs, InsertChunk(r) PROVE CopyInv'
<1>. USE DEF CopyInv
<1>. DEFINE run == runs[r]
            t == Table(run)
            new == [run EXCEPT !.pc = "read", !.chunk = {}, !.marks = {},
                               !.offset = @ + Cardinality(run.chunk)]
<1>1. /\ run \in RunRecords /\ run # Idle /\ RunOk(run) /\ run.pc = "insert"
      /\ UNCHANGED <<checkpoint, verified>>
  BY RunAtWork DEF InsertChunk
<1>2. CASE Continue(r, Idle) /\ UNCHANGED destination
  BY <1>1, <1>2, RunChanges
<1>3. CASE /\ Accepts(t, run.chunk) /\ Continue(r, new)
           /\ destination' = [destination EXCEPT ![t] = @ \union run.chunk]
  <2>1. /\ runs' = [runs EXCEPT ![r] = new] /\ UNCHANGED <<events, checkpoint, verified, overlapped>>
        /\ events \in Seq(Operations)
    BY <1>1, <1>3 DEF Continue, CopyTypeOK
  <2>2. /\ Remaining(run) # {} /\ run.offset <= DestinationCount(t) /\ run.offset \in Nat
        /\ run.completed \in Completed /\ run.chunk # {} /\ IsFiniteSet(run.chunk)
        /\ run.chunk \subseteq Row
    BY <1>1 DEF RunOk, RunIsBounded, RunRecords
  <2>3. /\ t \in TableNames /\ t \notin DOMAIN run.completed
        /\ t = "operations" => DOMAIN run.completed = {}
        /\ t = "operation_events" => DOMAIN run.completed = {"operations"}
    BY <2>2, TableIsRemaining
  <2>4. run.chunk \intersect destination[t] = {}
    BY <1>3 DEF Accepts
  <2>5. /\ destination'[t] = destination[t] \union run.chunk
        /\ \A u \in TableNames : u # t => destination'[u] = destination[u]
        /\ destination' \in [TableNames -> SUBSET Row]
    BY <1>3, <2>2, <2>3 DEF CopyTypeOK
  <2>6. /\ IsFiniteSet(destination'[t]) /\ Cardinality(run.chunk) \in Nat
        /\ Cardinality(destination'[t]) = Cardinality(destination[t]) + Cardinality(run.chunk)
    <3>1. IsFiniteSet(destination[t]) /\ Cardinality(destination[t]) \in Nat
      BY <2>3, FS_CardinalityType DEF CopyTypeOK
    <3>2. Cardinality(run.chunk) \in Nat
      BY <2>2, FS_CardinalityType
    <3>3. Cardinality(destination[t] \intersect run.chunk) = 0
      BY <2>4, FS_EmptySet
    <3>4. /\ IsFiniteSet(destination[t] \union run.chunk)
          /\ Cardinality(destination[t] \union run.chunk) =
               Cardinality(destination[t]) + Cardinality(run.chunk) - Cardinality(destination[t] \intersect run.chunk)
      BY <2>2, <3>1, FS_Union
    <3>. HIDE DEF run, t
    <3>. QED
      BY <2>5, <3>1, <3>2, <3>3, <3>4
  <2>7. \A u \in TableNames :
           /\ DestinationCount(u) \in Nat /\ DestinationCount(u)' \in Nat
           /\ DestinationCount(u) <= DestinationCount(u)'
    <3>. HIDE DEF t
    <3>. SUFFICES ASSUME NEW u \in TableNames
                  PROVE  /\ Cardinality(destination[u]) \in Nat /\ Cardinality(destination'[u]) \in Nat
                         /\ Cardinality(destination[u]) <= Cardinality(destination'[u])
      BY DEF DestinationCount
    <3>1. Cardinality(destination[u]) \in Nat
      BY FS_CardinalityType DEF CopyTypeOK
    <3>2. CASE u = t
      BY <2>6, <3>1, <3>2
    <3>3. CASE u # t
      BY <2>5, <3>1, <3>3
    <3>. QED
      BY <3>2, <3>3
  <2>8. /\ new \in RunRecords /\ new.pc = "read" /\ new.offset = run.offset + Cardinality(run.chunk)
        /\ new.completed = run.completed /\ new.had = run.had /\ new.counts = run.counts
    <3>1. run.offset + Cardinality(run.chunk) \in Nat
      BY <2>2, <2>6
    <3>. QED
      BY <1>1, <3>1 DEF RunRecords
  <2>. HIDE DEF new, t
  <2>9. CopyTypeOK'
    BY <2>1, <2>3, <2>5, <2>6, <2>8 DEF CopyTypeOK
  <2>10. \A other \in Runs : runs'[other] = IF other = r THEN new ELSE runs[other]
    BY <2>1 DEF CopyTypeOK
  <2>11. ~overlapped => \A other \in Runs : other # r => runs[other] = Idle
    BY <1>1
  <2>12. ASSUME NEW other \in Runs PROVE (runs[other] # Idle => RunOk(runs[other]))'
    <3>1. CASE other # r
      <4>. SUFFICES ASSUME runs[other] # Idle PROVE RunOk(runs[other])'
        BY <2>10, <3>1
      <4>1. runs'[other] = runs[other] /\ RunOk(runs[other]) /\ runs[other] \in RunRecords
        BY <2>10, <3>1 DEF CopyTypeOK
      <4>2. overlapped
        BY <2>11, <3>1
      <4>3. RunIsBounded(runs[other])'
        <5>1. Table(runs[other]) \in TableNames /\ runs[other].offset \in Nat
          BY <4>1, TableIsRemaining DEF RunRecords
        <5>2. RunIsBounded(runs[other])
          BY <4>1 DEF RunOk
        <5>3. runs[other].offset <= DestinationCount(Table(runs[other])) =>
                runs[other].offset <= DestinationCount(Table(runs[other]))'
          <6>1. DestinationCount(Table(runs[other]))' = Cardinality(destination'[Table(runs[other])])
            BY <4>1 DEF DestinationCount, Table, Remaining
          <6>2. DestinationCount(Table(runs[other])) <= Cardinality(destination'[Table(runs[other])])
            BY <2>7, <5>1 DEF DestinationCount
          <6>. QED
            BY <2>7, <5>1, <6>1, <6>2 DEF DestinationCount
        <5>. QED
          BY <2>1, <4>1, <5>2, <5>3 DEF RunIsBounded, Remaining
      <4>. QED
        BY <2>1, <4>1, <4>2, <4>3 DEF RunOk, Steady, Table, Remaining
    <3>2. CASE other = r
      <4>1. runs'[other] = new
        BY <2>10, <3>2
      <4>2. Table(new) = t /\ Remaining(new) = Remaining(run)
        BY <2>8 DEF Table, Remaining, t
      <4>3. RunIsBounded(runs[other])'
        <5>1. run.offset + Cardinality(run.chunk) <= Cardinality(destination'[t])
          BY <2>2, <2>3, <2>6, <2>7 DEF DestinationCount, t
        <5>2. Table(runs[other])' = t /\ Remaining(runs[other])' = Remaining(run)
          BY <4>1, <4>2 DEF Table, Remaining
        <5>. QED
          BY <1>1, <2>1, <2>2, <2>8, <4>1, <5>1, <5>2 DEF RunOk, RunIsBounded, DestinationCount
      <4>4. ~overlapped => RunIsAlone(runs[other])'
        BY <1>1, <2>1, <2>8, <4>1 DEF RunOk, RunIsAlone
      <4>. QED
        BY <2>1, <2>8, <4>1, <4>3, <4>4 DEF RunOk
    <3>. QED
      BY <3>1, <3>2
  <2>13. (Steady => \A u \in TableNames : IsBeginning(destination[u], TableRows(events, u)))'
    <3>. SUFFICES ASSUME Steady', NEW u \in TableNames
                  PROVE  IsBeginning(destination'[u], TableRows(events', u))
      OBVIOUS
    <3>1. Steady /\ IsBeginning(destination[u], TableRows(events, u))
      BY <2>1 DEF Steady, Had
    <3>2. CASE u # t
      BY <2>1, <2>5, <3>1, <3>2
    <3>3. CASE u = t
      <4>1. run.chunk = Slice(TableRows(events, t), run.offset)
        BY <1>1, <3>1 DEF RunOk, t
      <4>2. Keyed(TableRows(events, t))
        BY <2>1, <2>3, TableIsKeyed
      <4>. QED
        BY <2>1, <2>2, <2>4, <2>5, <3>1, <3>3, <4>1, <4>2, SliceExtends DEF DestinationCount, t
    <3>. QED
      BY <3>2, <3>3
  <2>14. (~overlapped => FileIsTrue)'
    <3>. SUFFICES ASSUME ~overlapped PROVE FileIsTrue'
      BY <2>1
    <3>1. checkpoint # Absent /\ checkpoint.completed = run.completed
      BY <1>1 DEF RunOk, RunIsAlone
    <3>2. verified = Absent
      BY <3>1 DEF FileIsTrue
    <3>3. CASE t = "operations"
      BY <2>1, <2>3, <3>1, <3>2, <3>3 DEF FileIsTrue, RowsAreOfOneMoment
    <3>4. CASE t = "operation_events"
      <4>1. DOMAIN checkpoint.completed = {"operations"} /\ CopiedAll("operations")
        BY <2>3, <3>1, <3>4 DEF FileIsTrue
      <4>2. destination'["operations"] = destination["operations"]
        BY <2>5, <3>4 DEF TableNames
      <4>3. CopiedAll("operations")'
        BY <2>1, <4>1, <4>2 DEF CopiedAll, IsSnapshot, Had
      <4>. QED
        BY <2>1, <3>1, <3>2, <4>1, <4>3 DEF FileIsTrue, RowsAreOfOneMoment
    <3>. QED
      BY <2>3, <3>3, <3>4 DEF TableNames
  <2>15. (~overlapped => \A s, other \in Runs : runs[s] # Idle /\ runs[other] # Idle => s = other)'
    BY <2>1, <2>10, <2>11
  <2>16. (checkpoint # Absent => Had <= Len(events))'
    BY <2>1 DEF Had
  <2>. QED
    BY <2>1, <2>9, <2>12, <2>13, <2>14, <2>15, <2>16
<1>. QED
  BY <1>2, <1>3 DEF InsertChunk

\* The file records what is known of a table that was copied to its end.
LEMMA FinishTableInvariant ==
  ASSUME CopyInv, NEW r \in Runs, FinishTable(r) PROVE CopyInv'
<1>. USE DEF CopyInv
<1>. DEFINE run == runs[r]
            t == Table(run)
            names == DOMAIN run.completed \union {t}
            completed == [u \in names |-> IF u = t THEN DestinationCount(t) ELSE run.completed[u]]
            new == [run EXCEPT !.pc = "next", !.completed = completed]
            file == [counts |-> run.counts, completed |-> completed]
<1>1. /\ run \in RunRecords /\ run # Idle /\ RunOk(run) /\ run.pc = "copied"
      /\ runs' = [runs EXCEPT ![r] = new] /\ checkpoint' = file
      /\ UNCHANGED <<events, destination, verified, overlapped>>
  BY RunAtWork DEF FinishTable, Continue
<1>2. Remaining(run) # {} /\ run.completed \in Completed
  BY <1>1 DEF RunOk, RunIsBounded, RunRecords
<1>3. /\ t \in TableNames /\ t \notin DOMAIN run.completed
      /\ t = "operations" => DOMAIN run.completed = {}
      /\ t = "operation_events" => DOMAIN run.completed = {"operations"}
  BY <1>2, TableIsRemaining
<1>4. DestinationCount(t) \in Nat
  BY <1>3, FS_CardinalityType DEF CopyTypeOK, DestinationCount
<1>. HIDE DEF t
<1>5. completed \in Completed
  <2>1. completed \in [names -> Nat]
    BY <1>2, <1>3, <1>4 DEF Completed
  <2>2. names = {"operations"} \/ names = TableNames
    BY <1>3 DEF TableNames
  <2>. QED
    BY <2>1, <2>2 DEF Completed
<1>6. /\ DOMAIN completed = DOMAIN run.completed \union {t} /\ completed[t] = DestinationCount(t)
      /\ \A u \in DOMAIN run.completed : completed[u] = run.completed[u]
  BY <1>3
<1>. HIDE DEF completed
<1>7. /\ new \in RunRecords /\ new.pc = "next" /\ new.completed = completed
      /\ new.had = run.had /\ new.counts = run.counts
  BY <1>1, <1>5 DEF RunRecords
<1>8. file \in Checkpoints /\ file.counts = run.counts /\ file.completed = completed
  BY <1>1, <1>5 DEF RunRecords, Checkpoints
<1>9. file # Absent
  BY <1>8, CopyAssumption
<1>10. run.had <= Len(events) /\ run.counts["operation_events"] = run.had
  BY <1>1 DEF RunOk, RunIsBounded
<1>. HIDE DEF new, file
<1>11. CopyTypeOK'
  BY <1>1, <1>7, <1>8 DEF CopyTypeOK
<1>12. \A other \in Runs : runs'[other] = IF other = r THEN new ELSE runs[other]
  BY <1>1 DEF CopyTypeOK
<1>13. ~overlapped =>
         /\ checkpoint # Absent /\ checkpoint.counts = run.counts
         /\ checkpoint.completed = run.completed /\ Had' = Had /\ CopiedAll(t)
         /\ \A other \in Runs : other # r => runs[other] = Idle
  BY <1>1, <1>8 DEF RunOk, RunIsAlone, Had, t
<1>14. Steady' => Steady
  BY <1>1, <1>13 DEF Steady
<1>15. ASSUME NEW other \in Runs PROVE (runs[other] # Idle => RunOk(runs[other]))'
  <2>1. CASE other # r
    <3>1. runs'[other] = runs[other] /\ (~overlapped => runs[other] = Idle)
      BY <1>12, <1>13, <2>1
    <3>2. (runs[other] # Idle => RunIsBounded(runs[other]))'
      BY <1>1, <3>1 DEF RunOk, RunIsBounded, DestinationCount, Table, Remaining
    <3>. QED
      BY <1>1, <1>14, <3>1, <3>2 DEF RunOk, Table, Remaining
  <2>2. CASE other = r
    <3>1. runs'[other] = new
      BY <1>12, <2>2
    <3>2. RunIsBounded(runs[other])'
      BY <1>1, <1>7, <1>10, <3>1 DEF RunIsBounded
    <3>3. RunIsAlone(runs[other])'
      BY <1>1, <1>7, <1>8, <1>9, <3>1 DEF RunIsAlone
    <3>. QED
      BY <1>7, <3>1, <3>2, <3>3 DEF RunOk
  <2>. QED
    BY <2>1, <2>2
<1>16. (Steady => \A u \in TableNames : IsBeginning(destination[u], TableRows(events, u)))'
  BY <1>1, <1>14
<1>17. (~overlapped => FileIsTrue)'
  <2>. SUFFICES ASSUME ~overlapped PROVE FileIsTrue'
    BY <1>1
  <2>1. verified = Absent /\ \A u \in DOMAIN run.completed :
          CopiedAll(u) /\ (u = "operation_events" => run.completed[u] = DestinationCount(u))
    BY <1>13 DEF FileIsTrue
  <2>2. ASSUME NEW u, CopiedAll(u) PROVE CopiedAll(u)'
    BY <1>1, <1>13, <2>2 DEF CopiedAll, IsSnapshot, DestinationCount
  <2>3. ASSUME NEW u \in DOMAIN completed
        PROVE  /\ CopiedAll(u)'
               /\ u = "operation_events" => completed[u] = DestinationCount(u)'
    <3>1. DestinationCount(u)' = DestinationCount(u)
      BY <1>1 DEF DestinationCount
    <3>2. u = t \/ u \in DOMAIN run.completed
      BY <1>6
    <3>. QED
      BY <1>6, <1>13, <2>1, <2>2, <3>1, <3>2
  <2>. QED
    BY <1>1, <1>8, <1>9, <2>1, <2>3 DEF FileIsTrue, RowsAreOfOneMoment
<1>18. (~overlapped => \A s, other \in Runs : runs[s] # Idle /\ runs[other] # Idle => s = other)'
  BY <1>1, <1>12, <1>13
<1>19. (checkpoint # Absent => Had <= Len(events))'
  BY <1>1, <1>8, <1>10 DEF Had
<1>. QED
  BY <1>1, <1>11, <1>15, <1>16, <1>17, <1>18, <1>19

\* With as many events as were counted there are none too many, so that what is known
\* of the tables is that they are the snapshot.
LEMMA ReportInvariant ==
  ASSUME CopyInv, NEW r \in Runs, Report(r) PROVE CopyInv'
<1>. USE DEF CopyInv
<1>. DEFINE run == runs[r]
<1>1. /\ run \in RunRecords /\ run # Idle /\ RunOk(run) /\ run.pc = "next" /\ Remaining(run) = {}
      /\ Continue(r, Idle) /\ runs' = [runs EXCEPT ![r] = Idle]
      /\ UNCHANGED <<events, destination, overlapped>>
  BY RunAtWork DEF Report, Continue
<1>2. CASE UNCHANGED <<checkpoint, verified>>
  BY <1>1, <1>2, RunChanges
<1>3. CASE ReportOk(run) /\ checkpoint' = Absent /\ verified' = run.had
  <2>1. CopyTypeOK'
    BY <1>1, <1>3 DEF CopyTypeOK, RunRecords
  <2>2. \A other \in Runs : runs'[other] = IF other = r THEN Idle ELSE runs[other]
    BY <1>1 DEF CopyTypeOK
  <2>3. Steady' => Steady
    BY <1>1, <1>3 DEF Steady
  <2>4. ~overlapped => \A other \in Runs : other # r => runs[other] = Idle
    BY <1>1
  <2>5. ASSUME NEW other \in Runs PROVE (runs[other] # Idle => RunOk(runs[other]))'
    <3>. SUFFICES ASSUME other # r, runs[other] # Idle PROVE RunOk(runs[other])'
      BY <2>2
    <3>1. runs'[other] = runs[other] /\ RunOk(runs[other]) /\ overlapped
      BY <2>2, <2>4
    <3>2. RunIsBounded(runs[other])'
      BY <1>1, <3>1 DEF RunOk, RunIsBounded, DestinationCount, Table, Remaining
    <3>. QED
      BY <1>1, <2>3, <3>1, <3>2 DEF RunOk, Table, Remaining
  <2>6. ASSUME ~overlapped
        PROVE  \A u \in TableNames : destination[u] = TableRows(SubSeq(events, 1, run.had), u)
    <3>1. checkpoint # Absent /\ checkpoint.counts = run.counts /\ checkpoint.completed = run.completed
      BY <1>1, <2>6 DEF RunOk, RunIsAlone
    <3>2. Had = run.had /\ Had \in Nat
      BY <1>1, <3>1 DEF RunOk, RunIsBounded, Had, RunRecords
    <3>3. "operation_events" \in DOMAIN run.completed
      BY <1>1 DEF Remaining, TableNames
    <3>4. CopiedAll("operation_events") /\ run.completed["operation_events"] = DestinationCount("operation_events")
      BY <2>6, <3>1, <3>3 DEF FileIsTrue
    <3>5. DestinationCount("operation_events") = Had
      BY <1>3, <3>1, <3>4 DEF ReportOk, Had
    <3>. QED
      BY <3>2, <3>4, <3>5 DEF CopiedAll, IsSnapshot
  <2>7. (~overlapped => FileIsTrue)'
    <3>1. run.had <= Len(events) /\ run.had \in Nat
      BY <1>1 DEF RunOk, RunIsBounded, RunRecords
    <3>2. run.had # Absent
      BY <3>1, CopyAssumption
    <3>. QED
      BY <1>1, <1>3, <2>6, <3>1, <3>2 DEF FileIsTrue, RowsAreOfOneMoment
  <2>8. (~overlapped => \A s, other \in Runs : runs[s] # Idle /\ runs[other] # Idle => s = other)'
    BY <1>1, <2>2
  <2>. QED
    BY <1>1, <1>3, <2>1, <2>3, <2>5, <2>7, <2>8
<1>. QED
  BY <1>2, <1>3 DEF Report

\* A fresh destination without a checkpoint is as at first.
LEMMA StartOverInvariant == ASSUME CopyInv, StartOver PROVE CopyInv'
<1>. USE DEF CopyInv, StartOver
<1>1. CopyTypeOK'
  BY FS_EmptySet DEF CopyTypeOK
<1>2. \A t \in TableNames : destination'[t] = {}
  OBVIOUS
<1>3. (\A t \in TableNames : IsBeginning(destination[t], TableRows(events, t)))'
  BY <1>2 DEF IsBeginning
<1>4. FileIsTrue'
  BY <1>2 DEF FileIsTrue, RowsAreOfOneMoment, Empty
<1>. QED
  BY <1>1, <1>3, <1>4

\* The invariant says nothing of the changes in place.
LEMMA CopyIsUntouched ==
  ASSUME CopyInv, UNCHANGED <<events, destination, checkpoint, runs, verified, overlapped>>
  PROVE  CopyInv'
BY DEF CopyInv, CopyTypeOK, RunOk, RunIsBounded, RunIsAlone, Steady, FileIsTrue,
   RowsAreOfOneMoment, CopiedAll, IsSnapshot, Had, Empty, DestinationCount, Table, Remaining

\* Every step preserves the invariant.
LEMMA CopyNextInvariant == CopyInv /\ [CopyNext]_copyVars => CopyInv'
<1>. SUFFICES ASSUME CopyInv, [CopyNext]_copyVars PROVE CopyInv'
  OBVIOUS
<1>1. ASSUME NEW o \in Operations, Write(o) \/ Burn(o) PROVE CopyInv'
  <2>1. CASE Write(o)
    BY <2>1, WriteInvariant
  <2>2. CASE Burn(o)
    BY <2>2, CopyIsUntouched DEF Burn
  <2>. QED
    BY <1>1, <2>1, <2>2
<1>2. ASSUME NEW r \in Runs, NEW resume \in BOOLEAN, Start(r, resume) PROVE CopyInv'
  BY <1>2, StartInvariant
<1>3. ASSUME NEW r \in Runs,
             \/ Admit(r) \/ Claim(r) \/ NextTable(r) \/ Read(r) \/ InsertChunk(r)
             \/ FinishTable(r) \/ Report(r) \/ Crash(r)
      PROVE  CopyInv'
  BY <1>3, AdmitInvariant, ClaimInvariant, NextTableInvariant, ReadInvariant,
     InsertChunkInvariant, FinishTableInvariant, ReportInvariant, CrashInvariant
<1>4. CASE StartOver
  BY <1>4, StartOverInvariant
<1>5. CASE UNCHANGED copyVars
  BY <1>5, CopyIsUntouched DEF copyVars
<1>. QED
  BY <1>1, <1>2, <1>3, <1>4, <1>5 DEF CopyNext, RunNext

\* The invariant of the copy, for any source, chunk and number of processes
\* (copy_all_tables).
THEOREM CopyInvariance == CopySpec => []CopyInv
<1>. QED
  BY CopyInitInvariant, CopyNextInvariant, PTL DEF CopySpec

\* What was changed in place before the copy began is in what was copied, and in what
\* a process has read to copy, if it works alone.
Keys(rows) == {row.key : row \in rows}
Missed(keys) == (BurnedBy(claimed) \intersect keys) \ marked

MarksOk ==
  /\ burns \in Seq(Operations)
  /\ claimed \in 0 .. Len(burns)
  /\ ~overlapped => Missed(Copied) = {}
  /\ \A r \in Runs : ~overlapped /\ runs[r].pc = "insert" /\ Table(runs[r]) = "operations" =>
       Missed(Keys(runs[r].chunk)) \subseteq runs[r].marks

\* A change in place comes after the others.
LEMMA LaterBurn ==
  ASSUME MarksOk, NEW o \in Operations, burns' = Append(burns, o), claimed' = claimed
  PROVE  /\ burns' \in Seq(Operations) /\ claimed' \in 0 .. Len(burns')
         /\ BurnedBy(claimed)' = BurnedBy(claimed)
<1>1. /\ burns' \in Seq(Operations) /\ Len(burns') = Len(burns) + 1 /\ Len(burns) \in Nat
      /\ \A i \in 1 .. Len(burns) : burns'[i] = burns[i]
  BY DEF MarksOk
<1>. QED
  BY <1>1 DEF MarksOk, BurnedBy

\* What was changed in place at the claim is changed still.
LEMMA BurnsStay ==
  ASSUME MarksOk PROVE BurnedBy(claimed) \subseteq Burned
BY DEF MarksOk, Burned, BurnedBy

\* A step that leaves the changes and the rows as they are, and after which no process
\* holds a chunk that it did not hold before, misses nothing new.
LEMMA NothingMissed ==
  ASSUME MarksOk, UNCHANGED <<burns, destination, marked, claimed>>, overlapped' = FALSE => ~overlapped,
         \A r \in Runs : runs'[r].pc = "insert" => runs'[r] = runs[r]
  PROVE  MarksOk'
<1>1. Missed(Copied)' = Missed(Copied) /\ \A r \in Runs : Missed(Keys(runs[r].chunk))' = Missed(Keys(runs'[r].chunk))
  BY DEF Missed, Keys, Copied, BurnedBy
<1>. QED
  BY <1>1 DEF MarksOk, Table, Remaining

\* Every step keeps it so.
LEMMA MarksNextInvariant == CopyInv /\ MarksOk /\ [CopyNext]_copyVars => MarksOk'
<1>. SUFFICES ASSUME CopyInv, MarksOk, [CopyNext]_copyVars PROVE MarksOk'
  OBVIOUS
<1>. USE DEF MarksOk
<1>1. ASSUME NEW o \in Operations, Write(o) PROVE MarksOk'
  BY <1>1, NothingMissed DEF Write, CopyInv, CopyTypeOK
<1>2. ASSUME NEW o \in Operations, Burn(o) PROVE MarksOk'
  <2>1. /\ BurnedBy(claimed)' = BurnedBy(claimed) /\ burns' \in Seq(Operations)
        /\ claimed' \in 0 .. Len(burns') /\ UNCHANGED <<destination, marked, runs, overlapped>>
    BY <1>2, LaterBurn DEF Burn
  <2>2. \A keys : Missed(keys)' = (BurnedBy(claimed) \intersect keys') \ marked
    BY <2>1 DEF Missed
  <2>3. Missed(Copied)' = Missed(Copied)
    BY <2>1 DEF Missed, Copied
  <2>4. \A r \in Runs : Missed(Keys(runs[r].chunk))' = Missed(Keys(runs[r].chunk))
    BY <2>1 DEF Missed, Keys
  <2>. QED
    BY <2>1, <2>3, <2>4 DEF Table, Remaining
<1>3. ASSUME NEW r \in Runs, NEW resume \in BOOLEAN, Start(r, resume) PROVE MarksOk'
  <2>1. \A other \in Runs : runs'[other].pc = "insert" => runs'[other] = runs[other]
    BY <1>3 DEF Start, CopyInv, CopyTypeOK
  <2>. QED
    BY <1>3, <2>1, NothingMissed DEF Start
<1>4. ASSUME NEW r \in Runs, Admit(r) \/ NextTable(r) \/ FinishTable(r) \/ Report(r) \/ Crash(r)
      PROVE  MarksOk'
  <2>1. runs[r] \in RunRecords
    BY <1>4, RunAtWork DEF Admit, NextTable, FinishTable, Report, Crash, CopyInv, CopyTypeOK
  <2>2. runs' = [runs EXCEPT ![r] = runs'[r]] /\ runs'[r].pc # "insert"
    <3>1. CASE Continue(r, Idle)
      BY <3>1 DEF Continue, CopyInv, CopyTypeOK, Idle
    <3>2. CASE Continue(r, [runs[r] EXCEPT !.pc = "admitted"])
      BY <2>1, <3>2 DEF Continue, CopyInv, CopyTypeOK, RunRecords
    <3>3. CASE Continue(r, [runs[r] EXCEPT !.pc = "read", !.offset = Offset(Table(runs[r]))])
      BY <2>1, <3>3 DEF Continue, CopyInv, CopyTypeOK, RunRecords
    <3>4. CASE \E completed : Continue(r, [runs[r] EXCEPT !.pc = "next", !.completed = completed])
      BY <2>1, <3>4 DEF Continue, CopyInv, CopyTypeOK, RunRecords
    <3>. QED
      BY <1>4, <3>1, <3>2, <3>3, <3>4 DEF Admit, NextTable, FinishTable, Report, Crash
  <2>3. \A other \in Runs : runs'[other].pc = "insert" => runs'[other] = runs[other]
    BY <2>2 DEF CopyInv, CopyTypeOK
  <2>4. UNCHANGED <<burns, destination, marked, claimed, overlapped>>
    BY <1>4 DEF Admit, NextTable, FinishTable, Report, Crash, Continue
  <2>. QED
    BY <2>3, <2>4, NothingMissed
<1>5. ASSUME NEW r \in Runs, Claim(r) PROVE MarksOk'
  <2>1. /\ runs[r] \in RunRecords /\ RunOk(runs[r]) /\ runs[r].pc = "admitted" /\ runs[r] # Idle
        /\ runs' = [runs EXCEPT ![r] = [runs[r] EXCEPT !.pc = "next"]]
        /\ claimed' = Len(burns) /\ UNCHANGED <<burns, destination, marked, overlapped>>
    BY <1>5, RunAtWork DEF Claim, Continue
  <2>2. claimed' \in 0 .. Len(burns')
    BY <2>1
  <2>3. ~overlapped => Copied' = {}
    BY <2>1 DEF RunOk, RunIsAlone, Empty, Copied, TableNames
  <2>4. ~overlapped => \A other \in Runs : runs'[other].pc # "insert"
    <3>1. \A other \in Runs : runs'[other] = IF other = r THEN [runs[r] EXCEPT !.pc = "next"] ELSE runs[other]
      BY <2>1 DEF CopyInv, CopyTypeOK
    <3>2. ~overlapped => \A other \in Runs : other # r => runs[other] = Idle
      BY <2>1 DEF CopyInv
    <3>. QED
      BY <2>1, <3>1, <3>2 DEF RunRecords, Idle
  <2>5. ~overlapped => Missed(Copied)' = {}
    BY <2>3 DEF Missed
  <2>. QED
    BY <2>1, <2>2, <2>4, <2>5
<1>6. ASSUME NEW r \in Runs, Read(r) PROVE MarksOk'
  <2>. DEFINE found == Slice(TableRows(events, Table(runs[r])), runs[r].offset)
              marks == IF Table(runs[r]) = "operations" THEN Keys(found) \intersect Burned ELSE {}
              new == [runs[r] EXCEPT !.pc = IF found = {} THEN "copied" ELSE "insert",
                                     !.chunk = found, !.marks = marks]
  <2>1. /\ runs[r] \in RunRecords /\ runs' = [runs EXCEPT ![r] = new]
        /\ UNCHANGED <<burns, destination, marked, overlapped, claimed>>
    BY <1>6, RunAtWork DEF Read, Continue, Keys
  <2>2. new.chunk = found /\ new.marks = marks /\ new.completed = runs[r].completed
    BY <2>1 DEF RunRecords
  <2>. HIDE DEF new, found
  <2>3. \A other \in Runs : runs'[other] = IF other = r THEN new ELSE runs[other]
    BY <2>1 DEF CopyInv, CopyTypeOK
  <2>4. Missed(Copied)' = Missed(Copied) /\ \A keys : (BurnedBy(claimed) \intersect keys) \ marked \subseteq Burned
    BY <2>1, BurnsStay DEF Missed, Copied, BurnedBy
  <2>5. ASSUME NEW other \in Runs, ~overlapped', runs'[other].pc = "insert", Table(runs[other])' = "operations"
        PROVE  Missed(Keys(runs[other].chunk))' \subseteq runs'[other].marks
    <3>1. Missed(Keys(runs[other].chunk))' = (BurnedBy(claimed) \intersect Keys(runs'[other].chunk)) \ marked
      BY <2>1 DEF Missed, Keys, BurnedBy
    <3>2. CASE other = r
      <4>1. Table(runs[r]) = "operations"
        BY <2>2, <2>3, <2>5, <3>2 DEF Table, Remaining
      <4>. QED
        BY <2>2, <2>3, <3>1, <3>2, <4>1, BurnsStay
    <3>3. CASE other # r
      BY <2>1, <2>3, <2>5, <3>1, <3>3 DEF Missed, Table, Remaining
    <3>. QED
      BY <3>2, <3>3
  <2>. QED
    BY <2>1, <2>4, <2>5
<1>7. ASSUME NEW r \in Runs, InsertChunk(r) PROVE MarksOk'
  <2>. DEFINE run == runs[r]
              new == [run EXCEPT !.pc = "read", !.chunk = {}, !.marks = {},
                                 !.offset = @ + Cardinality(run.chunk)]
  <2>1. /\ run \in RunRecords /\ run # Idle /\ run.pc = "insert" /\ RunOk(run)
        /\ UNCHANGED <<burns, overlapped, claimed>>
    BY <1>7, RunAtWork DEF InsertChunk, Continue
  <2>2. CASE runs' = [runs EXCEPT ![r] = Idle] /\ UNCHANGED <<destination, marked>>
    <3>1. \A other \in Runs : runs'[other].pc = "insert" => runs'[other] = runs[other]
      BY <2>2 DEF CopyInv, CopyTypeOK, Idle
    <3>. QED
      BY <2>1, <2>2, <3>1, NothingMissed
  <2>3. CASE /\ runs' = [runs EXCEPT ![r] = new] /\ marked' = marked \union run.marks
             /\ destination' = [destination EXCEPT ![Table(run)] = @ \union run.chunk]
    <3>1. new.pc = "read"
      BY <2>1 DEF RunRecords
    <3>2. \A other \in Runs : runs'[other] = IF other = r THEN new ELSE runs[other]
      BY <2>3 DEF CopyInv, CopyTypeOK
    <3>3. ~overlapped => \A other \in Runs : runs'[other].pc # "insert"
      <4>1. ~overlapped => \A other \in Runs : other # r => runs[other] = Idle
        BY <2>1 DEF CopyInv
      <4>. HIDE DEF new
      <4>. QED
        BY <3>1, <3>2, <4>1 DEF Idle
    <3>4. Copied' = IF Table(run) = "operations" THEN Copied \union Keys(run.chunk) ELSE Copied
      <4>1. "operations" \in DOMAIN destination
        BY DEF CopyInv, CopyTypeOK, TableNames
      <4>2. destination'["operations"] = IF Table(run) = "operations"
                                         THEN destination["operations"] \union run.chunk
                                         ELSE destination["operations"]
        BY <2>3, <4>1
      <4>. HIDE DEF run
      <4>. QED
        BY <4>2 DEF Copied, Keys
    <3>5. ~overlapped => Missed(Copied)' = {}
      <4>1. Missed(Copied)' = (BurnedBy(claimed) \intersect Copied') \ (marked \union run.marks)
        BY <2>1, <2>3 DEF Missed, BurnedBy
      <4>2. ~overlapped /\ Table(run) = "operations" => Missed(Keys(run.chunk)) \subseteq run.marks
        BY <2>1
      <4>. HIDE DEF run
      <4>. QED
        BY <3>4, <4>1, <4>2 DEF Missed
    <3>. QED
      BY <2>1, <3>3, <3>5
  <2>. QED
    BY <1>7, <2>2, <2>3 DEF InsertChunk, Continue
<1>8. CASE StartOver
  <2>1. Copied' = {} /\ \A other \in Runs : runs'[other].pc # "insert"
    BY <1>8 DEF StartOver, Copied, TableNames, Idle
  <2>2. Missed(Copied)' = {}
    BY <2>1 DEF Missed
  <2>. QED
    BY <1>8, <2>1, <2>2 DEF StartOver
<1>9. CASE UNCHANGED copyVars
  BY <1>9, NothingMissed DEF copyVars
<1>. QED
  BY <1>1, <1>2, <1>3, <1>4, <1>5, <1>6, <1>7, <1>8, <1>9 DEF CopyNext, RunNext

\* Nothing is missed, of any source and in any order.
LEMMA NothingIsEverMissed == CopySpec => []MarksOk
<1>1. CopyInit => MarksOk
  BY DEF CopyInit, MarksOk, Missed, Copied, TableNames, Idle
<1>. QED
  BY <1>1, CopyInvariance, MarksNextInvariant, PTL DEF CopySpec

\* Of rows, a report that says ok is about a copy of the source as it was when the run
\* that made it, or the first of those it resumed, counted it; of changes in place it is
\* about one that has those made before the destination was claimed (RowCopyReport.ok).
THEOREM VerifiedCopies == CopySpec => []VerifiedCopyIsComplete
<1>1. CopyInv => RowsAreOfOneMoment
  BY DEF CopyInv, FileIsTrue, RowsAreOfOneMoment
<1>2. MarksOk => EarlierChangesAreCopied
  BY DEF MarksOk, Missed, EarlierChangesAreCopied
<1>. QED
  BY <1>1, <1>2, CopyInvariance, NothingIsEverMissed, PTL DEF VerifiedCopyIsComplete

\* While the source gets no row the destination has the beginning of every table,
\* of processes that overlap as well (_copy_table's offset).
THEOREM CopyHasNoHole == CopySpec => []DestinationIsPrefix
<1>1. CopyInv => DestinationIsPrefix
  BY DEF CopyInv, Steady, DestinationIsPrefix
<1>. QED
  BY <1>1, CopyInvariance, PTL
=============================================================================
