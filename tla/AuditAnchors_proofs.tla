------------------------- MODULE AuditAnchors_proofs -------------------------
(***************************************************************************)
(* Theorems about AuditAnchors, for every number of publishers, entries    *)
(* and crashes, and whatever is edited or restored.                        *)
(*                                                                         *)
(* The database, and any backup of it, always holds a history: the rows    *)
(* are numbered without a gap, each takes up the hash of the one before,   *)
(* and at most one was edited, in its content only.  So a hash that is     *)
(* found in the log pins all that comes before it.                         *)
(***************************************************************************)
EXTENDS AuditAnchors, FiniteSetTheorems, SequenceTheorems, TLAPS

-----------------------------------------------------------------------------
(* A history.                                                              *)

Rows == [seq : Nat, event : Events \union {Forged}, prev : Seq(Events), hash : Seq(Events)]

Numbered(rows) ==
  /\ IsFiniteSet(rows)
  /\ {r.seq : r \in rows} = 1 .. Cardinality(rows)
  /\ \A r, s \in rows : r.seq = s.seq => r = s

\* A row's hash is that of the event it was written with.
Hashed(r) ==
  /\ Len(r.hash) = r.seq
  /\ r.hash = Append(r.prev, r.hash[r.seq])
  /\ r.event \in {r.hash[r.seq], Forged}

\* A row takes up the hash of the one before.
Chained(rows) ==
  /\ \A r \in rows : r.seq = 1 => r.prev = Genesis
  /\ \A r, s \in rows : r.seq + 1 = s.seq => s.prev = r.hash

\* The hashes of two rows agree on the events before both.
Agree(rows) ==
  \A r, s \in rows : r.seq <= s.seq => \A i \in 1 .. r.seq : r.hash[i] = s.hash[i]

OneForged(rows) == \A r, s \in rows : r.event = Forged /\ s.event = Forged => r = s

History(rows) ==
  /\ rows \subseteq Rows /\ Numbered(rows)
  /\ \A r \in rows : Hashed(r)
  /\ Chained(rows) /\ Agree(rows) /\ OneForged(rows)

\* There are as many rows up to a number as the number says.
LEMMA RowsUpTo ==
  ASSUME NEW rows, Numbered(rows), NEW m \in 0 .. Cardinality(rows)
  PROVE  Cardinality({r \in rows : r.seq <= m}) = m
<1>. DEFINE T == {r \in rows : r.seq <= m}
            f == [i \in 1 .. m |-> CHOOSE r \in rows : r.seq = i]
<1>1. Cardinality(rows) \in Nat
  BY FS_CardinalityType DEF Numbered
<1>2. \A i \in 1 .. m : \E r \in rows : r.seq = i
  BY <1>1 DEF Numbered
<1>3. \A i \in 1 .. m : f[i] \in rows /\ f[i].seq = i
  BY <1>2
<1>4. \A r \in T : r.seq \in 1 .. m
  BY <1>1 DEF Numbered
<1>. HIDE DEF f
<1>5. \A r \in T : f[r.seq] = r
  BY <1>3, <1>4 DEF Numbered
<1>6. f \in [1 .. m -> T]
  BY <1>3 DEF f
<1>7. f \in Bijection(1 .. m, T)
  <2>1. \A i, j \in 1 .. m : f[i] = f[j] => i = j
    BY <1>3
  <2>. HIDE DEF T
  <2>. QED
    BY <1>4, <1>5, <1>6, <2>1 DEF Bijection, Injection, Surjection, IsInjective
<1>8. IsFiniteSet(1 .. m) /\ Cardinality(1 .. m) = m
  BY <1>1, FS_Interval
<1>. QED
  BY <1>7, <1>8, FS_Bijection DEF ExistsBijection

\* The rows before a row, and the row before it.
LEMMA RowsBefore ==
  ASSUME NEW rows, Numbered(rows), NEW r \in rows
  PROVE  /\ r.seq \in 1 .. Cardinality(rows) /\ Cardinality(rows) \in Nat
         /\ Cardinality(Before(rows, r.seq)) = r.seq - 1
         /\ r.seq = 1 => Before(rows, r.seq) = {}
         /\ r.seq # 1 => \E s \in rows : s.seq + 1 = r.seq
<1>1. Cardinality(rows) \in Nat
  BY FS_CardinalityType DEF Numbered
<1>2. \A s \in rows : s.seq \in 1 .. Cardinality(rows)
  BY DEF Numbered
<1>3. Before(rows, r.seq) = {s \in rows : s.seq <= r.seq - 1}
  BY <1>1, <1>2 DEF Before
<1>4. r.seq - 1 \in 0 .. Cardinality(rows)
  BY <1>1, <1>2
<1>5. \A i \in 1 .. Cardinality(rows) : \E s \in rows : s.seq = i
  BY DEF Numbered
<1>6. r.seq = 1 => Before(rows, r.seq) = {}
  BY <1>1, <1>2 DEF Before
<1>7. r.seq # 1 => \E s \in rows : s.seq + 1 = r.seq
  BY <1>1, <1>2, <1>4, <1>5
<1>. QED
  BY <1>1, <1>2, <1>3, <1>4, <1>6, <1>7, RowsUpTo

\* The last of the rows before a row, and of all of them.
LEMMA TipOfNumbered ==
  ASSUME NEW rows, \A r, s \in rows : r.seq = s.seq => r = s, \A r \in rows : r.seq \in Nat,
         NEW last \in rows, \A r \in rows : r.seq <= last.seq
  PROVE  TipHash(rows) = last.hash
<1>1. \A r \in rows : (\A x \in rows : x.seq <= r.seq) => r = last
  <2>. SUFFICES ASSUME NEW r \in rows, \A x \in rows : x.seq <= r.seq PROVE r = last
    OBVIOUS
  <2>1. r.seq = last.seq
    OBVIOUS
  <2>. QED
    BY <2>1
<1>2. (CHOOSE r \in rows : \A x \in rows : x.seq <= r.seq) = last
  BY <1>1
<1>. QED
  BY <1>2 DEF TipHash

\* In a history, every row follows the one before it.
LEMMA HistoryIsLinked ==
  ASSUME NEW rows, History(rows), NEW r \in rows
  PROVE  Linked(rows, r)
<1>. DEFINE before == Before(rows, r.seq)
<1>1. /\ Numbered(rows) /\ Chained(rows) /\ \A s \in rows : s.seq \in Nat
  BY DEF History, Rows
<1>2. CASE r.seq = 1
  <2>1. before = {} /\ r.prev = Genesis
    BY <1>1, <1>2, RowsBefore DEF Chained
  <2>. QED
    BY <2>1 DEF Linked, TipHash
<1>3. CASE r.seq # 1
  <2>1. PICK s \in rows : s.seq + 1 = r.seq
    BY <1>1, <1>3, RowsBefore
  <2>2. s \in before /\ \A x \in before : x.seq <= s.seq
    BY <1>1, <2>1 DEF Before
  <2>3. \A x, y \in before : x.seq = y.seq => x = y
    BY <1>1 DEF Numbered, Before
  <2>4. \A x \in before : x.seq \in Nat
    BY <1>1 DEF Before
  <2>. HIDE DEF before
  <2>5. TipHash(before) = s.hash
    BY <2>2, <2>3, <2>4, TipOfNumbered
  <2>6. r.prev = s.hash
    BY <1>1, <2>1 DEF Chained
  <2>. QED
    BY <2>5, <2>6 DEF Linked, before
<1>. QED
  BY <1>2, <1>3

\* The hash of a row is not that of its content once it was edited, and only then.
LEMMA IntactIsNotForged ==
  ASSUME NEW r \in Rows, Hashed(r)
  PROVE  Intact(r) <=> r.event # Forged
<1>1. /\ r.hash = Append(r.prev, r.hash[r.seq]) /\ Len(r.hash) = r.seq
      /\ r.event \in {r.hash[r.seq], Forged} /\ r.prev \in Seq(Events) /\ r.hash \in Seq(Events)
      /\ r.seq \in Nat
  BY DEF Hashed, Rows
<1>2. r.seq \in 1 .. Len(r.hash)
  BY <1>1, AppendProperties
<1>3. r.hash[r.seq] \in Events /\ r.hash[r.seq] # Forged
  BY <1>1, <1>2, AuditAnchorsAssumption DEF Events, Forged
<1>4. r.event # Forged => Intact(r)
  BY <1>1 DEF Intact, EntryHash
<1>5. r.event = Forged => ~Intact(r)
  <2>. SUFFICES ASSUME r.hash = Append(r.prev, Forged) PROVE FALSE
    BY DEF Intact, EntryHash
  <2>1. Append(r.prev, Forged)[Len(r.prev) + 1] = Forged
    BY <1>1
  <2>2. Len(r.hash) = Len(r.prev) + 1
    BY <1>1, AppendProperties
  <2>. QED
    BY <1>1, <1>3, <2>1, <2>2
<1>. QED
  BY <1>4, <1>5

\* The only break of a history is the row that was edited.
LEMMA HistoryBreaks ==
  ASSUME NEW rows, History(rows)
  PROVE  Breaks(rows) = {r \in rows : r.event = Forged}
<1>1. \A r \in rows : Linked(rows, r)
  BY HistoryIsLinked
<1>2. \A r \in rows : Intact(r) <=> r.event # Forged
  BY IntactIsNotForged DEF History
<1>. QED
  BY <1>1, <1>2 DEF Breaks

\* The empty log.
LEMMA EmptyHistory == History({})
BY FS_EmptySet DEF History, Numbered, Chained, Agree, OneForged

\* The tip of a history is the row that bears the count.
LEMMA TipOfHistory ==
  ASSUME NEW rows, History(rows)
  PROVE  /\ Cardinality(rows) \in Nat
         /\ IF Cardinality(rows) = 0 THEN rows = {} /\ TipHash(rows) = Genesis
            ELSE \E r \in rows : r.seq = Cardinality(rows) /\ TipHash(rows) = r.hash
<1>1. Cardinality(rows) \in Nat
  BY FS_CardinalityType DEF History, Numbered
<1>2. CASE Cardinality(rows) = 0
  BY <1>1, <1>2, FS_EmptySet DEF History, Numbered, TipHash
<1>3. CASE Cardinality(rows) # 0
  <2>1. PICK r \in rows : r.seq = Cardinality(rows)
    BY <1>1, <1>3 DEF History, Numbered
  <2>2. \A s \in rows : s.seq <= r.seq /\ s.seq \in Nat
    BY <1>1, <2>1 DEF History, Numbered
  <2>3. TipHash(rows) = r.hash
    BY <2>1, <2>2, TipOfNumbered DEF History, Numbered
  <2>. QED
    BY <1>1, <1>3, <2>1, <2>3
<1>. QED
  BY <1>1, <1>2, <1>3

\* An entry that takes up the tip continues a history.
LEMMA ExtendHistory ==
  ASSUME NEW rows, History(rows), NEW event \in Events
  PROVE  LET new == Entry(Cardinality(rows) + 1, TipHash(rows), event)
         IN  /\ History(rows \union {new})
             /\ Cardinality(rows \union {new}) = Cardinality(rows) + 1
<1>. DEFINE n == Cardinality(rows)
            tip == TipHash(rows)
            new == Entry(n + 1, tip, event)
            all == rows \union {new}
<1>1. n \in Nat /\ \A r \in rows : r.seq \in 1 .. n /\ r \in Rows /\ Hashed(r)
  BY TipOfHistory DEF History, Numbered
<1>2. tip \in Seq(Events) /\ Len(tip) = n
  <2>1. CASE n = 0
    <3>1. tip = <<>>
      BY <2>1, TipOfHistory DEF Genesis
    <3>. QED
      BY <2>1, <3>1, EmptySeq
  <2>2. CASE n # 0
    <3>1. PICK r \in rows : r.seq = n /\ tip = r.hash
      BY <2>2, TipOfHistory
    <3>. QED
      BY <1>1, <3>1 DEF Hashed, Rows
  <2>. QED
    BY <2>1, <2>2
<1>3. /\ new.seq = n + 1 /\ new.prev = tip /\ new.hash = Append(tip, event) /\ new.event = event
  BY DEF Entry, EntryHash
<1>4. /\ new.hash \in Seq(Events) /\ Len(new.hash) = n + 1
      /\ \A i \in 1 .. n : new.hash[i] = tip[i]
      /\ new.hash[n + 1] = event
  <2>. HIDE DEF new, tip, n
  <2>1. /\ Append(tip, event) \in Seq(Events) /\ Len(Append(tip, event)) = Len(tip) + 1
        /\ \A i \in 1 .. Len(tip) : Append(tip, event)[i] = tip[i]
        /\ Append(tip, event)[Len(tip) + 1] = event
    BY <1>2, AppendProperties
  <2>. QED
    BY <1>2, <1>3, <2>1
<1>5. new \in Rows
  BY <1>1, <1>2, <1>4 DEF Entry, EntryHash, Rows
<1>6. Hashed(new)
  BY <1>3, <1>4 DEF Hashed
<1>7. n # 0 => \E r \in rows : r.seq = n /\ tip = r.hash
  BY TipOfHistory
<1>8. n = 0 => rows = {} /\ tip = Genesis
  BY TipOfHistory
<1>. HIDE DEF new, tip, n
<1>9. new \notin rows
  BY <1>1, <1>3
<1>10. IsFiniteSet(all) /\ Cardinality(all) = n + 1
  BY <1>9, FS_AddElement DEF History, Numbered, n
<1>11. Numbered(all)
  <2>1. {r.seq : r \in rows} = 1 .. n
    BY DEF History, Numbered, n
  <2>2. {r.seq : r \in all} = 1 .. n + 1
    BY <1>1, <1>3, <2>1
  <2>3. \A r, s \in all : r.seq = s.seq => r = s
    BY <1>1, <1>3 DEF History, Numbered
  <2>. QED
    BY <1>10, <2>2, <2>3 DEF Numbered
<1>12. Chained(all)
  <2>1. ASSUME NEW r \in rows, r.seq + 1 = new.seq
        PROVE  new.prev = r.hash
    <3>1. r.seq = n /\ n # 0
      BY <1>1, <1>3, <2>1
    <3>2. PICK s \in rows : s.seq = n /\ tip = s.hash
      BY <1>7, <3>1
    <3>. QED
      BY <1>3, <3>1, <3>2 DEF History, Numbered
  <2>2. \A s \in all : new.seq + 1 # s.seq
    BY <1>1, <1>3
  <2>3. new.seq = 1 => new.prev = Genesis
    BY <1>1, <1>3, <1>8
  <2>. QED
    BY <2>1, <2>2, <2>3 DEF History, Chained
<1>13. Agree(all)
  <2>1. ASSUME NEW r \in rows, NEW i \in 1 .. r.seq
        PROVE  r.hash[i] = new.hash[i]
    <3>1. n # 0 /\ i \in 1 .. n /\ r.seq <= n
      BY <1>1
    <3>2. PICK s \in rows : s.seq = n /\ tip = s.hash
      BY <1>7, <3>1
    <3>3. r.hash[i] = tip[i]
      BY <3>1, <3>2 DEF History, Agree
    <3>. QED
      BY <1>4, <3>1, <3>3
  <2>2. \A s \in rows : ~(new.seq <= s.seq)
    BY <1>1, <1>3
  <2>. QED
    BY <2>1, <2>2 DEF History, Agree
<1>14. OneForged(all)
  BY <1>3 DEF History, OneForged, Events, Forged
<1>15. History(all)
  BY <1>1, <1>5, <1>6, <1>11, <1>12, <1>13, <1>14 DEF History
<1>. QED
  BY <1>10, <1>15 DEF new, tip, n

\* An edit of one row leaves a history.
LEMMA EditHistory ==
  ASSUME NEW rows, History(rows), NEW r \in rows, \A s \in rows : s.event # Forged
  PROVE  LET edited == (rows \ {r}) \union {[r EXCEPT !.event = Forged]}
         IN  History(edited) /\ Cardinality(edited) = Cardinality(rows)
<1>. DEFINE forged == [r EXCEPT !.event = Forged]
            edited == (rows \ {r}) \union {forged}
<1>1. r \in Rows /\ Hashed(r)
  BY DEF History
<1>2. /\ forged \in Rows /\ forged.seq = r.seq /\ forged.event = Forged
      /\ forged.prev = r.prev /\ forged.hash = r.hash
  BY <1>1 DEF Rows
<1>. HIDE DEF forged
<1>3. forged \notin rows
  BY <1>2
<1>4. IsFiniteSet(edited) /\ Cardinality(edited) = Cardinality(rows)
  <2>1. IsFiniteSet(rows) /\ Cardinality(rows) \in Nat
    BY FS_CardinalityType DEF History, Numbered
  <2>2. IsFiniteSet(rows \ {r}) /\ Cardinality(rows \ {r}) = Cardinality(rows) - 1
    BY <2>1, FS_RemoveElement
  <2>. QED
    BY <1>3, <2>1, <2>2, FS_AddElement
<1>5. Numbered(edited)
  <2>1. {s.seq : s \in edited} = {s.seq : s \in rows}
    BY <1>2
  <2>2. \A s, t \in edited : s.seq = t.seq => s = t
    BY <1>2 DEF History, Numbered
  <2>. QED
    BY <1>4, <2>1, <2>2 DEF History, Numbered
<1>6. \A s \in edited : Hashed(s)
  BY <1>1, <1>2 DEF History, Hashed
<1>7. Chained(edited)
  BY <1>2 DEF History, Chained
<1>8. Agree(edited)
  BY <1>2 DEF History, Agree
<1>9. OneForged(edited)
  BY <1>2 DEF OneForged
<1>10. History(edited)
  BY <1>2, <1>5, <1>6, <1>7, <1>8, <1>9 DEF History
<1>. QED
  BY <1>4, <1>10 DEF forged

-----------------------------------------------------------------------------
(* The inductive invariant.                                                *)

Stored(rows) == History(rows) /\ Cardinality(rows) <= written

\* The rows of the log and of its copy are those of a history.
DatabaseInv == Stored(log) /\ Stored(backup.log)

\* An anchor has the number and the hash of a row of the log.
Anchored(anchor) == \E r \in log : r.seq = anchor.covers /\ r.hash = anchor.hash

\* While the database is not restored, all that is anchored is in it.
AnchoredInv ==
  ~restored =>
    /\ \A p \in Publishers : pc[p] # "idle" => Anchored(receipt[p].anchor)
    /\ \A i \in Readable : Anchored(file[i])

\* The anchors recorded as published, here and in the copy.
Recorded(rows) == \A i \in DOMAIN rows : ~rows[i].failed => VerifiesOnFile(rows[i])

\* While no crash has cut a line short, the file goes forward, and receipts, recorded or
\* about to be, name the line they were given for.
FileInv ==
  /\ ragged => file # <<>>
  /\ Readable = DOMAIN file =>
       /\ Increasing
       /\ Recorded(anchors) /\ Recorded(backup.anchors)
       /\ \A p \in Publishers : pc[p] = "published" => VerifiesOnFile(receipt[p])

IInv == TypeOK /\ DatabaseInv /\ AnchoredInv /\ FileInv

-----------------------------------------------------------------------------
(* What steps do to the file.                                              *)

\* A piece of text either joins a torn line, or is a line of its own.
LEMMA FileWithPiece ==
  ASSUME TypeOK, FileInv, NEW piece \in Anchors \union {Unparseable}, file' = FileWith(piece)
  PROVE  /\ file' \in Seq(Anchors \union {Unparseable}) /\ file' # <<>>
         /\ \A i \in Readable' : \/ i \in Readable /\ file'[i] = file[i]
                                 \/ file'[i] = piece
         /\ Readable' = DOMAIN file' =>
              /\ Readable = DOMAIN file /\ file' = Append(file, piece) /\ piece # Unparseable
<1>. DEFINE Lines == Anchors \union {Unparseable}
            n == Len(file)
<1>1. file \in Seq(Lines) /\ n \in Nat /\ DOMAIN file = 1 .. n
  BY LenProperties DEF TypeOK
<1>2. CASE ragged
  <2>1. n \in 1 .. n
    BY <1>1, <1>2, EmptySeq DEF FileInv
  <2>2. file' = [file EXCEPT ![n] = Unparseable]
    BY <1>2 DEF FileWith
  <2>3. /\ file' \in Seq(Lines) /\ Len(file') = n
        /\ \A j \in 1 .. n : file'[j] = IF j = n THEN Unparseable ELSE file[j]
    BY <1>1, <2>1, <2>2, ExceptSeq
  <2>4. DOMAIN file' = 1 .. n /\ file' # <<>>
    BY <2>1, <2>3, LenProperties, EmptySeq
  <2>. QED
    BY <1>1, <2>1, <2>3, <2>4 DEF Readable
<1>3. CASE ~ragged
  <2>1. file' = Append(file, piece)
    BY <1>3 DEF FileWith
  <2>2. /\ file' \in Seq(Lines) /\ Len(file') = n + 1 /\ file' # <<>>
        /\ \A j \in 1 .. n : file'[j] = file[j]
        /\ file'[n + 1] = piece
    BY <1>1, <2>1, AppendProperties
  <2>3. DOMAIN file' = 1 .. n + 1
    BY <2>2, LenProperties
  <2>. QED
    BY <1>1, <2>1, <2>2, <2>3 DEF Readable
<1>. QED
  BY <1>2, <1>3

\* A new last line that covers more than the one before keeps the file going forward,
\* and every receipt where it was.
LEMMA ForwardLine ==
  ASSUME TypeOK, NEW anchor \in Anchors, ~Refused(anchor), file' = Append(file, anchor),
         Readable = DOMAIN file, Increasing
  PROVE  /\ Increasing'
         /\ Len(file') \in DOMAIN file' /\ file'[Len(file')] = anchor
         /\ \A row : VerifiesOnFile(row) =>
              row.line \in DOMAIN file' /\ file'[row.line] = row.anchor
<1>. DEFINE Lines == Anchors \union {Unparseable}
            n == Len(file)
<1>1. file \in Seq(Lines) /\ n \in Nat /\ DOMAIN file = 1 .. n
  BY LenProperties DEF TypeOK
<1>2. /\ file' \in Seq(Lines) /\ Len(file') = n + 1
      /\ \A j \in 1 .. n : file'[j] = file[j]
      /\ file'[n + 1] = anchor
  BY <1>1, AppendProperties
<1>3. DOMAIN file' = 1 .. n + 1
  BY <1>2, LenProperties
<1>4. \A j \in 1 .. n : file[j] \in Anchors
  BY <1>1, ElementOfSeq DEF Readable
<1>5. \A j \in 1 .. n : file[j].covers \in Nat /\ file[j].covers < anchor.covers
  <2>. SUFFICES ASSUME NEW j \in 1 .. n
                PROVE  file[j].covers \in Nat /\ file[j].covers < anchor.covers
    OBVIOUS
  <2>1. n \in 1 .. n /\ file # <<>>
    BY <1>1
  <2>2. file[n] \in Anchors /\ file[n] # Unparseable
    BY <1>4, <2>1, UnparseableAssumption
  <2>3. ~(anchor.covers <= file[n].covers)
    BY <2>1, <2>2 DEF Refused
  <2>4. j = n \/ file[j].covers < file[n].covers
    <3>. HIDE DEF n, Lines
    <3>1. j \in Readable /\ n \in Readable
      BY <1>1, <2>1
    <3>2. j = n \/ j < n
      BY <1>1
    <3>. QED
      BY <3>1, <3>2 DEF Increasing
  <2>. QED
    BY <1>4, <2>1, <2>3, <2>4 DEF Anchors
<1>6. Increasing'
  BY <1>1, <1>2, <1>3, <1>5 DEF Increasing, Readable
<1>. QED
  BY <1>1, <1>2, <1>3, <1>6 DEF VerifiesOnFile

-----------------------------------------------------------------------------
(* The invariant.                                                          *)

LEMMA InitInvariant == Init => IInv
<1>. SUFFICES ASSUME Init PROVE IInv
  OBVIOUS
<1>1. DatabaseInv
  BY EmptyHistory, FS_EmptySet DEF Init, DatabaseInv, Stored
<1>2. file = <<>> /\ anchors = <<>> /\ backup = [log |-> {}, anchors |-> <<>>]
  BY DEF Init
<1>3. Readable = {} /\ DOMAIN anchors = {} /\ DOMAIN backup.anchors = {}
  BY <1>2 DEF Readable
<1>4. AnchoredInv /\ FileInv
  BY <1>2, <1>3 DEF Init, AnchoredInv, FileInv, Increasing, Recorded
<1>5. TypeOK
  <2>1. /\ <<>> \in Seq(AnchorRows) /\ <<>> \in Seq(Events)
        /\ <<>> \in Seq(Anchors \union {Unparseable})
    BY EmptySeq
  <2>2. NoReceipt \in Receipts
    BY <2>1 DEF NoReceipt, Receipts, Anchors, Genesis
  <2>3. log \union backup.log = {} /\ backup.anchors = <<>>
    BY DEF Init
  <2>4. receipt \in [Publishers -> Receipts]
    BY <2>2 DEF Init
  <2>5. written \in 0 .. MaxEntries /\ crashes \in 0 .. MaxCrashes
    BY AuditAnchorsAssumption DEF Init
  <2>6. /\ pc \in [Publishers -> {"idle", "read", "published", "refused"}]
        /\ \A p \in Publishers : receipt[p] = NoReceipt
        /\ ragged \in BOOLEAN /\ restored \in BOOLEAN
    BY DEF Init
  <2>. QED
    BY <1>2, <2>1, <2>3, <2>4, <2>5, <2>6 DEF TypeOK
<1>. QED
  BY <1>1, <1>4, <1>5 DEF IInv

LEMMA NextKeepsDatabase ==
  ASSUME IInv, [Next]_vars
  PROVE  DatabaseInv'
<1>. USE DEF IInv, DatabaseInv
<1>0. written \in Nat
  BY DEF TypeOK
<1>1. CASE WriteEntry
  <2>. DEFINE new == Entry(Cardinality(log) + 1, TipHash(log), written + 1)
  <2>1. /\ written' = written + 1 /\ written + 1 \in Events
        /\ log' = log \union {new} /\ backup' = backup
    BY <1>1, AuditAnchorsAssumption DEF WriteEntry, TypeOK, Events
  <2>2. History(log \union {new}) /\ Cardinality(log \union {new}) = Cardinality(log) + 1
    BY <2>1, ExtendHistory DEF Stored
  <2>3. Cardinality(log) \in Nat /\ Cardinality(backup.log) \in Nat
    BY TipOfHistory DEF Stored
  <2>. HIDE DEF new
  <2>. QED
    BY <1>0, <2>1, <2>2, <2>3 DEF Stored
<1>2. CASE Edit
  <2>1. PICK r \in log : log' = (log \ {r}) \union {[r EXCEPT !.event = Forged]}
    BY <1>2 DEF Edit
  <2>2. History(log') /\ Cardinality(log') = Cardinality(log)
    BY <1>2, <2>1, EditHistory DEF Edit, Stored
  <2>. QED
    BY <1>2, <2>2 DEF Edit, Stored
<1>3. CASE BackUp \/ Restore
  BY <1>3 DEF BackUp, Restore, Stored
<1>4. CASE UNCHANGED <<log, backup, written>>
  BY <1>4 DEF Stored
<1>. QED
  BY <1>1, <1>2, <1>3, <1>4 DEF Next, vars, BeginPublish, PublishLine, RefuseLine, Record, Crash

\* What becomes of a receipt: it is given for the tip, or for the line, or is kept.
ReceiptStep(p) ==
  \/ receipt'[p] = receipt[p] /\ (pc[p] = "idle" => pc'[p] = "idle")
                             /\ (pc'[p] = "published" => pc[p] = "published")
  \/ pc'[p] = "idle" /\ receipt'[p] = NoReceipt

LEMMA FinishSteps ==
  ASSUME TypeOK, NEW p \in Publishers, Finish(p)
  PROVE  /\ pc' \in [Publishers -> {"idle", "read", "published", "refused"}]
         /\ receipt' \in [Publishers -> Receipts]
         /\ \A q \in Publishers : ReceiptStep(q)
         /\ \A q \in Publishers : pc'[q] = "idle" => receipt'[q] = NoReceipt
<1>1. NoReceipt \in Receipts
  BY EmptySeq DEF NoReceipt, Receipts, Anchors, Genesis
<1>. QED
  BY <1>1 DEF TypeOK, Finish, ReceiptStep

\* What a publish begins with is in the log.
LEMMA BeginsAnchored ==
  ASSUME IInv, NEW p \in Publishers, BeginPublish(p)
  PROVE  /\ receipt'[p].anchor \in Anchors /\ Anchored(receipt'[p].anchor)
         /\ receipt' \in [Publishers -> Receipts] /\ pc'[p] = "read"
         /\ \A q \in Publishers \ {p} : receipt'[q] = receipt[q] /\ pc'[q] = pc[q]
<1>1. PICK tip \in log :
        receipt' = [receipt EXCEPT ![p].anchor = [covers |-> tip.seq, hash |-> tip.hash]]
  BY DEF BeginPublish
<1>2. tip.seq \in Nat /\ tip.hash \in Seq(Events)
  BY DEF IInv, DatabaseInv, Stored, History, Rows
<1>3. [covers |-> tip.seq, hash |-> tip.hash] \in Anchors
  BY <1>2 DEF Anchors
<1>4. receipt[p] \in Receipts
  BY DEF IInv, TypeOK
<1>5. receipt'[p].anchor = [covers |-> tip.seq, hash |-> tip.hash]
  BY <1>1, <1>4 DEF IInv, TypeOK, Receipts
<1>6. receipt' \in [Publishers -> Receipts]
  BY <1>1, <1>3 DEF IInv, TypeOK, Receipts
<1>7. Anchored(receipt'[p].anchor)
  BY <1>5 DEF Anchored
<1>. QED
  BY <1>1, <1>3, <1>5, <1>6, <1>7 DEF BeginPublish, IInv, TypeOK

LEMMA NextKeepsAnchored ==
  ASSUME IInv, [Next]_vars
  PROVE  AnchoredInv'
<1>. USE DEF IInv
<1>. SUFFICES ASSUME ~restored' PROVE
        /\ \A p \in Publishers : pc'[p] # "idle" => Anchored(receipt[p].anchor)'
        /\ \A i \in Readable' : Anchored(file[i])'
  BY DEF AnchoredInv
<1>1. ~restored
  BY DEF Next, WriteEntry, Edit, BackUp, Restore, BeginPublish, PublishLine, RefuseLine, Record,
         Crash, vars
<1>2. /\ \A p \in Publishers : pc[p] # "idle" => Anchored(receipt[p].anchor)
      /\ \A i \in Readable : Anchored(file[i])
  BY <1>1 DEF AnchoredInv
<1>3. CASE WriteEntry \/ Edit
  <2>1. \A r \in log : \E s \in log' : s.seq = r.seq /\ s.hash = r.hash
    <3>1. CASE WriteEntry
      BY <3>1 DEF WriteEntry
    <3>2. CASE Edit
      <4>1. PICK r \in log : log' = (log \ {r}) \union {[r EXCEPT !.event = Forged]}
        BY <3>2 DEF Edit
      <4>2. r \in Rows
        BY DEF DatabaseInv, Stored, History
      <4>3. [r EXCEPT !.event = Forged].seq = r.seq /\ [r EXCEPT !.event = Forged].hash = r.hash
        BY <4>2 DEF Rows
      <4>. QED
        BY <4>1, <4>3
    <3>. QED
      BY <1>3, <3>1, <3>2
  <2>2. UNCHANGED <<file, pc, receipt>>
    BY <1>3 DEF WriteEntry, Edit, fileVars, publisherVars
  <2>. QED
    BY <1>2, <2>1, <2>2 DEF Anchored, Readable
<1>4. ASSUME UNCHANGED <<log, file>>, \A p \in Publishers : ReceiptStep(p)
      PROVE  AnchoredInv'
  BY <1>2, <1>4 DEF AnchoredInv, Anchored, Readable, ReceiptStep
<1>5. ASSUME NEW p \in Publishers, BeginPublish(p)
      PROVE  AnchoredInv'
  <2>1. UNCHANGED <<log, file>>
    BY <1>5 DEF BeginPublish, fileVars
  <2>2. Anchored(receipt'[p].anchor)
        /\ \A q \in Publishers \ {p} : receipt'[q] = receipt[q] /\ pc'[q] = pc[q]
    BY <1>5, BeginsAnchored
  <2>. QED
    BY <1>2, <2>1, <2>2 DEF AnchoredInv, Anchored, Readable
<1>6. ASSUME NEW p \in Publishers, pc[p] = "read", UNCHANGED log,
             NEW piece \in {receipt[p].anchor, Unparseable}, file' = FileWith(piece),
             \A q \in Publishers : pc'[q] # "idle" =>
               receipt'[q].anchor = receipt[q].anchor /\ pc[q] # "idle"
      PROVE  AnchoredInv'
  <2>1. receipt[p].anchor \in Anchors /\ Anchored(receipt[p].anchor)
    BY <1>2, <1>6 DEF TypeOK, Receipts
  <2>2. \A i \in Readable' : \/ i \in Readable /\ file'[i] = file[i]
                             \/ file'[i] = piece
    BY <1>6, <2>1, FileWithPiece
  <2>3. \A i \in Readable' : file'[i] # Unparseable
    BY DEF Readable
  <2>4. \A i \in Readable' : Anchored(file'[i])
    BY <1>2, <1>6, <2>1, <2>2, <2>3
  <2>. QED
    BY <1>2, <1>6, <2>4 DEF AnchoredInv, Anchored
<1>7. ASSUME NEW p \in Publishers, PublishLine(p)
      PROVE  AnchoredInv'
  <2>1. \A q \in Publishers : pc'[q] # "idle" =>
          receipt'[q].anchor = receipt[q].anchor /\ pc[q] # "idle"
    BY <1>7 DEF PublishLine, TypeOK, Receipts
  <2>. QED
    BY <1>6, <1>7, <2>1 DEF PublishLine
<1>8. ASSUME NEW p \in Publishers, Crash(p)
      PROVE  AnchoredInv'
  <2>1. \A q \in Publishers : ReceiptStep(q)
    BY <1>8, FinishSteps DEF Crash
  <2>2. \A q \in Publishers : pc'[q] # "idle" =>
          receipt'[q].anchor = receipt[q].anchor /\ pc[q] # "idle"
    BY <2>1 DEF ReceiptStep
  <2>. QED
    BY <1>4, <1>6, <1>8, <2>1, <2>2 DEF Crash, fileVars
<1>9. ASSUME NEW p \in Publishers, RefuseLine(p)
      PROVE  \A q \in Publishers : ReceiptStep(q)
  BY <1>9 DEF RefuseLine, ReceiptStep, TypeOK
<1>10. ASSUME NEW p \in Publishers, Record(p)
       PROVE  \A q \in Publishers : ReceiptStep(q)
  BY <1>10, FinishSteps DEF Record
<1>11. ASSUME BackUp \/ UNCHANGED vars
       PROVE  \A q \in Publishers : ReceiptStep(q)
  BY <1>11 DEF BackUp, vars, publisherVars, ReceiptStep
<1>12. ASSUME Restore
       PROVE  FALSE
  BY <1>12 DEF Restore
<1>13. CASE AnchoredInv'
  BY <1>13 DEF AnchoredInv
<1>. QED
  BY <1>3, <1>4, <1>5, <1>7, <1>8, <1>9, <1>10, <1>11, <1>12, <1>13
     DEF Next, RefuseLine, Record, BackUp, vars, fileVars

\* The rows of a database that holds no more than was written.
LEMMA StoredIsTypedNext ==
  ASSUME DatabaseInv', written' \in 0 .. MaxEntries
  PROVE  \A r \in log' \union backup'.log :
           r.seq \in Events /\ r.event \in Events \union {Forged}
           /\ r.prev \in Seq(Events) /\ r.hash \in Seq(Events)
<1>1. ASSUME NEW rows, History(rows), Cardinality(rows) <= written'
      PROVE  \A r \in rows : r.seq \in Events /\ r.event \in Events \union {Forged}
                            /\ r.prev \in Seq(Events) /\ r.hash \in Seq(Events)
  <2>1. Cardinality(rows) \in Nat
    BY <1>1, TipOfHistory
  <2>2. \A r \in rows : r \in Rows /\ r.seq \in 1 .. Cardinality(rows)
    BY <1>1 DEF History, Numbered
  <2>. QED
    BY <1>1, <2>1, <2>2, AuditAnchorsAssumption DEF Rows, Events
<1>. QED
  BY <1>1 DEF DatabaseInv, Stored

LEMMA NextKeepsTypes ==
  ASSUME IInv, DatabaseInv', [Next]_vars
  PROVE  TypeOK'
<1>. USE DEF IInv
<1>1. written' \in 0 .. MaxEntries /\ restored' \in BOOLEAN /\ crashes' \in 0 .. MaxCrashes
  <2>1. /\ written' = written \/ (written < MaxEntries /\ written' = written + 1)
        /\ crashes' = crashes \/ (crashes < MaxCrashes /\ crashes' = crashes + 1)
        /\ restored' \in {restored, TRUE}
    BY DEF Next, vars, WriteEntry, Edit, BackUp, Restore, BeginPublish, PublishLine, RefuseLine,
           Record, Crash
  <2>2. written \in 0 .. MaxEntries /\ restored \in BOOLEAN /\ crashes \in 0 .. MaxCrashes
    BY DEF TypeOK
  <2>3. restored' \in BOOLEAN
    BY <2>1, <2>2
  <2>. QED
    BY <2>1, <2>2, <2>3, AuditAnchorsAssumption
<1>2. anchors' \in Seq(AnchorRows) /\ backup'.anchors \in Seq(AnchorRows)
  <2>1. ASSUME NEW p \in Publishers, Record(p)
        PROVE  anchors' \in Seq(AnchorRows) /\ backup' = backup
    <3>1. [anchor |-> receipt[p].anchor, line |-> receipt[p].line, failed |-> pc[p] = "refused"]
            \in AnchorRows
      BY DEF TypeOK, Receipts, AnchorRows
    <3>. QED
      BY <2>1, <3>1, AppendProperties DEF Record, TypeOK
  <2>2. UNCHANGED <<anchors, backup>> \/ BackUp \/ Restore \/ \E p \in Publishers : Record(p)
    BY DEF Next, vars, WriteEntry, Edit, BeginPublish, PublishLine, RefuseLine, Crash
  <2>. QED
    BY <2>1, <2>2 DEF BackUp, Restore, TypeOK
<1>3. file' \in Seq(Anchors \union {Unparseable}) /\ ragged' \in BOOLEAN
  <2>1. ASSUME NEW p \in Publishers, NEW piece \in {receipt[p].anchor, Unparseable},
               file' = FileWith(piece)
        PROVE  file' \in Seq(Anchors \union {Unparseable})
    <3>1. piece \in Anchors \union {Unparseable}
      BY DEF TypeOK, Receipts
    <3>. QED
      BY <2>1, <3>1, FileWithPiece
  <2>2. \/ UNCHANGED <<file, ragged>>
        \/ \E p \in Publishers : /\ \E piece \in {receipt[p].anchor, Unparseable} :
                                      file' = FileWith(piece)
                                 /\ ragged' \in BOOLEAN
    BY DEF Next, vars, fileVars, WriteEntry, Edit, BackUp, Restore, BeginPublish, PublishLine,
           RefuseLine, Record, Crash
  <2>. QED
    BY <2>1, <2>2 DEF TypeOK
<1>. DEFINE Typed ==
       /\ pc' \in [Publishers -> {"idle", "read", "published", "refused"}]
       /\ receipt' \in [Publishers -> Receipts]
       /\ \A p \in Publishers : pc'[p] = "idle" => receipt'[p] = NoReceipt
<1>4. Typed
  <2>1. ASSUME NEW p \in Publishers, BeginPublish(p) PROVE Typed
    <3>1. pc' = [pc EXCEPT ![p] = "read"]
      BY <2>1 DEF BeginPublish
    <3>. QED
      BY <2>1, <3>1, BeginsAnchored DEF TypeOK
  <2>2. ASSUME NEW p \in Publishers, PublishLine(p) PROVE Typed
    <3>1. file' \in Seq(Anchors \union {Unparseable}) /\ Len(file') \in Nat
      BY <1>3, LenProperties
    <3>2. receipt' \in [Publishers -> Receipts]
      BY <2>2, <3>1 DEF PublishLine, TypeOK, Receipts
    <3>. QED
      BY <2>2, <3>2 DEF PublishLine, TypeOK
  <2>3. ASSUME NEW p \in Publishers, Record(p) \/ Crash(p) PROVE Typed
    BY <2>3, FinishSteps DEF Record, Crash
  <2>4. ASSUME NEW p \in Publishers, RefuseLine(p) PROVE Typed
    BY <2>4 DEF RefuseLine, TypeOK
  <2>5. CASE UNCHANGED publisherVars
    BY <2>5 DEF publisherVars, TypeOK
  <2>. QED
    BY <2>1, <2>2, <2>3, <2>4, <2>5
       DEF Next, vars, publisherVars, WriteEntry, Edit, BackUp, Restore
<1>. QED
  BY <1>1, <1>2, <1>3, <1>4, StoredIsTypedNext DEF TypeOK

LEMMA NextKeepsFile ==
  ASSUME IInv, TypeOK', [Next]_vars
  PROVE  FileInv'
<1>. USE DEF IInv
<1>1. ASSUME UNCHANGED fileVars,
             anchors' \in {anchors, backup.anchors}, backup'.anchors \in {anchors, backup.anchors},
             \A q \in Publishers : pc'[q] = "published" =>
               pc[q] = "published" /\ receipt'[q] = receipt[q]
      PROVE  FileInv'
  <2>1. file' = file /\ ragged' = ragged
    BY <1>1 DEF fileVars
  <2>2. Readable' = Readable /\ (Increasing => Increasing')
    BY <2>1 DEF Readable, Increasing
  <2>3. Recorded(anchors) /\ Recorded(backup.anchors) =>
          Recorded(anchors)' /\ Recorded(backup.anchors)'
    BY <1>1, <2>1 DEF Recorded, VerifiesOnFile
  <2>. QED
    BY <1>1, <2>1, <2>2, <2>3 DEF FileInv, VerifiesOnFile
<1>2. ASSUME NEW p \in Publishers, Record(p)
      PROVE  FileInv'
  <2>. DEFINE row == [anchor |-> receipt[p].anchor, line |-> receipt[p].line,
                      failed |-> pc[p] = "refused"]
  <2>1. file' = file /\ ragged' = ragged /\ backup' = backup /\ anchors' = Append(anchors, row)
    BY <1>2 DEF Record, fileVars
  <2>2. Readable' = Readable /\ (Increasing => Increasing')
    BY <2>1 DEF Readable, Increasing
  <2>3. \A q \in Publishers : ReceiptStep(q)
    BY <1>2, FinishSteps DEF Record
  <2>4. pc'[p] = "idle" /\ ~row.failed => pc[p] = "published"
    BY <1>2 DEF Record
  <2>5. (pc[p] = "published" => VerifiesOnFile(receipt[p])) => (~row.failed => VerifiesOnFile(row))
    BY <1>2 DEF Record, VerifiesOnFile
  <2>6. anchors \in Seq(AnchorRows) /\ row \in AnchorRows
    BY DEF TypeOK, Receipts, AnchorRows
  <2>. HIDE DEF row
  <2>7. /\ DOMAIN anchors' = 1 .. Len(anchors) + 1 /\ DOMAIN anchors = 1 .. Len(anchors)
        /\ Len(anchors) \in Nat
        /\ \A i \in 1 .. Len(anchors) : anchors'[i] = anchors[i]
        /\ anchors'[Len(anchors) + 1] = row
    <3>1. Append(anchors, row) \in Seq(AnchorRows) /\ Len(Append(anchors, row)) = Len(anchors) + 1
      BY <2>6, AppendProperties
    <3>. QED
      BY <2>1, <2>6, <3>1, AppendProperties, LenProperties
  <2>8. \A i \in DOMAIN anchors' : i \in DOMAIN anchors \/ i = Len(anchors) + 1
    BY <2>7
  <2>9. Recorded(anchors) /\ (~row.failed => VerifiesOnFile(row)) => Recorded(anchors)'
    BY <2>1, <2>7, <2>8 DEF Recorded, VerifiesOnFile
  <2>10. Recorded(backup.anchors) => Recorded(backup.anchors)'
    BY <2>1 DEF Recorded, VerifiesOnFile
  <2>11. (\A q \in Publishers : pc[q] = "published" => VerifiesOnFile(receipt[q])) =>
           \A q \in Publishers : pc'[q] = "published" => VerifiesOnFile(receipt[q])'
    BY <2>1, <2>3 DEF ReceiptStep, VerifiesOnFile
  <2>. QED
    BY <2>1, <2>2, <2>5, <2>9, <2>10, <2>11 DEF FileInv
<1>3. ASSUME NEW p \in Publishers, pc[p] = "read", ~Refused(receipt[p].anchor),
             NEW piece \in {receipt[p].anchor, Unparseable}, file' = FileWith(piece),
             UNCHANGED <<anchors, backup>>,
             \A q \in Publishers : pc'[q] = "published" =>
               \/ pc[q] = "published" /\ receipt'[q] = receipt[q]
               \/ piece # Unparseable /\ receipt'[q].line = Len(file') /\ receipt'[q].anchor = piece
      PROVE  FileInv'
  <2>. DEFINE anchor == receipt[p].anchor
  <2>1. anchor \in Anchors /\ piece \in Anchors \union {Unparseable}
    BY <1>3 DEF TypeOK, Receipts
  <2>2. /\ file' # <<>>
        /\ Readable' = DOMAIN file' =>
             Readable = DOMAIN file /\ file' = Append(file, piece) /\ piece # Unparseable
    BY <1>3, <2>1, FileWithPiece
  <2>3. ASSUME Readable' = DOMAIN file'
        PROVE  /\ Increasing'
               /\ Recorded(anchors)' /\ Recorded(backup.anchors)'
               /\ \A q \in Publishers : pc'[q] = "published" => VerifiesOnFile(receipt[q])'
    <3>1. Readable = DOMAIN file /\ file' = Append(file, anchor) /\ piece = anchor
      BY <1>3, <2>2, <2>3
    <3>2. /\ Increasing /\ Recorded(anchors) /\ Recorded(backup.anchors)
          /\ \A q \in Publishers : pc[q] = "published" => VerifiesOnFile(receipt[q])
      BY <3>1 DEF FileInv
    <3>3. /\ Increasing'
          /\ Len(file') \in DOMAIN file' /\ file'[Len(file')] = anchor
          /\ \A row : VerifiesOnFile(row) =>
               row.line \in DOMAIN file' /\ file'[row.line] = row.anchor
      BY <1>3, <2>1, <3>1, <3>2, ForwardLine
    <3>. HIDE DEF anchor
    <3>4. Recorded(anchors)' /\ Recorded(backup.anchors)'
      BY <1>3, <3>2, <3>3 DEF Recorded, VerifiesOnFile
    <3>5. \A q \in Publishers : pc'[q] = "published" => VerifiesOnFile(receipt[q])'
      BY <1>3, <3>1, <3>2, <3>3 DEF VerifiesOnFile
    <3>. QED
      BY <3>3, <3>4, <3>5
  <2>. QED
    BY <2>2, <2>3 DEF FileInv
<1>4. ASSUME NEW p \in Publishers, PublishLine(p)
      PROVE  FileInv'
  <2>1. \A q \in Publishers : pc'[q] = "published" =>
          \/ pc[q] = "published" /\ receipt'[q] = receipt[q]
          \/ receipt'[q].line = Len(file') /\ receipt'[q].anchor = receipt[p].anchor
    BY <1>4 DEF PublishLine, TypeOK, Receipts
  <2>2. receipt[p].anchor # Unparseable
    BY UnparseableAssumption DEF TypeOK, Receipts
  <2>. QED
    BY <1>3, <1>4, <2>1, <2>2 DEF PublishLine
<1>5. ASSUME NEW p \in Publishers, Crash(p)
      PROVE  FileInv'
  <2>1. \A q \in Publishers : ReceiptStep(q)
    BY <1>5, FinishSteps DEF Crash
  <2>2. \A q \in Publishers : pc'[q] = "published" =>
          pc[q] = "published" /\ receipt'[q] = receipt[q]
    BY <2>1 DEF ReceiptStep
  <2>. QED
    BY <1>1, <1>3, <1>5, <2>2 DEF Crash
<1>6. ASSUME NEW p \in Publishers, BeginPublish(p)
      PROVE  FileInv'
  <2>1. \A q \in Publishers : pc'[q] = "published" =>
          pc[q] = "published" /\ receipt'[q] = receipt[q]
    BY <1>6, BeginsAnchored
  <2>. QED
    BY <1>1, <1>6, <2>1 DEF BeginPublish
<1>7. ASSUME NEW p \in Publishers, RefuseLine(p)
      PROVE  FileInv'
  <2>1. \A q \in Publishers : pc'[q] = "published" =>
          pc[q] = "published" /\ receipt'[q] = receipt[q]
    BY <1>7 DEF RefuseLine, TypeOK
  <2>. QED
    BY <1>1, <1>7, <2>1 DEF RefuseLine
<1>8. CASE WriteEntry \/ Edit \/ BackUp \/ Restore \/ UNCHANGED vars
  <2>1. UNCHANGED <<file, ragged, pc, receipt>>
    BY <1>8 DEF WriteEntry, Edit, BackUp, Restore, vars, fileVars, publisherVars
  <2>2. anchors' \in {anchors, backup.anchors} /\ backup'.anchors \in {anchors, backup.anchors}
    BY <1>8 DEF WriteEntry, Edit, BackUp, Restore, vars
  <2>. QED
    BY <1>1, <2>1, <2>2 DEF fileVars
<1>. QED
  BY <1>2, <1>4, <1>5, <1>6, <1>7, <1>8 DEF Next

\* In every reachable state the database and its copy are histories, what is anchored is
\* in the database unless that was restored, and receipts name their lines; the types of
\* TypeOK hold.
THEOREM Invariance == Spec => []IInv
<1>1. IInv /\ [Next]_vars => IInv'
  BY NextKeepsDatabase, NextKeepsTypes, NextKeepsAnchored, NextKeepsFile DEF IInv
<1>. QED
  BY <1>1, InitInvariant, PTL DEF Spec

-----------------------------------------------------------------------------
(* The file.                                                               *)

\* LocalFileAnchor.publish refuses what does not go past the last line, so publishers
\* that meet, die after their line or come back with an older database never make the
\* file go back, as long as no crash has cut a line short.
THEOREM FileOnlyGoesForward == Spec => []FileGoesForward
<1>1. IInv => FileGoesForward
  BY DEF IInv, FileInv, FileGoesForward
<1>. QED
  BY <1>1, Invariance, PTL

\* Under the same condition each row of audit_anchors that is not a failure, restored or
\* not, names the line where its anchor is.
THEOREM ReceiptsAreOnFile == Spec => []RecordedIsOnFile
<1>1. IInv => RecordedIsOnFile
  BY DEF IInv, FileInv, Recorded, RecordedIsOnFile
<1>. QED
  BY <1>1, Invariance, PTL

-----------------------------------------------------------------------------
(* The database.                                                           *)

\* list_range with a limit reads the rows up to a number.
LEMMA FirstRowsOfHistory ==
  ASSUME History(log), NEW m \in Nat
  PROVE  FirstRows(m) = {r \in log : r.seq <= m}
<1>1. ASSUME NEW r \in log
      PROVE  Cardinality(Before(log, r.seq)) < m <=> r.seq <= m
  <2>1. r.seq \in Nat /\ Cardinality(Before(log, r.seq)) = r.seq - 1
    BY RowsBefore DEF History, Rows
  <2>. QED
    BY <2>1
<1>. QED
  BY <1>1 DEF FirstRows

\* An anchor that verifies, also after an edit or a restore, is the hash of exactly the
\* events the database holds up to it.
THEOREM VerifiedAnchorPinsHistory == Spec => []AnchorPinsHistory
<1>1. ASSUME IInv, NEW i \in Readable, VerifiesAgainstDatabase(file[i])
      PROVE  /\ \A r \in FirstRows(file[i].covers) : r.event = file[i].hash[r.seq]
             /\ Cardinality(FirstRows(file[i].covers)) = Len(file[i].hash)
  <2>. DEFINE m == file[i].covers
              entries == FirstRows(m)
  <2>1. History(log) /\ Numbered(log)
    BY <1>1 DEF IInv, DatabaseInv, Stored, History
  <2>2. PICK last \in entries : /\ last.seq = m /\ Verifies(entries) /\ last.hash = file[i].hash
                                /\ \A r \in entries : r.seq <= last.seq
    BY <1>1 DEF VerifiesAgainstDatabase
  <2>. HIDE DEF m
  <2>3. last \in log /\ last.seq \in 1 .. Cardinality(log) /\ Cardinality(log) \in Nat
    BY <2>1, <2>2, RowsBefore DEF FirstRows
  <2>4. entries = {r \in log : r.seq <= m}
    BY <2>1, <2>2, <2>3, FirstRowsOfHistory
  <2>. HIDE DEF entries
  <2>5. ASSUME NEW r \in entries
        PROVE  r.event = last.hash[r.seq]
    <3>1. r \in log /\ r.seq \in 1 .. Cardinality(log) /\ r.seq <= last.seq /\ Hashed(r)
      BY <2>1, <2>2, <2>4, RowsBefore DEF History
    <3>2. r.hash[r.seq] = last.hash[r.seq]
      BY <2>1, <2>3, <3>1 DEF History, Agree
    <3>3. r.event # Forged
      <4>1. r \in Rows /\ r.hash \in Seq(Events) /\ r.prev \in Seq(Events)
        BY <2>1, <3>1 DEF History, Rows
      <4>. QED
        BY <2>1, <2>2, <3>1, <4>1, IntactIsNotForged DEF Verifies
    <3>. QED
      BY <3>1, <3>2, <3>3 DEF Hashed
  <2>6. Cardinality(entries) = m
    BY <2>1, <2>2, <2>3, <2>4, RowsUpTo
  <2>7. Len(last.hash) = m
    BY <2>1, <2>2, <2>3 DEF History, Hashed
  <2>. QED
    BY <2>2, <2>5, <2>6, <2>7 DEF entries, m
<1>2. IInv => AnchorPinsHistory
  BY <1>1 DEF AnchorPinsHistory
<1>. QED
  BY <1>2, Invariance, PTL

\* An anchor that was published keeps verifying while nobody edits or restores the
\* database: the verification raises no false alarm.
THEOREM NoAlarmWithoutTampering == Spec => []NoFalseAlarm
<1>1. ASSUME IInv, ~restored, \A r \in log : r.event # Forged, NEW i \in Readable
      PROVE  VerifiesAgainstDatabase(file[i])
  <2>. DEFINE m == file[i].covers
              entries == FirstRows(m)
  <2>1. History(log) /\ Numbered(log)
    BY <1>1 DEF IInv, DatabaseInv, Stored, History
  <2>2. PICK last \in log : last.seq = m /\ last.hash = file[i].hash
    BY <1>1 DEF IInv, AnchoredInv, Anchored
  <2>. HIDE DEF m
  <2>3. m \in Nat /\ last \in Rows
    BY <2>1, <2>2 DEF History, Rows
  <2>4. entries = {r \in log : r.seq <= m}
    BY <2>1, <2>3, FirstRowsOfHistory
  <2>. HIDE DEF entries
  <2>5. last \in entries /\ \A r \in entries : r.seq <= last.seq
    BY <2>2, <2>3, <2>4
  <2>6. ASSUME NEW r \in entries
        PROVE  Linked(entries, r) /\ Intact(r)
    <3>1. r \in log /\ r \in Rows /\ r.seq <= m
      BY <2>1, <2>4 DEF History
    <3>2. Before(entries, r.seq) = Before(log, r.seq)
      <4>1. \A s \in log : s.seq \in Nat /\ (s.seq < r.seq => s.seq <= m)
        BY <2>1, <2>3, <3>1 DEF History, Rows
      <4>. QED
        BY <2>4, <4>1 DEF Before
    <3>3. Linked(log, r)
      BY <2>1, <3>1, HistoryIsLinked
    <3>4. r \notin Breaks(log)
      BY <1>1, <2>1, <3>1, HistoryBreaks
    <3>. QED
      BY <3>1, <3>2, <3>3, <3>4 DEF Linked, Breaks
  <2>. QED
    BY <2>2, <2>5, <2>6 DEF VerifiesAgainstDatabase, Verifies, entries, m
<1>2. IInv => NoFalseAlarm
  BY <1>1 DEF NoFalseAlarm
<1>. QED
  BY <1>2, Invariance, PTL

\* verify_chain stops at the row that was edited and at no other, however many entries
\* were written behind it (AC-22).
THEOREM EditIsTheOnlyBreak == Spec => []EditIsLocated
<1>1. ASSUME IInv, NEW edited \in log, edited.event = Forged
      PROVE  edited \in Breaks(log) /\ \A r \in Breaks(log) : edited.seq <= r.seq
  <2>1. History(log)
    BY <1>1 DEF IInv, DatabaseInv, Stored
  <2>2. Breaks(log) = {r \in log : r.event = Forged}
    BY <2>1, HistoryBreaks
  <2>3. \A r \in Breaks(log) : r = edited
    BY <1>1, <2>1, <2>2 DEF History, OneForged
  <2>4. edited.seq \in Nat
    BY <2>1 DEF History, Rows
  <2>. QED
    BY <1>1, <2>2, <2>3, <2>4
<1>2. IInv => EditIsLocated
  BY <1>1 DEF EditIsLocated
<1>. QED
  BY <1>2, Invariance, PTL
=============================================================================
