---------------------------- MODULE AuditAnchors ----------------------------
(***************************************************************************)
(* Anchoring the audit log outside the database: publish_anchor reads the  *)
(* tip of the chain, appends a signed line to the anchor file and records  *)
(* the receipt in audit_anchors.  The file and the database are two        *)
(* stores, so a crash can separate them, two publishers can meet on them,  *)
(* and the database can be edited or restored under the file.              *)
(*                                                                         *)
(* Entries are appended as on SQLite (see AuditLog): one at a time, with   *)
(* no gap.  A signature stands for what it signs: a line that parses is    *)
(* an anchor that was published.                                           *)
(***************************************************************************)
EXTENDS AuditChain

CONSTANTS
  Publishers,    \* concurrent runs of "anchor publish"
  Unparseable,   \* a line of the file that is not JSON
  MaxEntries,    \* bound on the entries ever written
  MaxRows,       \* bound on audit_anchors when a publish begins
  MaxCrashes     \* bound on the crashes

ASSUME AuditAnchorsAssumption ==
  /\ MaxEntries \in Nat /\ MaxRows \in Nat /\ MaxCrashes \in Nat

VARIABLES
  log,        \* the rows of audit_log
  anchors,    \* the rows of audit_anchors, in the order of published_at
  backup,     \* a copy of the database
  file,       \* the lines of the anchor file
  ragged,     \* does the file end without a newline?
  pc,         \* "idle", "read", "published" or "refused"
  receipt,    \* what each publisher is anchoring, and the line its receipt names
  written,    \* entries written so far
  restored,   \* has the database been restored?
  crashes

vars == <<log, anchors, backup, file, ragged, pc, receipt, written, restored, crashes>>

Events == 1 .. MaxEntries

\* The content of a row that somebody changed in place.
Forged == 0

Anchors == [covers : Nat, hash : Seq(Events)]

ASSUME UnparseableAssumption == Unparseable \notin Anchors

NoReceipt == [anchor |-> [covers |-> 0, hash |-> Genesis], line |-> 0]
Receipts == [anchor : Anchors, line : Nat]
AnchorRows == [anchor : Anchors, line : Nat, failed : BOOLEAN]

\* Besides the types: a publisher that is not publishing holds nothing.
TypeOK ==
  /\ \A r \in log \union backup.log :
       r.seq \in Events /\ r.event \in Events \union {Forged}
       /\ r.prev \in Seq(Events) /\ r.hash \in Seq(Events)
  /\ anchors \in Seq(AnchorRows) /\ backup.anchors \in Seq(AnchorRows)
  /\ file \in Seq(Anchors \union {Unparseable}) /\ ragged \in BOOLEAN
  /\ pc \in [Publishers -> {"idle", "read", "published", "refused"}]
  /\ receipt \in [Publishers -> Receipts]
  /\ \A p \in Publishers : pc[p] = "idle" => receipt[p] = NoReceipt
  /\ written \in 0 .. MaxEntries /\ restored \in BOOLEAN /\ crashes \in 0 .. MaxCrashes

Init ==
  /\ log = {} /\ anchors = <<>> /\ backup = [log |-> {}, anchors |-> <<>>]
  /\ file = <<>> /\ ragged = FALSE
  /\ pc = [p \in Publishers |-> "idle"]
  /\ receipt = [p \in Publishers |-> NoReceipt]
  /\ written = 0 /\ restored = FALSE /\ crashes = 0

-----------------------------------------------------------------------------
(* The database.                                                           *)

fileVars == <<file, ragged>>
publisherVars == <<pc, receipt>>

\* audit_writer.write, committed.
WriteEntry ==
  /\ written < MaxEntries
  /\ written' = written + 1
  /\ log' = log \union {Entry(Cardinality(log) + 1, TipHash(log), written')}
  /\ UNCHANGED <<anchors, backup, fileVars, publisherVars, restored, crashes>>

\* Somebody changes the content of one row and leaves its hashes alone.
Edit ==
  /\ \A r \in log : r.event # Forged
  /\ \E r \in log : log' = (log \ {r}) \union {[r EXCEPT !.event = Forged]}
  /\ UNCHANGED <<anchors, backup, fileVars, publisherVars, written, restored, crashes>>

BackUp ==
  /\ backup' = [log |-> log, anchors |-> anchors]
  /\ UNCHANGED <<log, anchors, fileVars, publisherVars, written, restored, crashes>>

\* The database goes back to the backup, with nothing running.
Restore ==
  /\ ~restored
  /\ \A p \in Publishers : pc[p] = "idle"
  /\ log' = backup.log /\ anchors' = backup.anchors
  /\ restored' = TRUE
  /\ UNCHANGED <<backup, fileVars, publisherVars, written, crashes>>

-----------------------------------------------------------------------------
(* publish_anchor.                                                         *)

\* get_latest: the successful row that was published last, not the one that covers most.
Covered ==
  LET successful == {i \in DOMAIN anchors : ~anchors[i].failed}
  IN  IF successful = {} THEN 0
      ELSE anchors[CHOOSE i \in successful : \A j \in successful : j <= i].anchor.covers

BeginPublish(p) ==
  /\ pc[p] = "idle"
  /\ Len(anchors) < MaxRows
  /\ \E tip \in log :
       /\ \A r \in log : r.seq <= tip.seq
       /\ Covered < tip.seq
       /\ receipt' = [receipt EXCEPT ![p].anchor = [covers |-> tip.seq, hash |-> tip.hash]]
  /\ pc' = [pc EXCEPT ![p] = "read"]
  /\ UNCHANGED <<log, anchors, backup, fileVars, written, restored, crashes>>

\* Mutant: an anchor is refused only when it covers less than the last.
Refused_Equal(anchor) ==
  file # <<>> /\ file[Len(file)] # Unparseable /\ anchor.covers < file[Len(file)].covers

\* The anchor does not go past the last line of the file, if that line can be read.
Refused(anchor) ==
  file # <<>> /\ file[Len(file)] # Unparseable /\ anchor.covers <= file[Len(file)].covers

\* What the file holds when a piece of text is written at its end.
FileWith(piece) ==
  IF ragged THEN [file EXCEPT ![Len(file)] = Unparseable] ELSE Append(file, piece)

\* Mutant: the lines are counted before the new one is written.
PublishLine_CountFirst(p) ==
  /\ pc[p] = "read"
  /\ ~Refused(receipt[p].anchor)
  /\ file' = FileWith(receipt[p].anchor)
  /\ ragged' = FALSE
  /\ receipt' = [receipt EXCEPT ![p].line = Len(file)]
  /\ pc' = [pc EXCEPT ![p] = "published"]
  /\ UNCHANGED <<log, anchors, backup, written, restored, crashes>>

\* LocalFileAnchor.publish, which holds the file's lock throughout.
PublishLine(p) ==
  /\ pc[p] = "read"
  /\ ~Refused(receipt[p].anchor)
  /\ file' = FileWith(receipt[p].anchor)
  /\ ragged' = FALSE
  /\ receipt' = [receipt EXCEPT ![p].line = Len(file')]
  /\ pc' = [pc EXCEPT ![p] = "published"]
  /\ UNCHANGED <<log, anchors, backup, written, restored, crashes>>

RefuseLine(p) ==
  /\ pc[p] = "read"
  /\ Refused(receipt[p].anchor)
  /\ pc' = [pc EXCEPT ![p] = "refused"]
  /\ UNCHANGED <<log, anchors, backup, fileVars, receipt, written, restored, crashes>>

Finish(p) ==
  /\ pc' = [pc EXCEPT ![p] = "idle"]
  /\ receipt' = [receipt EXCEPT ![p] = NoReceipt]

\* A row is recorded for a failure as well, and committed with session_scope.
Record(p) ==
  /\ pc[p] \in {"published", "refused"}
  /\ anchors' = Append(anchors, [anchor |-> receipt[p].anchor, line |-> receipt[p].line,
                                 failed |-> pc[p] = "refused"])
  /\ Finish(p)
  /\ UNCHANGED <<log, backup, fileVars, written, restored, crashes>>

\* The process ends, possibly in the middle of its line.
Crash(p) ==
  /\ pc[p] # "idle"
  /\ crashes < MaxCrashes
  /\ crashes' = crashes + 1
  /\ \/ UNCHANGED fileVars
     \/ /\ pc[p] = "read" /\ ~Refused(receipt[p].anchor)
        /\ \E piece \in {receipt[p].anchor, Unparseable} : file' = FileWith(piece)
        /\ ragged' = TRUE
  /\ Finish(p)
  /\ UNCHANGED <<log, anchors, backup, written, restored>>

Next ==
  \/ WriteEntry \/ Edit \/ BackUp \/ Restore
  \/ \E p \in Publishers :
       BeginPublish(p) \/ PublishLine(p) \/ RefuseLine(p) \/ Record(p) \/ Crash(p)

Spec == Init /\ [][Next]_vars

-----------------------------------------------------------------------------
(* Verification.                                                           *)

\* list_range from 1 with a limit: so many rows, not the rows up to a number.
FirstRows(n) == {r \in log : Cardinality(Before(log, r.seq)) < n}

\* Mutant: the chain of the copy is not walked again.
VerifiesAgainstDatabase_TipOnly(anchor) ==
  \E last \in FirstRows(anchor.covers) :
    /\ \A r \in FirstRows(anchor.covers) : r.seq <= last.seq
    /\ last.seq = anchor.covers
    /\ last.hash = anchor.hash

\* Mutant: one row too few is read.
VerifiesAgainstDatabase_Short(anchor) ==
  LET entries == FirstRows(anchor.covers - 1)
  IN  \E last \in entries :
        /\ \A r \in entries : r.seq <= last.seq
        /\ last.seq = anchor.covers
        /\ Verifies(entries)
        /\ last.hash = anchor.hash

\* verify_anchor_against_database.
VerifiesAgainstDatabase(anchor) ==
  LET entries == FirstRows(anchor.covers)
  IN  \E last \in entries :
        /\ \A r \in entries : r.seq <= last.seq
        /\ last.seq = anchor.covers
        /\ Verifies(entries)
        /\ last.hash = anchor.hash

\* LocalFileAnchor.verify, of a row that was recorded with its receipt.
VerifiesOnFile(row) == row.line \in DOMAIN file /\ file[row.line] = row.anchor

\* The lines of the file that verify_file can read.
Readable == {i \in DOMAIN file : file[i] # Unparseable}

\* What LocalFileAnchor.verify_file checks of the lines: only the last may be
\* unreadable, and every one that can be read covers more than the one read before it.
OnlyLastTorn == \A i \in DOMAIN file : i < Len(file) => i \in Readable
Increasing == \A i, j \in Readable : i < j => file[i].covers < file[j].covers

-----------------------------------------------------------------------------
(* Properties.                                                             *)

\* The whole-file audit never reports tampering of a file that only this program has
\* written: a crash in the middle of a line is told from an edited file.
FileVerifies == OnlyLastTorn /\ Increasing

\* While no crash has cut a line short, the file only ever goes forward, with publishers
\* that meet, die after their line, or come back with an older database.
FileGoesForward == Readable = DOMAIN file => Increasing

\* While no crash has cut a line short, every anchor recorded as published is found in
\* the file where its receipt says, whatever was appended or restored since.
RecordedIsOnFile ==
  Readable = DOMAIN file =>
    \A i \in DOMAIN anchors : ~anchors[i].failed => VerifiesOnFile(anchors[i])

\* An anchor that verifies against a database vouches for the whole log up to it: the
\* database then holds exactly the events that led to the hash that was anchored.
AnchorPinsHistory ==
  \A i \in Readable : VerifiesAgainstDatabase(file[i]) =>
    /\ \A r \in FirstRows(file[i].covers) : r.event = file[i].hash[r.seq]
    /\ Cardinality(FirstRows(file[i].covers)) = Len(file[i].hash)

\* As long as nobody edits or restores the database, every anchor ever published keeps
\* verifying against it, however much it grows.
NoFalseAlarm ==
  ~restored /\ (\A r \in log : r.event # Forged) =>
    \A i \in Readable : VerifiesAgainstDatabase(file[i])

\* AC-22: verify_chain names the very row that was edited as the first break, also when
\* entries have been written behind it since.
EditIsLocated ==
  \A edited \in log : edited.event = Forged =>
    edited \in Breaks(log) /\ \A r \in Breaks(log) : edited.seq <= r.seq
=============================================================================
