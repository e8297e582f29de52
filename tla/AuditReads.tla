----------------------------- MODULE AuditReads -----------------------------
(***************************************************************************)
(* Reading audit_log page by page while transactions append to it: audit   *)
(* verify and audit export walk it from the front, list_audit_events from  *)
(* its end with a cursor.  Every page is a statement, or a tool call, of   *)
(* its own, and on SQLite each sees what is committed by then.             *)
(***************************************************************************)
EXTENDS AuditLog, SequencesExt

CONSTANTS
  Readers,
  PageSize,     \* list_all's page_size, list_audit_events' limit
  Scope         \* the events list_audit_events lets its caller see

ASSUME AuditReadsAssumption == PageSize \in Nat \ {0} /\ Scope \subseteq Events

VARIABLE reading     \* what each reader has got so far

readVars == <<vars, reading>>

NotReading == [kind |-> "none"]

\* Mutant: an export that reads the operations before the log.
ExportParts_Reversed == <<"operations", "entries">>

ExportParts == <<"entries", "operations">>

\* What each kind of reading reads, in order.
Parts(kind) ==
  CASE kind = "verify" -> <<"entries">>
    [] kind = "export" -> ExportParts
    [] kind = "list"   -> <<"page">>

ReadsInit == Init /\ reading = [r \in Readers |-> NotReading]

\* verify_audit_chain, export_audit_record, or the first call of list_audit_events.
BeginReading(r, kind) ==
  /\ reading[r] = NotReading
  /\ reading' = [reading EXCEPT ![r] =
                   [kind |-> kind, parts |-> Parts(kind), from |-> 1,
                    entries |-> {}, operations |-> {}, shown |-> <<>>]]

Reads(r, part) ==
  reading[r] # NotReading /\ reading[r].parts # <<>> /\ Head(reading[r].parts) = part

\* The place of a row by seq, counted from 1: seq is the primary key.
Place(rows, row) == Cardinality(Before(rows, row.seq)) + 1
InSeqOrder(rows) == [i \in 1 .. Cardinality(rows) |-> CHOOSE row \in rows : Place(rows, row) = i]
FirstOf(rows) == {row \in rows : Place(rows, row) <= PageSize}
LastOf(rows) == CHOOSE row \in rows : \A other \in rows : other.seq <= row.seq

\* Mutant: the page begins after start_seq.
Range_After(start) == FirstOf({row \in log : row.seq > start})

\* list_range: a page of the log from start_seq on.
ListRange(start) == FirstOf({row \in log : row.seq >= start})

\* One turn of list_all, which ends with a page that is not full.
ReadEntries(r) ==
  LET page == ListRange(reading[r].from) IN
  /\ Reads(r, "entries")
  /\ reading' = [reading EXCEPT
       ![r].entries = @ \union page,
       ![r].from    = IF page = {} THEN @ ELSE LastOf(page).seq + 1,
       ![r].parts   = IF Cardinality(page) < PageSize THEN Tail(@) ELSE @]

\* The rest of export_audit_record: the operations with their events and results.  An
\* event is in the table as soon as its entry is in the log, one commit brings both.
ReadOperations(r) ==
  /\ Reads(r, "operations")
  /\ reading' = [reading EXCEPT ![r].operations = {row.event : row \in log}, ![r].parts = Tail(@)]

\* Mutant: an offset instead of a cursor.
Older_Offset(r) ==
  LET all == Reverse(InSeqOrder({row \in log : row.event \in Scope}))
  IN  SubSeq(all, Len(reading[r].shown) + 1, Len(all))

\* list_page: what the caller may see that is older than the cursor, newest first.
Older(r) ==
  LET shown == reading[r].shown
  IN  Reverse(InSeqOrder({row \in log : /\ row.event \in Scope
                                        /\ shown # <<>> => row.seq < shown[Len(shown)].seq}))

\* A call of list_audit_events; a page that is not full has no next_cursor.
ReadPage(r) ==
  LET page == SubSeq(Older(r), 1, IF Len(Older(r)) < PageSize THEN Len(Older(r)) ELSE PageSize) IN
  /\ Reads(r, "page")
  /\ reading' = [reading EXCEPT ![r].shown = @ \o page,
                                ![r].parts = IF Len(page) < PageSize THEN Tail(@) ELSE @]

\* The result is used, or the reading is given up.
EndReading(r) ==
  /\ reading[r] # NotReading
  /\ reading' = [reading EXCEPT ![r] = NotReading]

ReadsNext ==
  \/ Next /\ UNCHANGED reading
  \/ /\ \E r \in Readers :
          \/ \E kind \in {"verify", "export", "list"} : BeginReading(r, kind)
          \/ ReadEntries(r) \/ ReadOperations(r) \/ ReadPage(r)
          \/ EndReading(r)
     /\ UNCHANGED vars

ReadsSpec == ReadsInit /\ [][ReadsNext]_readVars

-----------------------------------------------------------------------------
(* Properties.                                                             *)

\* audit verify and audit export report no break in a log that nobody has tampered
\* with, although its pages were read at different times of a growing log (AC-22,
\* AC-25), and an export has the operations of all its entries.
NoBreakAcrossPages ==
  \A r \in Readers : reading[r] # NotReading =>
    /\ Verifies(reading[r].entries)
    /\ reading[r].kind = "export" /\ reading[r].parts = <<>> =>
         {row.event : row \in reading[r].entries} \subseteq reading[r].operations

\* list_audit_events never skips or repeats an entry over a log that grows
\* concurrently (its docstring): what has been shown is everything the caller may see
\* between the newest and the oldest entry shown.
NothingSkippedOrRepeated ==
  \A r \in Readers : reading[r] # NotReading /\ reading[r].shown # <<>> =>
    LET shown == reading[r].shown IN
    shown = Reverse(InSeqOrder({row \in log : /\ row.event \in Scope
                                              /\ row.seq <= shown[1].seq
                                              /\ row.seq >= shown[Len(shown)].seq}))
=============================================================================
