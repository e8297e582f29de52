----------------------------- MODULE PostgresCopy -----------------------------
(***************************************************************************)
(* `db migrate-to-postgres`: the rows of a SQLite database, which may be   *)
(* in use, are copied table by table and chunk by chunk to PostgreSQL,     *)
(* with a checkpoint file, resumption, and a verdict by row counts         *)
(* (storage/postgres_migration.py).                                        *)
(*                                                                         *)
(* Two tables stand for all: operations, whose rows change, and            *)
(* operation_events, which gets a row with every transition of an          *)
(* operation and refers to it.  What the source has of these is its        *)
(* sequence of events: the operations are those with an event, and the     *)
(* content of an operation's row is the number of its events.  Besides, a  *)
(* row is changed in place with no row added anywhere: the handle of an    *)
(* operation that is refused a slot stays burned.  This change stands for  *)
(* the others of its kind (an attempt of a delivery, the role of a         *)
(* membership, an environment), which row counts do not see.               *)
(*                                                                         *)
(* An insert that is rolled back and tried again                           *)
(* (run_in_session_with_retry) leaves everything as it was.                *)
(***************************************************************************)
EXTENDS Naturals, Sequences, FiniteSets

CONSTANTS Operations,     \* ids, in primary key order; not the order of creation
          InitialEvents,  \* the operation of each event, oldest first
          ChunkSize,
          Runs,           \* processes that may run the command
          MaxEvents,      \* bound: events in the source
          MaxBurns,       \* bound: changes in place
          MaxStarts,      \* bound: times the command is started
          Absent          \* no checkpoint file, no report

TableNames == {"operations", "operation_events"}

\* what a checkpoint may have recorded, a parent before its children
Completed == [{} -> Nat] \union [{"operations"} -> Nat] \union [TableNames -> Nat]
Checkpoints == [counts : [TableNames -> Nat], completed : Completed]

ASSUME CopyAssumption ==
  /\ Operations \subseteq Nat
  /\ InitialEvents \in Seq(Operations)
  /\ ChunkSize \in Nat \ {0}
  /\ Absent \notin Nat
  /\ Absent \notin Checkpoints

VARIABLES events,         \* the source
          burns,          \* the source: the operations changed in place, in this order
          destination,    \* rows per table
          marked,         \* the operations copied as changed in place
          checkpoint,     \* the file: Absent or a member of Checkpoints
          runs,           \* the command's processes
          verified,       \* the last report with ok, as Len(events) when it counted
          starts,
          overlapped,     \* history: two processes ran at once on this destination
          claimed         \* history: Len(burns) when the first checkpoint was written

copyVars == <<events, burns, destination, marked, checkpoint, runs, verified, starts,
              overlapped, claimed>>

Idle == [pc |-> "idle"]
Nothing == [t \in {} |-> 0]

(***************************** rows ****************************************)
EventsOf(log, o) == Cardinality({i \in DOMAIN log : log[i] = o})

\* a table of the source, every row with its content
TableRows(log, t) ==
  IF t = "operations" THEN {[key |-> log[i], of |-> EventsOf(log, log[i])] : i \in DOMAIN log}
                      ELSE {[key |-> i, of |-> log[i]] : i \in DOMAIN log}

\* ORDER BY the primary key, OFFSET and LIMIT
KeyPlace(rows, row) == Cardinality({other \in rows : other.key <= row.key})
Slice(rows, offset) == {row \in rows : KeyPlace(rows, row) \in offset + 1 .. offset + ChunkSize}

\* the operations the first n changes in place were made to
BurnedBy(n) == {burns[i] : i \in 1 .. n}
Burned == BurnedBy(Len(burns))

Counts(log) == [t \in TableNames |-> Cardinality(TableRows(log, t))]
DestinationCount(t) == Cardinality(destination[t])
Empty == \A t \in TableNames : destination[t] = {}
Copied == {row.key : row \in destination["operations"]}

CopyInit ==
  /\ events = InitialEvents
  /\ burns = <<>>
  /\ destination = [t \in TableNames |-> {}]
  /\ marked = {}
  /\ checkpoint = Absent
  /\ runs = [r \in Runs |-> Idle]
  /\ verified = Absent
  /\ starts = 0
  /\ overlapped = FALSE
  /\ claimed = 0

\* the application moves or creates an operation
Write(o) ==
  /\ Len(events) < MaxEvents
  /\ events' = Append(events, o)
  /\ UNCHANGED <<burns, destination, marked, checkpoint, runs, verified, starts, overlapped,
                 claimed>>

\* the handle is burned, the slot refused, and the burn committed without an event
Burn(o) ==
  /\ Len(burns) < MaxBurns
  /\ EventsOf(events, o) > 0 /\ o \notin Burned
  /\ burns' = Append(burns, o)
  /\ UNCHANGED <<events, destination, marked, checkpoint, runs, verified, starts, overlapped,
                 claimed>>

(***************************** one run *************************************)
Continue(r, run) ==
  /\ runs' = [runs EXCEPT ![r] = run]
  /\ UNCHANGED <<events, burns, starts, overlapped>>

\* preflight counts the source in one transaction
Start(r, resume) ==
  /\ runs[r] = Idle
  /\ starts < MaxStarts
  /\ starts' = starts + 1
  /\ runs' = [runs EXCEPT ![r] = [pc |-> "counted", resume |-> resume, counts |-> Counts(events),
                                  had |-> Len(events), completed |-> Nothing,
                                  offset |-> 0, chunk |-> {}, marks |-> {}]]
  /\ overlapped' = (overlapped \/ \E other \in Runs : runs[other] # Idle)
  /\ UNCHANGED <<events, burns, destination, marked, checkpoint, verified, claimed>>

\* a checkpoint must be resumed, against unchanged counts; without one the
\* destination must be empty
Admitted(run) ==
  IF checkpoint # Absent THEN run.resume /\ checkpoint.counts = run.counts ELSE Empty

Admit(r) ==
  LET run == runs[r] IN
  /\ run.pc = "counted"
  /\ IF ~Admitted(run) THEN Continue(r, Idle)
     ELSE IF checkpoint = Absent THEN Continue(r, [run EXCEPT !.pc = "admitted"])
     ELSE Continue(r, [run EXCEPT !.pc = "next", !.completed = checkpoint.completed])
  /\ UNCHANGED <<destination, marked, checkpoint, verified, claimed>>

\* the first checkpoint is written after the destination was found empty; what a
\* report said of the destination before is over
Claim(r) ==
  /\ runs[r].pc = "admitted"
  /\ checkpoint' = [counts |-> runs[r].counts, completed |-> Nothing]
  /\ verified' = Absent
  /\ claimed' = Len(burns)
  /\ Continue(r, [runs[r] EXCEPT !.pc = "next"])
  /\ UNCHANGED <<destination, marked>>

\* the tables to copy, parents before children
Remaining(run) == TableNames \ DOMAIN run.completed
Table(run) == IF "operations" \in Remaining(run) THEN "operations" ELSE "operation_events"

\* (mutant: a resumed table goes on one row too far)
Offset_OneMore(t) == IF destination[t] = {} THEN 0 ELSE DestinationCount(t) + 1

\* what the destination has already is skipped
Offset(t) == DestinationCount(t)

NextTable(r) ==
  LET run == runs[r] IN
  /\ run.pc = "next" /\ Remaining(run) # {}
  /\ Continue(r, [run EXCEPT !.pc = "read", !.offset = Offset(Table(run))])
  /\ UNCHANGED <<destination, marked, checkpoint, verified, claimed>>

\* one chunk, read in a transaction of its own
Read(r) ==
  LET run == runs[r]
      found == Slice(TableRows(events, Table(run)), run.offset) IN
  /\ run.pc = "read"
  /\ Continue(r, [run EXCEPT !.pc = IF found = {} THEN "copied" ELSE "insert", !.chunk = found,
                             !.marks = IF Table(run) = "operations"
                                       THEN {row.key : row \in found} \cap Burned ELSE {}])
  /\ UNCHANGED <<destination, marked, checkpoint, verified, claimed>>

\* primary keys are unique and an event's operation is there
Accepts(t, rows) ==
  /\ \A row \in rows, old \in destination[t] : row.key # old.key
  /\ t = "operation_events" =>
       \A row \in rows : \E parent \in destination["operations"] : parent.key = row.of

\* the whole chunk or nothing; a conflict is never tried again
InsertChunk(r) ==
  LET run == runs[r] IN
  /\ run.pc = "insert"
  /\ IF Accepts(Table(run), run.chunk)
     THEN /\ destination' = [destination EXCEPT ![Table(run)] = @ \union run.chunk]
          /\ marked' = marked \union run.marks
          /\ Continue(r, [run EXCEPT !.pc = "read", !.chunk = {}, !.marks = {},
                                     !.offset = @ + Cardinality(run.chunk)])
     ELSE /\ Continue(r, Idle)
          /\ UNCHANGED <<destination, marked>>
  /\ UNCHANGED <<checkpoint, verified, claimed>>

\* the table is recorded with the rows the destination has now
FinishTable(r) ==
  LET run == runs[r]
      completed == [t \in DOMAIN run.completed \union {Table(run)} |->
                      IF t = Table(run) THEN DestinationCount(t) ELSE run.completed[t]] IN
  /\ run.pc = "copied"
  /\ checkpoint' = [counts |-> run.counts, completed |-> completed]
  /\ Continue(r, [run EXCEPT !.pc = "next", !.completed = completed])
  /\ UNCHANGED <<destination, marked, verified, claimed>>

\* (mutant: compared with what the source has at the end)
ReportOk_Now(run) == run.completed = Counts(events)

\* RowCopyReport.ok
ReportOk(run) == run.completed = run.counts

\* a verified copy retires the checkpoint; one that is not keeps it
Report(r) ==
  LET run == runs[r] IN
  /\ run.pc = "next" /\ Remaining(run) = {}
  /\ IF ReportOk(run) THEN checkpoint' = Absent /\ verified' = run.had
                      ELSE UNCHANGED <<checkpoint, verified>>
  /\ Continue(r, Idle)
  /\ UNCHANGED <<destination, marked, claimed>>

\* the process dies, or an error that is not tried again ends it; what it had
\* committed stays
Crash(r) ==
  /\ runs[r] # Idle
  /\ Continue(r, Idle)
  /\ UNCHANGED <<destination, marked, checkpoint, verified, claimed>>

\* the operator does as the refusals say: the checkpoint is deleted and a fresh
\* destination taken
StartOver ==
  /\ \A r \in Runs : runs[r] = Idle
  /\ starts < MaxStarts
  /\ destination' = [t \in TableNames |-> {}]
  /\ marked' = {}
  /\ checkpoint' = Absent
  /\ verified' = Absent
  /\ overlapped' = FALSE
  /\ UNCHANGED <<events, burns, runs, starts, claimed>>

RunNext(r) ==
  \/ \E resume \in BOOLEAN : Start(r, resume)
  \/ Admit(r) \/ Claim(r) \/ NextTable(r) \/ Read(r) \/ InsertChunk(r)
  \/ FinishTable(r) \/ Report(r) \/ Crash(r)

CopyNext ==
  \/ \E o \in Operations : Write(o) \/ Burn(o)
  \/ \E r \in Runs : RunNext(r)
  \/ StartOver

CopySpec == CopyInit /\ [][CopyNext]_copyVars

\* the rows are those the source had at the preflight
RowsAreOfOneMoment ==
  verified # Absent /\ ~overlapped =>
    \A t \in TableNames : destination[t] = TableRows(SubSeq(events, 1, verified), t)

\* the changes made in place before the copy are in it
EarlierChangesAreCopied ==
  verified # Absent /\ ~overlapped => BurnedBy(claimed) \cap Copied \subseteq marked

\* What a report that says ok is worth when the source is in use.  Of rows the copy
\* is the source as it was at one moment, that of the preflight: none is missing or
\* doubled, and no operation has more or fewer transitions than the copied events
\* say, although only counts are compared.  Of changes in place, which counts do
\* not see, it has every one that was made before the destination was claimed; one
\* made later is there or not (RowCopyReport.ok, copy_all_tables).  Of two
\* processes that overlap on a source in use the one may add rows the other has
\* counted already, so this is said of one process after another.
VerifiedCopyIsComplete == RowsAreOfOneMoment /\ EarlierChangesAreCopied

\* As the guide has it: the rows of a running database are copied, with proof that
\* it worked (docs/POSTGRES_OPERATIONS.md:38).  The copy the report says ok of would
\* then be the source at some moment: with an operation's change in place it has
\* those that were made before.  Not so: an operation may be changed after its
\* chunk was read, and another one still later, before its own chunk is.
VerifiedCopyIsSnapshot ==
  verified # Absent /\ ~overlapped =>
    \E n \in 0 .. Len(burns) : marked = BurnedBy(n) \cap Copied

\* rows that are the first ones of all
IsBeginning(some, all) ==
  /\ some \subseteq all
  /\ \A row \in some, earlier \in all : earlier.key < row.key => earlier \in some

\* While the source gets no row every table of the destination is the
\* beginning of the source's, whatever crashes, is resumed or runs twice at
\* once: the row after the ones that are there is the next one to copy
\* (_copy_table's offset).
DestinationIsPrefix ==
  Len(events) = Len(InitialEvents) =>
    \A t \in TableNames : IsBeginning(destination[t], TableRows(events, t))
=============================================================================
