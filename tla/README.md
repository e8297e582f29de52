# Formal model of n8n-operator

TLA+ specifications of the n8n-operator control plane, the TLC configurations
that check them on small instances, and TLAPS proofs for every instance.
Everything here is translated from the code under `src/n8n_operator`;
`PROJECT.json` maps each definition to its lines.

    tlc -workers 2 -config lifecycle_sqlite.cfg MC_OperationLifecycle
    tlapm OperationLifecycle_proofs.tla

## 1. The system

n8n-operator stands between callers (AI agents over MCP, humans on a command
line or an approval page) and an n8n server. A caller prepares an *operation*
(one run of one registered workflow with fixed arguments), humans approve it if
policy says so, and it is executed at most once. All state is in one SQL
database, shared by several processes: the MCP server, the approval page with
its sweeper, and CLI commands. There is no coordinator. What two processes may do
to one row is decided by an optimistic version, a few conditional updates and
the locking of whichever database is used.

| Component | State | Operations | Interacts with |
|---|---|---|---|
| State machine (`core/state_machine.py`) | none; a table of 12 states and 15 transitions | `validate_transition`, `overdue_expiry_transition` | used by every use case |
| Operation lifecycle (`core/service.py`, `storage/repository.py`) | `operations`, `operation_events`, `execution_results` | prepare, approve, reject, cancel, execute, dispatch, record, lazy expiry, sweep | n8n; audit; the callers' transactions |
| Approval quorum (v2, same files) | `approvals` slots, frozen policy snapshot, memberships | request_approval, approve, reject, tally | lifecycle (T04 creates, T06/T07/T08/T09 end it) |
| Idempotent prepare and retry (`core/idempotency.py`, `_prepare_or_retry`) | idempotency key and parent of `operations` | replay, conflict, rate limit, retry chain | lifecycle |
| Audit log (`audit/`) | `audit_log`, a hash chain | `write`, `verify_chain`, export, list | every use case writes to it in its own transaction |
| Anchors (`audit_anchor/`) | anchor file outside the database, `audit_anchors` | publish, verify, verify_file | audit log |
| Notifications (`notifications/`) | `notification_deliveries` | deliver with deduplication, sweep of failed, alert sweep | quorum, lifecycle |
| Registry (`registry/`) | `registry_snapshots`, bindings | load, check rules, reload | prepare, execute, dispatch |
| Environments and overlays (`registry/overlay.py`, CLI) | `environments`, `workflow_environment_overlays` | create, archive, resolve, reload overlay | prepare, authorization |
| Identity and authorization (`core/authorization.py`, `core/identity.py`) | principals, organizations, memberships | authenticate, evaluate a role over a scope, administer | every use case |
| n8n adapter (`n8n/`) | none | preflight, dispatch, execution lookup | n8n over HTTP |
| Front ends (`mcp/`, `cli/`, `approval/`) | tokens; otherwise none | own the transaction boundaries | all use cases |
| Storage and migration (`storage/`) | the schema; SQLite to PostgreSQL copy | sessions, constraints, `db migrate-to-postgres` | all |
| Configuration, logging, metrics, redaction | none | parse, format, aggregate | read only |

### What is hard

* A use case reads a row, decides, perhaps talks to n8n for seconds, and then
  writes. Every decision may be stale when it is written.
* The same code runs on SQLite, with one writer, and on PostgreSQL, with row
  locks and READ COMMITTED. The two fail differently.
* *Who rolls back* differs by front end: the MCP tools answer an
  `OperatorError` inside their `session_scope`, which then commits what had been
  written; the CLI and the approval page let it out, which rolls back.
* A dispatch that gets no answer says nothing about whether n8n ran it, and a
  message that was sent stays sent when the transaction rolls back.
* A process can die between any two of its transactions, and the one-off copy
  between any two of its chunks.
* Deadlines are applied by whoever next reads a row, and by a sweep.
* What is active (registry, overlay, grants, the n8n workflow) changes between
  the reads of one call, and some of it is read twice.

`PROJECT.json` lists these as hazards, each at the line where it bites and with
the properties that watch it.

### What makes each component correct

* Lifecycle: the event trail is a path of the table; one dispatch at most; what
  ran was authorized; a refusal reported to a caller is kept; the limit on
  concurrent executions holds; an overdue operation is settled; an execution
  ends in a recorded outcome that tells the truth.
* Quorum: no approval without the quorum of the frozen approvers; no quorum
  lost between two votes; a rejection is final; a vote is cast once.
* Idempotency: one key, one operation, whoever races; nothing is retried that may
  still run, but for a parent another call moves on while the retry expires it; the
  rate limit is overshot by no more than the calls in flight.
* Audit log: the chain verifies if nobody tampered with it; it grows at its end;
  a reader of a growing log sees no break, gap or repetition.
* Anchors: a verified anchor pins the log up to it; no false alarm; what was
  recorded as published is on the file; the file goes forward.
* Notifications: a recorded event comes to a delivery or to a visible failure;
  nobody is reported notified without a tried delivery on record.
* Registry and preflight: what runs unattended only reads; the webhook called is
  that of the definition that was verified.
* Authorization: one grant, active during the call, authorizes an operation; the
  n8n instance that was asked is the environment's; listings and audit events
  tell a member of one organization of no operation and no workflow that it may
  not read.
* Copy: a copy that is reported good has the rows of one moment, and no change
  from before the copy is missing in them.

## 2. Modules

    StateMachine            the table
      OperationContract     abstract: what is promised about operations
      OperationLifecycle    the service on a shared database
                            (INSTANCE OperationContract WITH phase <- state)
        OperationLifecycle_proofs
        MC_OperationLifecycle
      QuorumApproval        the v2 vote on one operation
                            (INSTANCE Ballot WITH outcome <- Outcome, ...)
        QuorumApproval_proofs
        MC_QuorumApproval
      IdempotentPrepare     prepare and retry with keys, under concurrent calls
                            (INSTANCE KeyedOperations WITH bound <- Bound)
        IdempotentPrepare_proofs
        MC_IdempotentPrepare
    Ballot                  abstract: a vote by quorum, one step per vote
    KeyedOperations         abstract: a key names one operation, for good
    AuditChain              pure: hashes, links, verification
      AuditLog              transactions that append to it
                            (INSTANCE AppendOnlyLog WITH history <- InOrder)
        MC_AuditLog
        AuditReads          composed with its readers: verify, export, list
          LogAndCopy_proofs about both, and PostgresCopy
          MC_AuditReads
      AuditAnchors          the anchor file and its table
        AuditAnchors_proofs
        MC_AuditAnchors
    AppendOnlyLog           abstract: a history that grows at its end
    Notifications           deliveries, the retry sweep and the alert sweep
      Notifications_proofs
      MC_Notifications
    RegistryRules           pure: defaults, overlays, rules R1 to R15
    Preflight               pure: the checks against an n8n instance
      Registry              reloads, overlays, n8n and operations composed
        Registry_proofs
        MC_Registry
    Access                  pure: roles, scopes, evaluation of memberships
      Authorization         identities, environments, calls and listings
        Authorization_proofs
        MC_Authorization
    PostgresCopy            `db migrate-to-postgres` of a source in use
                            (proofs in LogAndCopy_proofs)
      MC_PostgresCopy

Definitions whose name has a suffix after an underscore and whose comment
begins with "Mutant" are deliberate bugs. They are not used by any
specification: each is exchanged for the definition it imitates, to see that a
property notices.

### OperationLifecycle

| Model | Code |
|---|---|
| `state`, `stateVersion`, `handleBurned`, deadlines, `owner` | columns of `operations` |
| `events`, `decision`, `result` | `operation_events`, the v1 `approvals` row, `execution_results.status` |
| `runs` | how often n8n has received the operation's dispatch; no code sees it |
| `pc`, `kind`, `target`, `by`, `seen`, `outcome` | one call: where it stands, what it was asked, the version of the ORM row it read, the answer it got |
| `told` | successes reported to callers |
| `lock` | a row lock that outlives a step |
| `BeginDecision`, `BeginCancel`, `BeginExecute`, `BeginExpiry` | the read and every check made on the row that was read |
| `Approve`, `Reject`, `Cancel`, `ExpireOverdue` | `_apply_and_audit`: a compare-and-set on the version read, the event, the rest of the transaction |
| `Burn`, `StartExecution`, `Dispatch`, `RecordOutcome` | `execute_operation` after its preflight, `dispatch_operation`, `record_execution_outcome` |
| `Crash` | process killed, database error: the open transaction and the call are lost |

A write transaction is one step, with one exception. `execute_operation` burns
the handle, counts EXECUTING operations and then applies T10; on PostgreSQL only
the operation's row is locked while it does, so `Burn` and `StartExecution` are
separate. `Dispatch` is between two transactions, holds no lock, and may end in
no answer, in which case `runs` may or may not have grown.

Data that no property distinguishes is left out: arguments, hashes, tokens,
wording, the audit entries (`AuditLog` has them). All operations are of one
workflow, the only relation between operations being `max_concurrent`.

### QuorumApproval

One operation, its slots as a set of rows with ids, and sessions that *show*,
*open*, *tally* and *commit* a decision or *route* to an approver. `snapshot` is
`approval_policy_snapshot.eligible_approvers`, frozen by `Prepare`; `members`
changes freely. The vote of the real tally sees committed rows plus its own;
`Recorded(s)` is that set. `Unique` is the unique constraint on the decider.
An interactive decision on the CLI and a page post both have `shown` before
`open`, since the operation a human looked at is not the row that is decided.

`Ballot` is what this amounts to: an electorate, the sets of those that
approved and rejected, an outcome, and one step per vote. `Outcome` reads it
off the operation's state; whoever has approved is a decider among the rows.
A vote that is short of the quorum may come when the ballot is over, as in the
code, which asks for the state only where a vote settles something.

### AuditChain and AuditLog

A hash is free of collisions, so the hash of an entry is written as the
sequence of events up to it. That makes "links to", "recomputes to" and "pins"
plain equalities. `AuditLog` splits `audit_writer.write` at the only point where
another transaction can get in: between `get_last_hash` and the insert. On
SQLite a transaction that has already changed a row has the write lock by then,
one that writes nothing but an entry has not (`AuditOnly`); on PostgreSQL there
is no common lock. `seq` is max + 1 on SQLite and a sequence value, which no
roll-back returns, on PostgreSQL.

### AuditAnchors

The anchor file is a sequence of lines that either parse to an anchor or do not;
`ragged` says that the last has no newline. A publish is three steps (read tip
and latest anchor; append under the file's lock; record in the database), with
a crash between any two or in the middle of the line. The database underneath
may be edited (`Edit`) or replaced by a backup (`Restore`). Both are things the
documents of the repository discuss, and what anchors are for. Signatures are
taken as sound: a line that parses was signed.

### IdempotentPrepare

`prepare_operation` and `retry_operation` share `_prepare_or_retry`, and so do the
actions: `BeginPrepare` (rate limit), `BeginRetry` with `ExpireParent` or
`RefuseRetry` (the parent, whose deadline may have passed), `CheckLimit`,
`LookUp`, `Insert`, `LoseInsert` (the IntegrityError path) and `Finish`, which
follows the preflight. Nothing protects a count or a lookup until the insert, so
every pair of calls interleaves there; what protects the insert is the unique
constraint (`KeyIsTaken`, `KeyIsPending`). A row that is PREPARING is not
committed. `Settle`, `Expire`, `DeadlinePasses` and `Age` are everybody else:
`Settle` moves an operation after its deadline as well, as a call does that read it
before, since T10 and the decisions compare the version alone. `ExpireParent` is a
lazy expiry that may match no row (`Matched`) and returns EXPIRED all the same;
`overtaken` is history, the retries whose expiry was lost to a move that makes their
parent one that may not be retried.
`KeyedOperations` is what invariant I8 promises of it. A handle is its place in
the order of minting, so a parent is a smaller number than its child. `window` is
what was created within the last minute, and `Ancestors` the chain of an
operation's parents.

### Notifications

A transaction of `request_approval`, `check-alerts` or `retry-failed` works
through a sequence of keys (`InOrder`: by id, or the least attempted first); for each it looks the row up, creates it or not, calls
the sink and records the attempt, and it commits at the end. `copy` is the row as
the session read it, from which the number of attempts is set; `wrote` is what its
flushed UPDATEs set. `tries` counts the calls of the sink, which no roll-back takes back.
Deadlocks between two transactions that take the rows in different orders are
modelled: PostgreSQL ends one of the two.

### RegistryRules, Preflight and Registry

`RegistryRules` is the registry as data: resolution of defaults, merging of an
overlay, the rules R1 to R15. A rule that tests a string format is a set of
the strings that pass. `Preflight` is the ten checks and the verdict that only
"fail" blocks. `Registry` lets administrators reload while operations are
prepared, approved, executed and dispatched and n8n users edit, switch off and delete
the workflow (`Live` is what it then finds under an id). A reload is three steps, since `loaded_at` is taken at the
insert and the row becomes visible at the commit. An operation keeps the snapshot it was
prepared from and the contract it was offered under; `execute` compares the
snapshot that is active then.

### Access and Authorization

`Access` is the role matrix and `evaluate`. `Authorization` has principals,
organizations, memberships and environments that change between the four moments at
which a `prepare_operation` call reads them: authentication, the tool's choice of
an n8n instance, the service's own resolution with the role check, and the
commit. The answers of reads and listings (`Reaches`, `ListedFor`, `Measured`,
`Audited`, `MayDescribe`) are state functions. `Audited` has the four branches of
`list_page`: entries about operations, about workflows (the denied prepares, `denied`, which `Deny`
adds to), about the environment and about the registry. `seen` and `moved` are history:
which grants were active during the call, and whether the caller's live environments changed.

### PostgresCopy

The source is the sequence of its events: the operations are those that have
one, and the content of an operation's row is the number of its events. That
makes two tables with a foreign key, one whose rows change and one that grows, out
of one variable. A table is a set of rows with keys (`TableRows`); its order is
that of the keys, so a chunk (`Slice`) is the rows whose place in that order lies
behind the offset and within the limit.
Not every change adds a row. `burns` is the sequence of those that do not: the handle
burn that is committed with a refused execution (`Burn`), which stands for attempts of
deliveries, memberships, environments and whatever else is updated in place. `marks` is what a
chunk shows of them, `marked` what the copy has, and `claimed` the history of how
many there were when the first checkpoint was written.
The steps of a run are the transactions and file writes of
`copy_all_tables`; a crash can end a run between any two, and a second process
can be at any step. `Report` retires the checkpoint if the counts agree.

### AuditReads

`AuditLog` composed with readers. Verification and export walk the log by
`list_range`, the tool `list_audit_events` by a cursor from the end; each page
sees what is committed at that time. The order of a page is that of `seq`: a row's
`Place` among others is one more than the number of those before it.

## 3. Runs

| Run | Instance | What it shows |
|---|---|---|
| `lifecycle_sqlite` | 2 operations, 2 callers, sweeper, `max_concurrent` 1, clock to 3, 1 crash; 850,022 states up to symmetry | the safety invariants under every interleaving of stale reads |
| `lifecycle_postgres` | 1 operation, 2 principals, v2 roles, 2 callers, sweeper, clock to 4, fairness; 40,707 states | refinement of `OperationContract`, settlement of overdue operations, resolution of executions |
| `quorum_postgres` | 3 approvers and a requester, quorum 2, 2 sessions, 4 slots; 981,584 states | votes, routing, churn, expiry and cancellation together; refinement of `Ballot` |
| `idempotent_prepare` | 2 callers, 1 key, 2 argument sets, 3 operations, rate limit 1, chains of 1, PostgreSQL; 1,515,822 states up to symmetry | keys, replays, lost inserts, retries of a parent that expires or is moved on by a call that read it in time |
| `audit_log_sqlite` | 3 writers, 6 entries, 1 reader with pages of 2; 37,003 states | chain, numbering, refinement of `AppendOnlyLog`, reading a growing log |
| `audit_anchors` | 2 publishers, 4 entries, 1 crash, 1 restore; 2.2 million states | anchors, receipts and edits located |
| `notifications` | 1 request and 2 alerts, 2 sessions that both alert, one that requests and one that retries, 2 attempts, limit 2, PostgreSQL, fairness; 98,874 states | every event settled, in spite of deadlocks, crashes and stale copies |
| `registry` | 2 administrators, 20 files (14 that a rule refuses), 8 overlays, 1 operation, 2 loads, 2 edits; 728,451 states | what runs unattended; the verified definition is the one called |
| `authorization` | 1 user and the local principal, 2 organizations, 3 environments, 2 workflows, 1 call, 4 changes; 261,996 states | one grant, one environment, listings and audit events |
| `postgres_copy` | 3 operations, 4 to 6 events, chunks of 2, 1 change in place, 2 processes, 3 starts; 5,754,158 states up to symmetry | rows of one moment, earlier changes in place, and prefix, over crashes, resumption and overlap |
| `audit_log_fork`, `registry_overlay` | small | expected violations, section 6 |

### Properties

* `TrailExplainsState`: the trail is a path of the table, one event per
  version, ending in the present state. Two calls never both leave a state.
* `AtMostOneRun`: n8n receives an operation's dispatch at most once.
* `ExecutionIsAuthorized`: what executes has a burned handle and either a
  recorded approval or T05.
* `RefusalIsFinal`: an operation whose rejection or cancellation was reported
  never runs, and a rejection and an approval are never both reported.
* `ConcurrencyCap`: on SQLite, `max_concurrent` is not exceeded.
* `ResultMatchesState`: the stored result and the state say the same.
* `ExecutionIsAttended`: with no crash, exactly one call is responsible for
  each executing operation.
* `ImplementsContract`: refinement of `OperationContract`.
* `OverdueIsSettled`, `ExecutionResolves`: liveness.
* `ApprovalNeedsQuorum`, `NoStrandedQuorum`, `RejectionIsFinal`,
  `DecisionsStand`: the vote.
* `ImplementsBallot`: refinement of `Ballot`; calls of three steps, abandoned at
  any of them, overlapping with one another and with cancellation and expiry,
  amount to votes of one step.
* `ImplementsKeyedOperations`: refinement of `KeyedOperations`; the answer for a
  key never names a second operation, whichever of lookup, insert or
  IntegrityError path gave it.
* `RetryHasFinishedParent`: a retry has the arguments of a parent that is, and
  stays, in a state from which nothing more runs, unless its lazy expiry of the
  parent was lost to a call that moved the parent on (`RetryOnlyOfFinished`, without
  the exception, is false: section 6); chains are bounded.
* `OvershootIsBounded`: concurrent calls pass the rate limit by less than
  their number.
* `ChainVerifies`, `SeqIsGapFree`, `ImplementsAppendOnlyLog`: the log.
* `NoBreakAcrossPages`, `NothingSkippedOrRepeated`: its readers.
* `FileGoesForward`, `RecordedIsOnFile`, `AnchorPinsHistory`, `NoFalseAlarm`,
  `EditIsLocated`: the anchors.
* `GivenUpAfterTrying`: a delivery is not given up before `max_attempts`
  calls of the sink, and no row claims an attempt that was not made.
* `NotifiedIsRecorded`: who is reported as notified has a tried delivery.
* `EveryEventIsSettled`: liveness of both sweeps.
* `UnattendedIsReadOnly`, `DispatchHitsVerifiedDefinition`: registry, overlays,
  snapshots and preflight together.
* `AuthorizedByOneGrant`, `InstanceServesEnvironment`: authorization over changing
  grants.
* `ListedIsReachable`: what listings, metrics and audit events show to a member of one
  organization: operations it can read by their id, workflows it can describe.
  Who was denied a prepare is shown across organizations (`DenialsStayInOrganization`
  is false: section 6).
* `VerifiedCopyIsComplete`: a copy that is reported good has exactly the rows of
  the moment of the preflight, and every change in place from before the claim.
  It is not the source of one moment in the changes made since
  (`VerifiedCopyIsSnapshot` is false: section 6).
* `DestinationIsPrefix`: the copy of a source that gets no row has no hole.

Each is checked to fail under at least one mutant of the code. The type
invariants of `QuorumApproval`, `AuditLog`, `AuditAnchors` and `Notifications` are
stated in the modules and belong to no run; all four are part of what is proved.

### Bounds

* Two callers and the sweeper: every race in the lifecycle is between a reader
  that is about to write and one other writer; the sweeper is the third party
  that can take the row from both. Two operations are enough to fill and
  overrun a limit of one.
* Deadlines one tick long and a clock of 3 or 4: a deadline can pass between
  any two steps of a call, and an approval deadline followed by an execution
  deadline both fit. `Prepare` is only enabled while the deadline it sets can
  still pass, so that no run ends with a deadline out of reach.
* One crash: a second can only interrupt a call that did not know of the first,
  since calls share nothing but rows. (The proof has no such bound.)
* Three approvers, quorum two: two votes that complete the quorum together and
  a third that comes late. Four slots: one each and one duplicate.
* Idempotency: two calls race on one key, two argument sets tell a replay from a
  conflict, and three operations make a parent, a retry and a stranger, with a
  rate limit that one operation fills. `Moves` lets T05 and T10 happen, so that
  a parent can be live, running or expired, and be started after its deadline.
* Six entries by three writers: transactions of several entries, roll-backs in
  between, a writer waiting while two have finished. (The proof has no bound.)
  Pages of two: full, partial and empty pages over six entries, of which the
  caller of the listing may see five.
* Four entries under a restore: a database can fall behind the file, catch up
  to the very number that was anchored with another history, and pass it.
* Notifications: two alerts that two sessions take in opposite order can
  deadlock and can insert the same row; two attempts are a first and a last.
* Registry: two loads are the first snapshot and a second one, inserted by one
  of two administrators that overlap; two outside changes are an overlay and an
  edit of n8n, or two edits between prepare and execute. Every rule has a file
  that breaks only it.
* Authorization: four changes are enough to give a grant, remove it, create an
  environment and archive it around one call; the grants an administrator may
  make split roles and scopes over two rows. `MaxOperations` is one, since operations do not affect each
  other here.
* Copy: chunks of two over tables of two to six rows give a full, a partial and an
  empty chunk; two processes overlap and one may be started again. One change in
  place comes before or after the claim and before or after its row is read; two are
  what a mixture of moments takes (section 6).
* Symmetry is used on interchangeable sets in runs that check safety only, and
  in no run with liveness. With it, `DecisionsStand` and `ImplementsBallot` are properties of single
  steps in which approvers are interchangeable, and `ImplementsKeyedOperations` a
  refinement without fairness whose abstract state names neither callers nor
  arguments.

CHECK_DEADLOCK is off where the system may rest, when everything is settled or
a bound is reached. It is on in `authorization`, where a call can always begin
or end.

### Fairness

`FairSpec` asks for three things. A call that is running keeps running: its
network waits have timeouts and its transactions do not wait for ever
(`busy_timeout`, row locks held by calls that themselves finish), so `Step(s)`
is weakly fair for each session. The sweep loop in `approval/app.py` sleeps and
runs again, so `BeginExpiry(Sweeper)` is weakly fair. Time passes. Nothing obliges
anyone to approve, execute, or even to ask, and crashes are not fair. A refused
preflight is not fair either; an execution in the read phase is left by `Burn`,
which is enabled then.

In `Notifications` the two sweeps run on a schedule (strong fairness of their
beginning: they may be kept busy, but are started again), a session's next step
is strongly fair because the sink has a timeout and locks are granted in
order, and PostgreSQL breaks deadlocks. Crashes and requests are not fair. The
property assumes that the sweeps do not run into a deadlock every time.

## 4. Proofs

Every theorem is about all values of the constants that meet the named
assumptions of its module: any number of operations, callers, entries, events,
crashes and clock ticks. What a hypothesis beyond these restricts is said with
the theorem. Each proof module has one inductive invariant (`IInv`, with
extensions where needed), one lemma per action or per *shape* of action, and a
theorem per property.

| Module | Theorem | Property | Holds for |
|---|---|---|---|
| `OperationLifecycle_proofs` | `TypeCorrect`, `DispatchedAtMostOnce`, `Refinement`, `TrailIsAPath`, `ResultsMatch`, `ExecutionsAreAuthorized`, `RefusalsAreFinal` | `TypeOK`, `AtMostOneRun`, `ImplementsContract`, `TrailExplainsState`, `ResultMatchesState`, `ExecutionIsAuthorized`, `RefusalIsFinal` | both databases, v1 and v2 |
| | `ExecutionsAreCapped` | `ConcurrencyCap` | SQLite, by the property's own words |
| | `ExecutionsAreAttended` | `ExecutionIsAttended` | v1 roles (`~EnableV2`); in v2 it is false, section 6 |
| `QuorumApproval_proofs` | `QuorumBeforeApproval`, `NoQuorumIsMissed` | `ApprovalNeedsQuorum`, `NoStrandedQuorum` | both databases |
| | `OneRejectionDecides`, `DecisionsAreKept`, `VotesAreABallot` | `RejectionIsFinal`, `DecisionsStand`, `ImplementsBallot` | PostgreSQL (`RowLocks`); on SQLite a recorded decision can be overwritten, section 6 |
| `IdempotentPrepare_proofs` | `TypeCorrect`, `Refinement`, `LimitIsPassedByFewerThanTheCalls`, `RetriesAreOfFinishedParents` | `TypeOK`, `ImplementsKeyedOperations`, `OvershootIsBounded`, `RetryHasFinishedParent` | both databases, calls on stale copies included |
| `LogAndCopy_proofs` | `SequenceHasNoGap`, `Refinement`, `PagesAreContiguous` | `SeqIsGapFree`, `ImplementsAppendOnlyLog`, `NothingSkippedOrRepeated` | SQLite (`SingleWriter`) |
| | `ChainIsIntact`, `PagesShowNoBreak` | `ChainVerifies`, `NoBreakAcrossPages` | SQLite, transactions that write a row before the entry (`Serialized`); otherwise false, section 6 |
| | `VerifiedCopies`, `CopyHasNoHole` | `VerifiedCopyIsComplete`, `DestinationIsPrefix` | any source, chunk size and number of processes; by their own words the one while no two processes overlap, the other while the source gets no row |
| `AuditAnchors_proofs` | `FileOnlyGoesForward`, `ReceiptsAreOnFile`, `VerifiedAnchorPinsHistory`, `NoAlarmWithoutTampering`, `EditIsTheOnlyBreak` | `FileGoesForward`, `RecordedIsOnFile`, `AnchorPinsHistory`, `NoFalseAlarm`, `EditIsLocated` | whatever is edited or restored; the first two while no crash has cut a line short, by their own words |
| `Registry_proofs` | `UnattendedOnlyReads`, `DispatchHitsTheVerified` | `UnattendedIsReadOnly`, `DispatchHitsVerifiedDefinition` | all files and instances |
| `Authorization_proofs` | `OneGrantAuthorizes`, `InstanceIsTheEnvironments`, `WhatIsListedCanBeRead` | `AuthorizedByOneGrant`, `InstanceServesEnvironment`, `ListedIsReachable` | finitely many environments |
| `Notifications_proofs` | `TypeCorrect`, `GivenUpOnlyAfterTrying`, `NotifiedAreRecorded` | `TypeOK`, `GivenUpAfterTrying`, `NotifiedIsRecorded` | finitely many events, both databases |

### OperationLifecycle

`AtMostOneRun` is not inductive: nothing in it says why a second call could not
dispatch. `IInv` adds the reasons, in three groups. *CallsInv*: a call about an
operation holds exactly that operation, and only executions pass the read phase.
*VersionInv*: a version that was read is not newer than the row's, and if the row
still has it, the row is in a state in which that kind of call reads it. This is
the soundness of the compare-and-set, and rests on every write raising the
version. *RunsInv*: an operation that never executed was never dispatched, a call
about to dispatch is the first, and no two calls are past T10 on one operation.
It follows that T10 applies at most once: it needs an unmoved row, hence
APPROVED, hence nobody past T10.

Each group is proved by reducing every action to one of a few shapes (a call
starts, goes on or returns; rows move forward; nothing about runs changes).
Types and `RunsInv` are by cases on `Next`. `NextImplements` maps each step to a
step of the contract or a stutter: it needs `IInv` for `Run` (the operation is
EXECUTING and has no run), for `Resolve` (an answer means a run) and for expiry
and the decisions (the state the row is in).

Because the compare-and-set is sound, whatever a step is, what it does to one
operation is one of three things: nothing (`RowStays`), its creation
(`RowIsCreated`), or one transition of the table from the state the row is really
in, with the decision, result, handle and report that belong to it (`RowMoves`).
`NextIsRowStep` shows this action by action; `RowInv` is then preserved by each
of the three. It states more than the properties: the trail of an existing
operation has at least two entries, so the second, which tells T05 from T04, is
never overwritten; and a reported approval outlives the state APPROVED.

The cap rests on the write lock: a call that has counted keeps it until T10 is
committed, so at most one call is past the count (`OneBurn`) and while it is
there is room (`RoomForBurn`). `Attended` says that in v1 a call that executes is
its operation's owner's, so the tool's look at the owner and the service's agree.

### QuorumApproval

The argument is the lock (`RowIsHeld`). From its tally to its commit a call holds
the operation's row or SQLite's one write lock, so what it has tallied is still so
when it commits (`CallInv`). That is enough, on either database, for the quorum:
no approval without it, none missed. On PostgreSQL the call has the row from its
opening on, and what it has read then (the version, the approver's slot) is still
so as well; on SQLite all that remains is that the slot is its approver's, whose
recorded decision it may replace. That does the quorum no harm: only a
rejection could take an approval away, and one that is recorded makes the operation
REJECTED (`RejectionSettles`). Routing takes no lock, but mints
a slot only while nobody holds the row, and never a decided one. The properties
are proved together (`VotesInv`), since a tally is right only if it was right before.

For the refinement, whoever is deciding has not decided yet (`NotYetDecided`), so
a commit adds its approver to one of the two sets of deciders and leaves the other
alone (`RecordedDeciders`): it is `Approve` or `Reject` of `Ballot`, or nothing if
the transaction is taken back (`CommitIsAVote`). `Cancel` and `Expire` are `Close`,
`Prepare` is `Open`, and no other step moves state or decisions.

### IdempotentPrepare

The argument is the unique constraint, over uncommitted rows too (`UniqueKeys`):
every uncommitted row is the one its own call inserted, so an insert that finds
its key neither committed nor pending is the only one. A committed row never
loses its key, arguments or parent. The rate limit is a count: committed
operations of the window and calls past the check are together less than the
limit plus all callers (`LimitInv`); a check is passed only below the limit, and
each insert uses up a call that had passed. For retries, `IsRetryOfDone` adds to
the property what is true before the commit. A parent that was read, or really
expired, in a retryable state stays in one (`DoneStays`), and a call whose expiry was lost
knows so until its retry is among the `overtaken` (`LossIsKnown`). `Ancestors`, the least set
closed under parents, gets its recursion from lemmas about what contains it.

### AuditLog and its readers

Who is in a transaction holds the lock (`LockHeld`), a tip that was read is still
the tip (`TipIsFresh`), and the log and what each transaction sees of it are
`Sound`: finite, numbered without a gap, linked. Two lemmas about data carry it:
a row behind all others that hashes the last extends a chain (`ExtendVerifies`)
and a numbering (`ExtendGapFree`). For the numbering and the refinement the tip
does not matter and the lock is enough (`NumberInv`): who has uncommitted rows
has the lock, so that nobody else commits. In a log without gaps the place of a
row in seq order is its number (`RowsBefore`), so a commit extends the history at
its end (`OrderedGrows`).

The readers add `ReadsInv`: what has been read from the front is all that is
before the page to come (`FrontIsRead`), and what has been shown from the end is
a window of the log without a hole (`Window`). Rows that are added are numbered
behind all that is there (`GrowsBehind`), so that neither is disturbed by a
commit; a page extends either (`PageFromFront`, `PageExtends`). A prefix of a
chain is a chain (`PrefixVerifies`), and a descending sequence of all the rows of
a set is that set in order (`DescendingIsReverse`).

### PostgresCopy

The counts of operations prove nothing: an operation that moves keeps its row. What
makes a good report good is the other table. Every transition adds an
event, so either no event was added since the preflight, and what was read is the
source of the preflight (`IsSnapshot`), or the table of events, copied to its end afterwards, has
more rows than were counted, and the report is not good (`CopiedAll`). `FileIsTrue`
says this of the tables a checkpoint records, `RunIsAlone` of the process that
works on it, which found the destination empty or took up the file.

A change in place is in no count, so all there is to say of it rests on the order of
steps (`MarksOk`): the destination was empty when it was claimed, whatever was read
since shows what had been changed by then, and a change is never undone, so that
none is `Missed` by a process that works alone.

That what is copied of a source at rest is a beginning of its table is an invariant
of its own and holds for overlapping processes too (`Steady`): an offset is never
beyond what the destination has (`RunIsBounded`), the chunk that was read is the
slice there, and an insert is refused if it repeats a key, so that what is accepted
is what comes next. Lemmas about keys carry it: the rows of a beginning are those whose
place is within their number (`BeginningHasFirstPlaces`), a slice that repeats none
of them extends it (`SliceExtends`), and one that is empty means that nothing is
left (`EmptySliceIsEnd`).

### AuditAnchors

The database and any backup of it hold a *history*: rows numbered without a gap,
each with the hash of the one before, of which at most one was edited, in its
content only. A hash found in the log therefore pins all that comes before it.
`AnchoredInv` says that without a restore everything anchored is in the log, and
`FileInv` that while no line was cut short the file goes forward and receipts,
recorded or about to be, name their line.

### Registry, Authorization, Notifications

In all three the properties speak of what is committed, and the invariant of
what an open call has established that later changes cannot touch.

* `Registry`: its contract is an admitted entry under an admitted overlay, some
  definition has its hash and serves its trigger, and the one found at execute
  time has the same hash (`OpInv`). `RegistryAssumption` is that a file that
  parses has the schema's fields.
* `Authorization`: the call has seen every grant that is active now
  (`SeesGrants`), and the instance it chose is still right for any environment it
  can yet resolve to, unless the caller's live environments changed since
  (`InstanceStands`). An administrator's step is one shape (`Change`).
  `ListedIsReachable` is about single states; it holds wherever the memberships
  are finitely many, which is what `FinitelyManyMemberships` shows. The entries about
  workflows are in scope (`AuditedIsInScope`), and a workflow in the scope of one
  membership can be described under it (`ScopeCanBeDescribed`).
* `Notifications`: every copy a session has read, and everything it has written,
  claims no attempt that was not made (`Session`, `Honest`). Calls of the sink
  are not undone and rows are never deleted, so that no commit or roll-back of
  another session makes it false.

### Only model-checked

Liveness (`OverdueIsSettled`, `ExecutionResolves`, `EveryEventIsSettled`) is out
of the prover's reach, and so is ENABLED. Every invariant, action property and
refinement that a passing run checks is proved, with the hypotheses of the table.
Two things are checked only on the instances of the runs: that the constants of a
run meet what is assumed of them, and what a recursive definition computes for every
input, which would need induction over data. Where such a definition stood in the
way the model states directly what it computes (`InSeqOrder` by the place of a row,
`Slice` of the copy by the place of a key, `InOrder` of `Notifications` as any sorted
sequence of the keys, `Ancestors` of `IdempotentPrepare` as a least set).

## 5. What is not modelled

* Configuration, log formats, redaction, the aggregation of metrics: data and
  formatting. Whose operations a metric counts is in `Authorization`.
* Parsing of YAML, JSON Schema validation of arguments, canonicalization of n8n
  definitions. Canonicalization is an assumption of `Preflight`
  (`CanonicalForm`): equal hashes mean the same webhook and bindings.
* Tokens, signatures, the OIDC key cache and HTTP security: taken as sound.
* The webhook anchor sink, which keeps no state on this side.
* Alembic migrations: generated, linear.
* How long a lock is held. A call that waits too long dies (`Crash`).
* In `PostgresCopy`: rows that are deleted, and a crash after the checkpoint is
  removed and before the repeated audit verification (the next start is refused,
  the destination not being empty). Two processes that overlap on a source in use are modelled, and
  excepted from `VerifiedCopyIsComplete`.
* Other tools than `prepare_operation` as calls in flight in `Authorization`:
  execute, approve and retry authorize in the transaction that acts.

Out of reach of the prover: liveness under fairness, ENABLED, and induction over
data; those stay with TLC.

## 6. Where code and documents disagree

Met while modelling; `findings` of `PROJECT.json` quotes the lines. Two have a
run:

| Run | Disagreement |
|---|---|
| `audit_log_fork` | on PostgreSQL concurrent use cases fork the hash chain |
| `registry_overlay` | an overlay's trigger is offered and preflighted at prepare time, and ignored by execute and dispatch |

These can be seen by checking a property that the modules state, or by changing a
constant of a run:

| Disagreement | How to see it |
|---|---|
| a concurrency refusal of `execute_operation` burns the handle, since the MCP tool commits; the docstring says it is rolled back | `RefusedExecutionKeepsHandle` in `lifecycle_sqlite.cfg` |
| the deadline of T10 is tested before the live preflight, not with T10 | `NoLateExecution`, same |
| an executor admitted by role commits T10 and is refused by `dispatch_operation`; the operation stays EXECUTING | `ExecutionIsAttended` in `lifecycle_postgres.cfg` (no crash, v2 roles) |
| concurrent routing (or routing and a vote) mints two slots for one approver, who then cannot decide | `OneSlotPerApprover` in `quorum_postgres.cfg` |
| SQLite does not order a decision's read and write as the comment on `get_for_update` claims | `DecisionsStand` with `SingleWriter = TRUE` |
| on SQLite, transactions that write only an audit entry fork the chain | `ChainVerifies` with `AuditOnly = TRUE` in `audit_log_sqlite.cfg` |
| a publish after an interrupted write joins its line to the fragment; later the file audit calls it tampering | `FileVerifies` in `audit_anchors.cfg` |
| a lost insert replays an operation with other arguments, where a conflict is promised | `ReplayHasTheArguments` in `idempotent_prepare.cfg` |
| a retry whose lazy expiry of the parent lost to an execution is admitted; parent and child are both under way, against AC-50 | `RetryOnlyOfFinished` in `idempotent_prepare.cfg` |
| the audit events of a workflow tell a member of one organization who was denied a prepare in another; the docstring of `list_page` and a test marked as failing call this open | `DenialsStayInOrganization` in `authorization.cfg` |
| the copy of a database in use is reported good with one of two changes in place and not the earlier one, since counts do not see updates | `VerifiedCopyIsSnapshot` in `postgres_copy.cfg` with `MaxBurns = 2` |
| overlapping sweeps take back attempts, or a delivery | `DeliveredIsFinal` in `notifications.cfg` |
| the alert sweep lists the oldest rows only, and UNKNOWN rows never leave | `EveryEventIsSettled` with `ListLimit = 1` |
| listings join the patterns of several organizations, reads do not | `ListedIsReachable` without its first antecedent |
| an environment that is omitted is resolved twice | `InstanceServesEnvironment` without its exception |

The rest follows from the code as it is read: a vote below the quorum is accepted on a closed operation;
a lost lazy expiry can return the state it failed to write; `audit_log.seq` has
gaps on PostgreSQL, which the check of an anchor against a copy does not expect;
reloading an earlier registry does not make it active again; a stored overlay is
not checked against a new base; the rate limit refuses replays; `mark_failed` is
not final; execute does not look at `archived_at`; the copy compares with the
preflight's counts; the local principal's grant comes back; a publish after a
restore is a silent success, not an error, when the backup's tip had been
anchored.

## 7. What could come next

1. A composition of lifecycle, quorum and audit log for one operation: every
   transition has its entry, in the order of the transitions.
2. Calls of execute, approve and retry in `Authorization`.
