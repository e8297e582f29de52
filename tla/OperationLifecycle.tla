-------------------------- MODULE OperationLifecycle --------------------------
(***************************************************************************)
(* The governed lifecycle of operations on one shared database:            *)
(* core/service.py driven by the MCP tools, the CLI, the approval page and *)
(* the expiry sweeper, each in a session of its own.                       *)
(*                                                                         *)
(* A call is two phases.  It READS the operation (an ORM row that nothing  *)
(* refreshes afterwards) and decides from what it read; then it WRITES with *)
(* a compare-and-set on the version it read.  Anything can happen between  *)
(* the two.  A write transaction is atomic; the one that is not is the     *)
(* burn / count / T10 sequence of execute_operation on PostgreSQL, where   *)
(* only the operation's row is locked until commit.                        *)
(*                                                                         *)
(* Who rolls back matters.  An MCP tool answers an OperatorError from      *)
(* inside its session_scope, which then commits what was already written;  *)
(* the CLI and the approval page catch the error outside it, which rolls   *)
(* back.                                                                   *)
(***************************************************************************)
EXTENDS StateMachine, Sequences, FiniteSets

CONSTANTS
  Operations,      \* operation ids; all of one workflow, so one max_concurrent
  Principals,      \* who may call
  Sessions,        \* concurrent calls: MCP requests, CLI runs, page posts
  Sweeper,         \* the approval app's own session, which only expires
  None,            \* no session, no principal
  MaxConcurrent,   \* the workflow's limits.max_concurrent
  ApprovalTTL, ExecutionTTL,
  SingleWriter,    \* TRUE: SQLite, one write transaction; FALSE: PostgreSQL
  EnableV2,        \* roles other than the owner may reach an operation
  MaxTime,         \* bound of the clock
  MaxCrashes       \* bound on calls that die (process, lock timeout, error)

ASSUME LifecycleAssumption ==
  /\ MaxConcurrent \in Nat /\ ApprovalTTL \in Nat /\ ExecutionTTL \in Nat
  /\ MaxTime \in Nat /\ MaxCrashes \in Nat
  /\ SingleWriter \in BOOLEAN /\ EnableV2 \in BOOLEAN
  /\ Sweeper \notin Sessions
  /\ None \notin Sessions \union {Sweeper} \union Principals

AllSessions == Sessions \union {Sweeper}

VARIABLES
  \* The operations table.
  state, stateVersion, handleBurned, approvalExpiresAt, executionDeadline, owner,
  events,      \* operation_events: the transition ids applied, in order
  decision,    \* the approvals row: "none" when T05 or no T04, else as stored
  result,      \* execution_results.status, "none" when there is no row
  \* The rest of the world.
  runs,        \* how often n8n has received the operation's dispatch
  clock,
  lock,        \* row locks held by a transaction that stays open across steps
  crashes,
  \* One call per session: where it is, what it was asked, what it read.
  pc, kind, target, by, seen, outcome,
  told         \* the successes reported back, as <<kind, operation>>

rowVars == <<state, stateVersion, handleBurned, approvalExpiresAt,
             executionDeadline, owner, events, decision, result>>
callVars == <<pc, kind, target, by, seen, outcome>>
vars == <<rowVars, runs, clock, lock, crashes, callVars, told>>

Kinds == {"approve", "reject", "cancel", "execute", "expire"}
Outcomes == {"success", "error", "indeterminate"}
Ran == {"EXECUTING", "SUCCEEDED", "FAILED", "UNKNOWN"}

TypeOK ==
  /\ state \in [Operations -> States \union {NoState}]
  /\ stateVersion \in [Operations -> Nat]
  /\ handleBurned \in [Operations -> BOOLEAN]
  /\ approvalExpiresAt \in [Operations -> Nat]
  /\ executionDeadline \in [Operations -> Nat]
  /\ owner \in [Operations -> Principals \union {None}]
  /\ events \in [Operations -> Seq(TransitionIds)]
  /\ decision \in [Operations -> {"none", "pending", "approved", "rejected"}]
  /\ result \in [Operations -> Outcomes \union {"none"}]
  /\ runs \in [Operations -> Nat]
  /\ clock \in Nat
  /\ lock \in [Operations -> AllSessions \union {None}]
  /\ crashes \in Nat
  /\ pc \in [AllSessions -> {"idle", "read", "burned", "dispatch", "record"}]
  /\ kind \in [AllSessions -> Kinds]
  /\ target \in [AllSessions -> SUBSET Operations]
  /\ by \in [AllSessions -> Principals \union {None}]
  /\ seen \in [AllSessions -> [Operations -> Nat]]
  /\ outcome \in [AllSessions -> Outcomes \union {"none"}]
  /\ told \in SUBSET ({"approve", "reject", "cancel"} \X Operations)

Init ==
  /\ state = [o \in Operations |-> NoState]
  /\ stateVersion = [o \in Operations |-> 0]
  /\ handleBurned = [o \in Operations |-> FALSE]
  /\ approvalExpiresAt = [o \in Operations |-> 0]
  /\ executionDeadline = [o \in Operations |-> 0]
  /\ owner = [o \in Operations |-> None]
  /\ events = [o \in Operations |-> <<>>]
  /\ decision = [o \in Operations |-> "none"]
  /\ result = [o \in Operations |-> "none"]
  /\ runs = [o \in Operations |-> 0]
  /\ clock = 0
  /\ lock = [o \in Operations |-> None]
  /\ crashes = 0
  /\ pc = [s \in AllSessions |-> "idle"]
  /\ kind = [s \in AllSessions |-> "expire"]
  /\ target = [s \in AllSessions |-> {}]
  /\ by = [s \in AllSessions |-> None]
  /\ seen = [s \in AllSessions |-> [o \in Operations |-> 0]]
  /\ outcome = [s \in AllSessions |-> "none"]
  /\ told = {}

-----------------------------------------------------------------------------
(* Helpers.                                                                *)

Overdue(o) ==
  OverdueExpiry(state[o], clock, approvalExpiresAt[o], executionDeadline[o])

\* Mutant: a sweep that selects by approval_expires_at only.
OverdueOperations_PendingOnly ==
  {o \in Operations : state[o] = "PENDING_APPROVAL" /\ Overdue(o)}

OverdueOperations == {o \in Operations : Overdue(o)}

\* A write waits for row locks of other sessions; SQLite has one for all rows.
MayWrite(s, ops) ==
  \A o \in Operations : (o \in ops \/ SingleWriter) => lock[o] \in {s, None}

\* Mutant: an UPDATE without the version in its WHERE clause.
Unmoved_Unchecked(s, o) == TRUE

\* compare_and_set_state: does the row still have the version the call read?
Unmoved(s, o) == stateVersion[o] = seen[s][o]

\* apply_transition on one row: the new state, the next version, one event.
ApplyTransition(s, o, t) ==
  /\ state' = [state EXCEPT ![o] = TRANSITIONS[t].to]
  /\ stateVersion' = [stateVersion EXCEPT ![o] = seen[s][o] + 1]
  /\ events' = [events EXCEPT ![o] = Append(@, t)]

UnmovedRow == UNCHANGED <<state, stateVersion, events>>

\* The call returns: nothing of it is remembered.
Return(s) ==
  /\ pc' = [pc EXCEPT ![s] = "idle"]
  /\ kind' = [kind EXCEPT ![s] = "expire"]
  /\ target' = [target EXCEPT ![s] = {}]
  /\ by' = [by EXCEPT ![s] = None]
  /\ seen' = [seen EXCEPT ![s] = [o \in Operations |-> 0]]
  /\ outcome' = [outcome EXCEPT ![s] = "none"]

\* The end of its transaction releases what it locked.
Release(s) == lock' = [o \in Operations |-> IF lock[o] = s THEN None ELSE lock[o]]

\* The operation a one-operation call is about.
Subject(s) == CHOOSE o \in target[s] : TRUE

\* Mutant: the time to live taken away from now instead of added.
Deadline_Past(ttl) == clock - ttl

\* expires_at and execution_deadline: a time to live from now.
Deadline(ttl) == clock + ttl

-----------------------------------------------------------------------------
(* prepare_operation, committed as one transaction.                        *)

\* T01 followed by T02 (invalid arguments), T03 (preflight), T04 or T05.  With
\* T04 a v1 prepare also writes the operation's approvals row.  The guard on
\* the clock is a bound: the deadline it sets can still pass.
Prepare(o, p, t) ==
  /\ state[o] = NoState
  /\ clock + (IF t = "T04" THEN ApprovalTTL ELSE ExecutionTTL) < MaxTime
  /\ \A q \in Operations : SingleWriter => lock[q] = None
  /\ state' = [state EXCEPT ![o] = TRANSITIONS[t].to]
  /\ stateVersion' = [stateVersion EXCEPT ![o] = 2]
  /\ events' = [events EXCEPT ![o] = <<"T01", t>>]
  /\ owner' = [owner EXCEPT ![o] = p]
  /\ approvalExpiresAt' =
       [approvalExpiresAt EXCEPT ![o] = IF t = "T04" THEN Deadline(ApprovalTTL) ELSE 0]
  /\ executionDeadline' =
       [executionDeadline EXCEPT ![o] = IF t = "T05" THEN Deadline(ExecutionTTL) ELSE 0]
  /\ decision' = [decision EXCEPT ![o] = IF t = "T04" THEN "pending" ELSE "none"]
  /\ UNCHANGED <<handleBurned, result, runs, clock, lock, crashes, callVars, told>>

-----------------------------------------------------------------------------
(* The read phase.                                                         *)

BeginCall(s, k, p, ops) ==
  /\ pc[s] = "idle"
  /\ pc' = [pc EXCEPT ![s] = "read"]
  /\ kind' = [kind EXCEPT ![s] = k]
  /\ target' = [target EXCEPT ![s] = ops]
  /\ by' = [by EXCEPT ![s] = p]
  /\ seen' = [seen EXCEPT ![s] =
                [o \in Operations |-> IF o \in ops THEN stateVersion[o] ELSE 0]]
  /\ UNCHANGED <<rowVars, runs, clock, crashes, outcome, told>>

\* _get_owned_operation_row: the owner, or in v2 a role that covers the tool.
MayReach(p, o) == owner[o] = p \/ EnableV2

\* A human decides a pending operation, on the approval page or by the CLI.  (In
\* v2 this is the vote that completes the quorum.)  The read is a SELECT FOR
\* UPDATE, which locks the row on PostgreSQL and does nothing on SQLite.
BeginDecision(s, k, o, p) ==
  /\ k \in {"approve", "reject"}
  /\ state[o] = "PENDING_APPROVAL"
  /\ ~Overdue(o)
  /\ IF SingleWriter THEN UNCHANGED lock
     ELSE lock[o] = None /\ lock' = [lock EXCEPT ![o] = s]
  /\ BeginCall(s, k, p, {o})

\* Mutant: a cancel that also accepts an operation n8n may be running.
BeginCancel_AnyTime(s, o, p) ==
  /\ MayReach(p, o)
  /\ state[o] \in {"PENDING_APPROVAL", "APPROVED", "EXECUTING"}
  /\ ~Overdue(o)
  /\ BeginCall(s, "cancel", p, {o})
  /\ UNCHANGED lock

\* cancel_operation reads a row it may withdraw.
BeginCancel(s, o, p) ==
  /\ MayReach(p, o)
  /\ state[o] \in {"PENDING_APPROVAL", "APPROVED"}
  /\ ~Overdue(o)
  /\ BeginCall(s, "cancel", p, {o})
  /\ UNCHANGED lock

\* Mutant: an execute that does not wait for the approval.
BeginExecute_Unapproved(s, o, p) ==
  /\ MayReach(p, o)
  /\ ~handleBurned[o]
  /\ state[o] \in {"PENDING_APPROVAL", "APPROVED"}
  /\ ~Overdue(o)
  /\ BeginCall(s, "execute", p, {o})
  /\ UNCHANGED lock

\* execute_operation passes every check it makes on the row it read, and goes
\* on to ask n8n for a live preflight with that row in hand.
BeginExecute(s, o, p) ==
  /\ MayReach(p, o)
  /\ ~handleBurned[o]
  /\ state[o] = "APPROVED"
  /\ ~Overdue(o)
  /\ BeginCall(s, "execute", p, {o})
  /\ UNCHANGED lock

\* A read that finds its own operation overdue, or a sweep over all of them.
BeginExpiry(s) ==
  /\ OverdueOperations # {}
  /\ \/ s \in Sessions /\ \E o \in OverdueOperations : BeginCall(s, "expire", None, {o})
     \/ BeginCall(s, "expire", None, OverdueOperations)
  /\ UNCHANGED lock

-----------------------------------------------------------------------------
(* The write phase.                                                        *)

InWrite(s, k) ==
  /\ pc[s] = "read"
  /\ kind[s] = k
  /\ MayWrite(s, target[s])

\* T06: the approvals row is decided with the transition.  A lost
\* compare-and-set raises InvalidStateTransition and changes nothing.
Approve(s) ==
  LET o == Subject(s) IN
  /\ InWrite(s, "approve")
  /\ \/ /\ Unmoved(s, o)
        /\ ApplyTransition(s, o, "T06")
        /\ executionDeadline' = [executionDeadline EXCEPT ![o] = Deadline(ExecutionTTL)]
        /\ decision' = [decision EXCEPT ![o] = "approved"]
        /\ told' = told \union {<<"approve", o>>}
     \/ /\ ~Unmoved(s, o)
        /\ UnmovedRow
        /\ UNCHANGED <<executionDeadline, decision, told>>
  /\ Return(s)
  /\ Release(s)
  /\ UNCHANGED <<handleBurned, approvalExpiresAt, owner, result, runs, clock, crashes>>

\* T07.
Reject(s) ==
  LET o == Subject(s) IN
  /\ InWrite(s, "reject")
  /\ \/ /\ Unmoved(s, o)
        /\ ApplyTransition(s, o, "T07")
        /\ decision' = [decision EXCEPT ![o] = "rejected"]
        /\ told' = told \union {<<"reject", o>>}
     \/ /\ ~Unmoved(s, o)
        /\ UnmovedRow
        /\ UNCHANGED <<decision, told>>
  /\ Return(s)
  /\ Release(s)
  /\ UNCHANGED <<handleBurned, approvalExpiresAt, executionDeadline, owner, result,
                 runs, clock, crashes>>

\* T09 or T12, by the state the call read, which an unmoved row still has.
Cancel(s) ==
  LET o == Subject(s) IN
  /\ InWrite(s, "cancel")
  /\ \/ /\ Unmoved(s, o)
        /\ ApplyTransition(s, o, IF state[o] = "APPROVED" THEN "T12" ELSE "T09")
        /\ told' = told \union {<<"cancel", o>>}
     \/ /\ ~Unmoved(s, o)
        /\ UnmovedRow
        /\ UNCHANGED told
  /\ Return(s)
  /\ UNCHANGED <<handleBurned, approvalExpiresAt, executionDeadline, owner, decision,
                 result, runs, clock, lock, crashes>>

\* _apply_lazy_expiry on each row the call read as overdue: T08 or T11 where it
\* still has its version, nothing where somebody else has moved it.
ExpireOverdue(s) ==
  LET moved == {o \in target[s] : Unmoved(s, o)} IN
  /\ InWrite(s, "expire")
  /\ state' = [o \in Operations |->
                 IF o \in moved THEN TRANSITIONS[ExpiryTransition(state[o])].to ELSE state[o]]
  /\ stateVersion' = [o \in Operations |->
                        IF o \in moved THEN seen[s][o] + 1 ELSE stateVersion[o]]
  /\ events' = [o \in Operations |->
                  IF o \in moved THEN Append(events[o], ExpiryTransition(state[o]))
                  ELSE events[o]]
  /\ Return(s)
  /\ UNCHANGED <<handleBurned, approvalExpiresAt, executionDeadline, owner, decision,
                 result, runs, clock, lock, crashes, told>>

-----------------------------------------------------------------------------
(* execute_operation after its reads, and dispatch_operation.              *)

\* The live preflight is not ready: refused before anything is written.
RefuseExecute(s) ==
  /\ pc[s] = "read" /\ kind[s] = "execute"
  /\ Return(s)
  /\ UNCHANGED <<rowVars, runs, clock, lock, crashes, told>>

\* Executing operations of the workflow, as this transaction sees them.
Executing == {o \in Operations : state[o] = "EXECUTING"}

\* Mutant: an off-by-one in the limit.
LimitReached_OffByOne == Cardinality(Executing) > MaxConcurrent

\* limits.max_concurrent, asked of count_in_states.
LimitReached == Cardinality(Executing) >= MaxConcurrent

\* burn_handle and the max_concurrent count.  The burn takes the row lock and
\* looks only at handle_burned_at, not at the version.  Three outcomes: the
\* handle was burned already; the limit is reached, and the MCP tool commits
\* the burn as it answers the error; or the transaction goes on, still open.
Burn(s) ==
  LET o == Subject(s) IN
  /\ InWrite(s, "execute")
  /\ \/ /\ handleBurned[o]
        /\ Return(s)
        /\ UNCHANGED <<handleBurned, lock>>
     \/ /\ ~handleBurned[o]
        /\ LimitReached
        /\ handleBurned' = [handleBurned EXCEPT ![o] = TRUE]
        /\ Return(s)
        /\ UNCHANGED lock
     \/ /\ ~handleBurned[o]
        /\ ~LimitReached
        /\ lock' = [lock EXCEPT ![o] = s]
        /\ pc' = [pc EXCEPT ![s] = "burned"]
        /\ UNCHANGED <<handleBurned, kind, target, by, seen, outcome>>
  /\ UNCHANGED <<state, stateVersion, approvalExpiresAt, executionDeadline, owner,
                 events, decision, result, runs, clock, crashes, told>>

\* T10 and commit, which publishes the burn too.  If the row had moved before
\* the burn locked it, T10 is refused and the MCP tool commits the burn alone.
StartExecution(s) ==
  LET o == Subject(s) IN
  /\ pc[s] = "burned"
  /\ handleBurned' = [handleBurned EXCEPT ![o] = TRUE]
  /\ Release(s)
  /\ \/ /\ Unmoved(s, o)
        /\ ApplyTransition(s, o, "T10")
        /\ pc' = [pc EXCEPT ![s] = "dispatch"]
        /\ UNCHANGED <<kind, target, by, seen, outcome>>
     \/ /\ ~Unmoved(s, o)
        /\ UnmovedRow
        /\ Return(s)
  /\ UNCHANGED <<approvalExpiresAt, executionDeadline, owner, decision, result, runs,
                 clock, crashes, told>>

\* How often n8n may have been reached when a dispatch ends in this way: an answer
\* means it was; no answer means nothing about that.
RunsAfter(o, result_) ==
  IF result_ = "indeterminate" THEN {runs[o], runs[o] + 1} ELSE {runs[o] + 1}

\* Mutant: a dispatch that tries again when n8n did not answer.
Dispatch_Retrying(s) ==
  LET o == Subject(s) IN
  /\ pc[s] = "dispatch"
  /\ \E answer \in Outcomes :
       /\ \E n \in RunsAfter(o, answer) : runs' = [runs EXCEPT ![o] = n]
       /\ outcome' = [outcome EXCEPT ![s] = answer]
       /\ pc' = [pc EXCEPT ![s] = IF answer = "indeterminate" THEN "dispatch" ELSE "record"]
  /\ UNCHANGED <<rowVars, clock, lock, crashes, kind, target, by, seen, told>>

\* Mutant: a dispatch that raises when n8n did not answer, recording nothing.
Dispatch_Raising(s) ==
  LET o == Subject(s) IN
  /\ pc[s] = "dispatch"
  /\ \/ /\ \E n \in RunsAfter(o, "indeterminate") : runs' = [runs EXCEPT ![o] = n]
        /\ Return(s)
     \/ /\ \E answer \in Outcomes \ {"indeterminate"} :
             /\ \E n \in RunsAfter(o, answer) : runs' = [runs EXCEPT ![o] = n]
             /\ outcome' = [outcome EXCEPT ![s] = answer]
        /\ pc' = [pc EXCEPT ![s] = "record"]
        /\ UNCHANGED <<kind, target, by, seen>>
  /\ UNCHANGED <<rowVars, clock, lock, crashes, told>>

\* dispatch_operation up to the answer, with no transaction open.  Its own look
\* at the operation is by ownership alone, whatever the tool allowed.
Dispatch(s) ==
  LET o == Subject(s) IN
  /\ pc[s] = "dispatch"
  /\ \/ /\ owner[o] # by[s] \/ state[o] # "EXECUTING"
        /\ Return(s)
        /\ UNCHANGED runs
     \/ /\ owner[o] = by[s] /\ state[o] = "EXECUTING"
        /\ \E answer \in Outcomes :
             /\ \E n \in RunsAfter(o, answer) : runs' = [runs EXCEPT ![o] = n]
             /\ outcome' = [outcome EXCEPT ![s] = answer]
        /\ pc' = [pc EXCEPT ![s] = "record"]
        /\ UNCHANGED <<kind, target, by, seen>>
  /\ UNCHANGED <<rowVars, clock, lock, crashes, told>>

\* Mutant: no answer taken for a failure.
OutcomeTransition_NoAnswerIsFailure(answer) ==
  IF answer = "success" THEN "T13" ELSE "T14"

\* How an execution that ended in this way is recorded.
OutcomeTransition(answer) ==
  IF answer = "success" THEN "T13" ELSE IF answer = "error" THEN "T14" ELSE "T15"

\* record_execution_outcome reads the row again: T13, T14 or T15 and the
\* execution_results row, in one transaction.
RecordOutcome(s) ==
  LET o == Subject(s) IN
  /\ pc[s] = "record"
  /\ MayWrite(s, {o})
  /\ \/ /\ state[o] = "EXECUTING"
        /\ result' = [result EXCEPT ![o] = outcome[s]]
        /\ state' = [state EXCEPT ![o] = TRANSITIONS[OutcomeTransition(outcome[s])].to]
        /\ stateVersion' = [stateVersion EXCEPT ![o] = @ + 1]
        /\ events' = [events EXCEPT ![o] = Append(@, OutcomeTransition(outcome[s]))]
     \/ /\ state[o] # "EXECUTING"
        /\ UnmovedRow
        /\ UNCHANGED result
  /\ Return(s)
  /\ UNCHANGED <<handleBurned, approvalExpiresAt, executionDeadline, owner, decision,
                 runs, clock, lock, crashes, told>>

-----------------------------------------------------------------------------
(* The environment.                                                        *)

\* The call dies where it stands: its process is killed, or a database error
\* (a lock timeout, a lost connection) aborts its transaction.
Crash(s) ==
  /\ pc[s] # "idle"
  /\ crashes < MaxCrashes
  /\ crashes' = crashes + 1
  /\ Release(s)
  /\ Return(s)
  /\ UNCHANGED <<rowVars, runs, clock, told>>

Tick ==
  /\ clock < MaxTime
  /\ clock' = clock + 1
  /\ UNCHANGED <<rowVars, runs, lock, crashes, callVars, told>>

Request(s) ==
  \E o \in Operations, p \in Principals :
    \/ \E k \in {"approve", "reject"} : BeginDecision(s, k, o, p)
    \/ BeginCancel(s, o, p)
    \/ BeginExecute(s, o, p)

Step(s) ==
  \/ Approve(s) \/ Reject(s) \/ Cancel(s) \/ ExpireOverdue(s)
  \/ Burn(s) \/ StartExecution(s) \/ Dispatch(s) \/ RecordOutcome(s)

Next ==
  \/ \E o \in Operations, p \in Principals, t \in {"T02", "T03", "T04", "T05"} : Prepare(o, p, t)
  \/ \E s \in Sessions : Request(s)
  \/ \E s \in AllSessions : BeginExpiry(s) \/ Step(s) \/ RefuseExecute(s) \/ Crash(s)
  \/ Tick

Spec == Init /\ [][Next]_vars

\* Fairness the scheduling justifies: a call that is running keeps running (its
\* network waits are bounded by timeouts), the sweep loop comes round again,
\* and time passes.  Nobody is obliged to ask for anything.
FairSpec ==
  /\ Spec
  /\ \A s \in AllSessions : WF_vars(Step(s))
  /\ WF_vars(BeginExpiry(Sweeper))
  /\ WF_vars(Tick)

-----------------------------------------------------------------------------
(* Properties.                                                             *)

Contract == INSTANCE OperationContract WITH phase <- state

\* The whole service, with its stale reads, crashes and open transactions,
\* keeps the promise of OperationContract: only edges of the table, at most one
\* dispatch per operation, no outcome without a dispatch.
ImplementsContract == Contract!Spec

\* The trail of operation_events of an operation is a path of the table from
\* nothing to its present state, one event per version (I1, I2, I6): two calls
\* that both read it never both move it from there.
TrailExplainsState ==
  \A o \in Operations :
    LET trail == events[o] IN
    /\ stateVersion[o] = Len(trail)
    /\ trail = <<>> => state[o] = NoState
    /\ trail # <<>> => /\ TRANSITIONS[trail[1]].from = NoState
                       /\ TRANSITIONS[trail[Len(trail)]].to = state[o]
    /\ \A i \in 2 .. Len(trail) :
         TRANSITIONS[trail[i]].from = TRANSITIONS[trail[i - 1]].to

\* n8n receives an operation's dispatch at most once, whatever is retried, raced or
\* interrupted (I3, I4, ADR-005): the handle is single use.
AtMostOneRun == \A o \in Operations : runs[o] <= 1

\* An operation that is, or was, executing holds a burned handle and either
\* needed no approval or has the recorded approval of a human (I3, boundary B4).
ExecutionIsAuthorized ==
  \A o \in Operations : state[o] \in Ran =>
    /\ handleBurned[o]
    /\ \/ decision[o] = "approved" /\ <<"approve", o>> \in told
       \/ decision[o] = "none" /\ events[o][2] = "T05"

\* A caller told that it rejected or canceled an operation can rely on it: the
\* operation does not run afterwards, and a rejection and an approval are never
\* both reported.
RefusalIsFinal ==
  \A o \in Operations :
    /\ <<"reject", o>> \in told => state[o] = "REJECTED" /\ decision[o] = "rejected"
    /\ <<"cancel", o>> \in told => state[o] = "CANCELED"
    /\ {<<"reject", o>>, <<"cancel", o>>} \cap told # {} => runs[o] = 0
    /\ ~({<<"reject", o>>, <<"approve", o>>} \subseteq told)

\* On SQLite the count that follows the burn is taken under the write lock, so
\* no interleaving of executions exceeds the workflow's max_concurrent.
ConcurrencyCap == SingleWriter => Cardinality(Executing) <= MaxConcurrent

\* A stored result belongs to a resolved execution and says what its state says.
ResultMatchesState ==
  \A o \in Operations :
    /\ result[o] = "success" <=> state[o] = "SUCCEEDED"
    /\ result[o] = "error" <=> state[o] = "FAILED"
    /\ result[o] = "indeterminate" <=> state[o] = "UNKNOWN"

\* Unless a call has died, an executing operation is in the hands of exactly one
\* call that will record its outcome: no slot of max_concurrent leaks.
ExecutionIsAttended ==
  crashes = 0 =>
    \A o \in Operations : state[o] = "EXECUTING" =>
      Cardinality({s \in AllSessions :
                     pc[s] \in {"dispatch", "record"} /\ target[s] = {o}}) = 1

\* An operation past its deadline does not stay open: lazy expiry or the sweep
\* moves it, unless a call that read it in time settles it first (ADR-010).
OverdueIsSettled == \A o \in Operations : Overdue(o) ~> ~Overdue(o)

\* Every execution that the operation's owner started ends in an outcome, with no
\* call dying (ARCHITECTURE.md: EXECUTING is stranded by a crash only).
ExecutionResolves ==
  \A o \in Operations :
    (\E s \in Sessions : pc[s] = "dispatch" /\ target[s] = {o} /\ by[s] = owner[o])
      ~> state[o] \in {"SUCCEEDED", "FAILED", "UNKNOWN"}

\* execute_operation's docstring: a refused attempt leaves the operation as it
\* was, APPROVED and with its handle unburned.
RefusedExecutionKeepsHandle ==
  \A o \in Operations : state[o] = "APPROVED" => ~handleBurned[o]

\* Invariant I9 and the guard of T10: no operation is acted upon in a state
\* whose deadline has passed.
NoLateExecution ==
  [][\A o \in Operations :
       state[o] = "APPROVED" /\ state'[o] = "EXECUTING" => clock <= executionDeadline[o]]_vars
=============================================================================
