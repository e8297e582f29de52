---------------------- MODULE OperationLifecycle_proofs ----------------------
(***************************************************************************)
(* Theorems about OperationLifecycle, for every set of operations and of   *)
(* sessions, both databases, and every bound.                              *)
(*                                                                         *)
(* The inductive invariant says what a call in progress may rely on: the   *)
(* compare-and-set is sound, and one call at most executes an operation.   *)
(* From it follow, in this order: n8n runs an operation at most once; the  *)
(* lifecycle implements OperationContract; the trail, the decision, the    *)
(* result and what callers were told agree with the row; and the executing *)
(* rows are within the limit and attended by a call.                       *)
(***************************************************************************)
EXTENDS OperationLifecycle, FiniteSetTheorems, TLAPS

-----------------------------------------------------------------------------
(* The inductive invariant.                                                *)

\* A call about one operation holds exactly that operation.
OneSubject ==
  \A s \in AllSessions :
    pc[s] # "idle" /\ kind[s] # "expire" => \E o \in Operations : target[s] = {o}

\* Only an execution gets past the read phase.
ExecutionOnly ==
  \A s \in AllSessions : pc[s] \in {"burned", "dispatch", "record"} => kind[s] = "execute"

\* A row that does not exist yet has version zero.
FreshVersion == \A o \in Operations : state[o] = NoState => stateVersion[o] = 0

\* What a call read is not newer than the row.
SeenIsPast == \A s \in AllSessions, o \in Operations : seen[s][o] <= stateVersion[o]

\* The states in which a call of each kind reads the operations it is about.
ReadStates(k) ==
  IF k \in {"approve", "reject"} THEN {"PENDING_APPROVAL"}
  ELSE IF k = "execute" THEN {"APPROVED"}
  ELSE {"PENDING_APPROVAL", "APPROVED"}

\* The compare-and-set is sound: a row with the version that was read is in the
\* state that was read.
UnmovedMeansUnchanged ==
  \A s \in AllSessions : pc[s] \in {"read", "burned"} =>
    \A o \in target[s] : Unmoved(s, o) => state[o] \in ReadStates(kind[s])

\* n8n is asked only on behalf of an executing operation.
RunsNeedExecution == \A o \in Operations : state[o] \notin Ran => runs[o] = 0

\* A call that is about to dispatch is the first to do so.
DispatchIsFirst ==
  \A s \in AllSessions, o \in Operations :
    pc[s] = "dispatch" /\ target[s] = {o} => state[o] = "EXECUTING" /\ runs[o] = 0

\* A call that has dispatched finds the operation as it left it, and n8n got the
\* dispatch if it answered.
RecordIsDue ==
  \A s \in AllSessions, o \in Operations :
    pc[s] = "record" /\ target[s] = {o} =>
      /\ state[o] = "EXECUTING"
      /\ outcome[s] \in {"success", "error"} => runs[o] = 1

\* No two calls execute one operation.
OneExecutor ==
  \A s, r \in AllSessions :
    /\ s # r
    /\ pc[s] \in {"dispatch", "record"}
    /\ pc[r] \in {"dispatch", "record"}
    => target[s] # target[r]

\* What calls hold, what the compare-and-set rests on, what dispatches do.
CallsInv == OneSubject /\ ExecutionOnly
VersionInv == FreshVersion /\ SeenIsPast /\ UnmovedMeansUnchanged
RunsInv == RunsNeedExecution /\ DispatchIsFirst /\ RecordIsDue /\ OneExecutor /\ AtMostOneRun

IInv == TypeOK /\ CallsInv /\ VersionInv /\ RunsInv

-----------------------------------------------------------------------------
(* Facts about the table and about the parts actions are built from.       *)

\* The rows of the table that the actions use.
LEMMA TransitionTable ==
  /\ {"T01", "T02", "T03", "T04", "T05", "T06", "T07", "T08", "T09", "T10", "T11",
      "T12", "T13", "T14", "T15"} = TransitionIds
  /\ TRANSITIONS["T02"].to = "INVALID"
  /\ TRANSITIONS["T03"].to = "BLOCKED"
  /\ TRANSITIONS["T04"].to = "PENDING_APPROVAL"
  /\ TRANSITIONS["T05"].to = "APPROVED"
  /\ TRANSITIONS["T06"].to = "APPROVED"
  /\ TRANSITIONS["T07"].to = "REJECTED"
  /\ TRANSITIONS["T08"].to = "EXPIRED"
  /\ TRANSITIONS["T09"].to = "CANCELED"
  /\ TRANSITIONS["T10"].to = "EXECUTING"
  /\ TRANSITIONS["T11"].to = "EXPIRED"
  /\ TRANSITIONS["T12"].to = "CANCELED"
  /\ TRANSITIONS["T13"].to = "SUCCEEDED"
  /\ TRANSITIONS["T14"].to = "FAILED"
  /\ TRANSITIONS["T15"].to = "UNKNOWN"
  /\ \A t \in {"T06", "T07", "T09"} : TRANSITIONS[t].from = "PENDING_APPROVAL"
  /\ \A t \in {"T10", "T12"} : TRANSITIONS[t].from = "APPROVED"
  BY DEF TransitionIds, TRANSITIONS, Edge

\* A call about one operation finds it as its subject.
LEMMA SubjectIsTarget ==
  ASSUME OneSubject, NEW s \in AllSessions, pc[s] # "idle", kind[s] # "expire"
  PROVE  Subject(s) \in Operations /\ target[s] = {Subject(s)}
  <1>1. PICK o \in Operations : target[s] = {o}
    BY DEF OneSubject
  <1>2. Subject(s) = o
    BY <1>1 DEF Subject
  <1> QED  BY <1>1, <1>2

\* A call that returns leaves well-typed registers.
LEMMA ReturnIsTyped ==
  ASSUME TypeOK, NEW s \in AllSessions, Return(s)
  PROVE  /\ pc' \in [AllSessions -> {"idle", "read", "burned", "dispatch", "record"}]
         /\ kind' \in [AllSessions -> Kinds]
         /\ target' \in [AllSessions -> SUBSET Operations]
         /\ by' \in [AllSessions -> Principals \union {None}]
         /\ seen' \in [AllSessions -> [Operations -> Nat]]
         /\ outcome' \in [AllSessions -> Outcomes \union {"none"}]
  BY DEF TypeOK, Return, Kinds

\* So does one that releases its locks, and one that moves a row.
LEMMA ReleaseIsTyped ==
  ASSUME TypeOK, NEW s \in AllSessions, Release(s)
  PROVE  lock' \in [Operations -> AllSessions \union {None}]
  BY DEF TypeOK, Release

LEMMA ApplyIsTyped ==
  ASSUME TypeOK, NEW s \in AllSessions, NEW o \in Operations, NEW t \in TransitionIds,
         TRANSITIONS[t].to \in States, ApplyTransition(s, o, t)
  PROVE  /\ state' \in [Operations -> States \union {NoState}]
         /\ stateVersion' \in [Operations -> Nat]
         /\ events' \in [Operations -> Seq(TransitionIds)]
  <1>1. seen[s][o] + 1 \in Nat
    BY DEF TypeOK
  <1>2. Append(events[o], t) \in Seq(TransitionIds)
    BY DEF TypeOK
  <1> QED  BY <1>1, <1>2 DEF TypeOK, ApplyTransition

-----------------------------------------------------------------------------
(* The types.                                                              *)

LEMMA InitInvariant == Init => IInv
  <1> SUFFICES ASSUME Init PROVE IInv
    OBVIOUS
  <1>1. TypeOK
    BY LifecycleAssumption DEF Init, TypeOK, Kinds, AllSessions
  <1>2. OneSubject /\ ExecutionOnly /\ FreshVersion /\ SeenIsPast /\ UnmovedMeansUnchanged
    BY DEF Init, OneSubject, ExecutionOnly, FreshVersion, SeenIsPast, UnmovedMeansUnchanged
  <1>3. RunsNeedExecution /\ DispatchIsFirst /\ RecordIsDue /\ OneExecutor /\ AtMostOneRun
    BY DEF Init, RunsNeedExecution, DispatchIsFirst, RecordIsDue, OneExecutor, AtMostOneRun
  <1> QED  BY <1>1, <1>2, <1>3 DEF IInv, CallsInv, VersionInv, RunsInv

\* Every step keeps the types, given that a call knows its subject.
LEMMA NextKeepsTypes ==
  ASSUME TypeOK, OneSubject, ExecutionOnly, [Next]_vars
  PROVE  TypeOK'
  <1>1. ASSUME NEW o \in Operations, NEW p \in Principals,
               NEW t \in {"T02", "T03", "T04", "T05"}, Prepare(o, p, t)
        PROVE  TypeOK'
    <2>1. Deadline(ApprovalTTL) \in Nat /\ Deadline(ExecutionTTL) \in Nat
      BY LifecycleAssumption DEF Deadline, TypeOK
    <2>2. TRANSITIONS[t].to \in States
      BY TransitionTable DEF States
    <2>3. <<"T01", t>> \in Seq(TransitionIds)
      BY TransitionTable
    <2>4. /\ state' \in [Operations -> States \union {NoState}]
          /\ events' \in [Operations -> Seq(TransitionIds)]
      BY <1>1, <2>2, <2>3 DEF TypeOK, Prepare
    <2> QED  BY <1>1, <2>1, <2>4 DEF TypeOK, Prepare, callVars
  <1>2. ASSUME NEW s \in Sessions, Request(s)
        PROVE  TypeOK'
    <2>1. s \in AllSessions
      BY DEF AllSessions
    <2>2. PICK o \in Operations, p \in Principals, k \in Kinds :
            BeginCall(s, k, p, {o}) /\ (UNCHANGED lock \/ lock' = [lock EXCEPT ![o] = s])
      BY <1>2 DEF Request, BeginDecision, BeginCancel, BeginExecute, Kinds
    <2> QED  BY <2>1, <2>2 DEF TypeOK, BeginCall, rowVars
  <1>3. ASSUME NEW s \in AllSessions, BeginExpiry(s)
        PROVE  TypeOK'
    <2>1. PICK ops \in SUBSET Operations : BeginCall(s, "expire", None, ops) /\ UNCHANGED lock
      BY <1>3 DEF BeginExpiry, OverdueOperations
    <2> QED  BY <2>1 DEF TypeOK, BeginCall, rowVars, Kinds
  <1>4. ASSUME NEW s \in AllSessions, Approve(s)
        PROVE  TypeOK'
    <2> DEFINE o == Subject(s)
    <2>1. o \in Operations
      BY <1>4, SubjectIsTarget DEF Approve, InWrite
    <2>2. Deadline(ExecutionTTL) \in Nat
      BY LifecycleAssumption DEF Deadline, TypeOK
    <2>3. /\ state' \in [Operations -> States \union {NoState}]
          /\ stateVersion' \in [Operations -> Nat]
          /\ events' \in [Operations -> Seq(TransitionIds)]
      BY <1>4, <2>1, ApplyIsTyped, TransitionTable DEF Approve, UnmovedRow, TypeOK, States
    <2>4. told' \subseteq {"approve", "reject", "cancel"} \X Operations
      BY <1>4, <2>1 DEF Approve, TypeOK
    <2>5. /\ executionDeadline' \in [Operations -> Nat]
          /\ decision' \in [Operations -> {"none", "pending", "approved", "rejected"}]
      <3>1. CASE UNCHANGED <<executionDeadline, decision>>
        BY <3>1 DEF TypeOK
      <3>2. CASE /\ executionDeadline' = [executionDeadline EXCEPT ![o] = Deadline(ExecutionTTL)]
                 /\ decision' = [decision EXCEPT ![o] = "approved"]
        BY <2>2, <3>2 DEF TypeOK
      <3> QED  BY <1>4, <3>1, <3>2 DEF Approve
    <2>6. Return(s) /\ Release(s)
      BY <1>4 DEF Approve
    <2> QED
      BY <1>4, <2>3, <2>4, <2>5, <2>6, ReturnIsTyped, ReleaseIsTyped DEF Approve, TypeOK
  <1>5. ASSUME NEW s \in AllSessions, Reject(s)
        PROVE  TypeOK'
    <2> DEFINE o == Subject(s)
    <2>1. o \in Operations
      BY <1>5, SubjectIsTarget DEF Reject, InWrite
    <2>2. /\ state' \in [Operations -> States \union {NoState}]
          /\ stateVersion' \in [Operations -> Nat]
          /\ events' \in [Operations -> Seq(TransitionIds)]
      BY <1>5, <2>1, ApplyIsTyped, TransitionTable DEF Reject, UnmovedRow, TypeOK, States
    <2>3. told' \subseteq {"approve", "reject", "cancel"} \X Operations
      BY <1>5, <2>1 DEF Reject, TypeOK
    <2> QED
      BY <1>5, <2>2, <2>3, ReturnIsTyped, ReleaseIsTyped DEF Reject, TypeOK
  <1>6. ASSUME NEW s \in AllSessions, Cancel(s)
        PROVE  TypeOK'
    <2> DEFINE o == Subject(s)
    <2>1. o \in Operations
      BY <1>6, SubjectIsTarget DEF Cancel, InWrite
    <2>2. /\ state' \in [Operations -> States \union {NoState}]
          /\ stateVersion' \in [Operations -> Nat]
          /\ events' \in [Operations -> Seq(TransitionIds)]
      BY <1>6, <2>1, ApplyIsTyped, TransitionTable DEF Cancel, UnmovedRow, TypeOK, States
    <2>3. told' \subseteq {"approve", "reject", "cancel"} \X Operations
      BY <1>6, <2>1 DEF Cancel, TypeOK
    <2> QED
      BY <1>6, <2>2, <2>3, ReturnIsTyped DEF Cancel, TypeOK
  <1>7. ASSUME NEW s \in AllSessions, ExpireOverdue(s)
        PROVE  TypeOK'
    <2>1. \A x : /\ ExpiryTransition(x) \in TransitionIds
                 /\ TRANSITIONS[ExpiryTransition(x)].to \in States
      BY TransitionTable DEF ExpiryTransition, States
    <2>2. \A o \in Operations : /\ Append(events[o], ExpiryTransition(state[o])) \in Seq(TransitionIds)
                                /\ seen[s][o] + 1 \in Nat
      BY <2>1 DEF TypeOK
    <2>3. /\ state' \in [Operations -> States \union {NoState}]
          /\ stateVersion' \in [Operations -> Nat]
          /\ events' \in [Operations -> Seq(TransitionIds)]
      BY <1>7, <2>1, <2>2 DEF ExpireOverdue, TypeOK
    <2> QED  BY <1>7, <2>3, ReturnIsTyped DEF ExpireOverdue, TypeOK
  <1>8. ASSUME NEW s \in AllSessions, RefuseExecute(s)
        PROVE  TypeOK'
    BY <1>8, ReturnIsTyped DEF RefuseExecute, TypeOK, rowVars
  <1>9. ASSUME NEW s \in AllSessions, Burn(s)
        PROVE  TypeOK'
    <2>1. /\ pc' \in [AllSessions -> {"idle", "read", "burned", "dispatch", "record"}]
          /\ kind' \in [AllSessions -> Kinds]
          /\ target' \in [AllSessions -> SUBSET Operations]
          /\ by' \in [AllSessions -> Principals \union {None}]
          /\ seen' \in [AllSessions -> [Operations -> Nat]]
          /\ outcome' \in [AllSessions -> Outcomes \union {"none"}]
      <3>1. CASE Return(s)
        BY <3>1, ReturnIsTyped
      <3>2. CASE ~Return(s)
        BY <1>9, <3>2 DEF Burn, TypeOK
      <3> QED  BY <3>1, <3>2
    <2>2. /\ handleBurned' \in [Operations -> BOOLEAN]
          /\ lock' \in [Operations -> AllSessions \union {None}]
      <3> DEFINE o == Subject(s)
      <3>1. /\ UNCHANGED handleBurned \/ handleBurned' = [handleBurned EXCEPT ![o] = TRUE]
            /\ UNCHANGED lock \/ lock' = [lock EXCEPT ![o] = s]
        BY <1>9 DEF Burn
      <3> QED  BY <3>1 DEF TypeOK
    <2> QED  BY <1>9, <2>1, <2>2 DEF Burn, TypeOK
  <1>10. ASSUME NEW s \in AllSessions, StartExecution(s)
         PROVE  TypeOK'
    <2> DEFINE o == Subject(s)
    <2>1. o \in Operations
      BY <1>10, SubjectIsTarget DEF StartExecution, ExecutionOnly
    <2>2. /\ state' \in [Operations -> States \union {NoState}]
          /\ stateVersion' \in [Operations -> Nat]
          /\ events' \in [Operations -> Seq(TransitionIds)]
      BY <1>10, <2>1, ApplyIsTyped, TransitionTable DEF StartExecution, UnmovedRow, TypeOK, States
    <2>3. /\ pc' \in [AllSessions -> {"idle", "read", "burned", "dispatch", "record"}]
          /\ kind' \in [AllSessions -> Kinds]
          /\ target' \in [AllSessions -> SUBSET Operations]
          /\ by' \in [AllSessions -> Principals \union {None}]
          /\ seen' \in [AllSessions -> [Operations -> Nat]]
          /\ outcome' \in [AllSessions -> Outcomes \union {"none"}]
      BY <1>10, ReturnIsTyped DEF StartExecution, TypeOK
    <2> QED  BY <1>10, <2>2, <2>3, ReleaseIsTyped DEF StartExecution, TypeOK
  <1>11. ASSUME NEW s \in AllSessions, Dispatch(s)
         PROVE  TypeOK'
    <2> DEFINE o == Subject(s)
    <2>1. o \in Operations
      BY <1>11, SubjectIsTarget DEF Dispatch, ExecutionOnly
    <2>2. CASE Return(s) /\ UNCHANGED runs
      BY <1>11, <2>2, ReturnIsTyped DEF Dispatch, TypeOK, rowVars
    <2>3. CASE ~(Return(s) /\ UNCHANGED runs)
      <3>1. PICK answer \in Outcomes, n \in {runs[o], runs[o] + 1} :
              /\ runs' = [runs EXCEPT ![o] = n]
              /\ outcome' = [outcome EXCEPT ![s] = answer]
              /\ pc' = [pc EXCEPT ![s] = "record"]
              /\ UNCHANGED <<kind, target, by, seen>>
        BY <1>11, <2>3 DEF Dispatch, RunsAfter
      <3>2. n \in Nat
        BY <2>1, <3>1 DEF TypeOK
      <3> QED  BY <1>11, <3>1, <3>2 DEF Dispatch, TypeOK, rowVars
    <2> QED  BY <2>2, <2>3
  <1>12. ASSUME NEW s \in AllSessions, RecordOutcome(s)
         PROVE  TypeOK'
    <2> DEFINE o == Subject(s)
               t == OutcomeTransition(outcome[s])
    <2>1. o \in Operations
      BY <1>12, SubjectIsTarget DEF RecordOutcome, ExecutionOnly
    <2>2. t \in TransitionIds /\ TRANSITIONS[t].to \in States
      BY TransitionTable DEF OutcomeTransition, States
    <2>3. stateVersion[o] + 1 \in Nat /\ Append(events[o], t) \in Seq(TransitionIds)
      BY <2>1, <2>2 DEF TypeOK
    <2>4. /\ state' \in [Operations -> States \union {NoState}]
          /\ stateVersion' \in [Operations -> Nat]
          /\ events' \in [Operations -> Seq(TransitionIds)]
      <3>1. CASE UnmovedRow
        BY <3>1 DEF UnmovedRow, TypeOK
      <3>2. CASE ~UnmovedRow
        <4>1. /\ state' = [state EXCEPT ![o] = TRANSITIONS[t].to]
              /\ stateVersion' = [stateVersion EXCEPT ![o] = @ + 1]
              /\ events' = [events EXCEPT ![o] = Append(@, t)]
          BY <1>12, <3>2 DEF RecordOutcome
        <4> QED  BY <2>1, <2>2, <2>3, <4>1 DEF TypeOK
      <3> QED  BY <3>1, <3>2
    <2>5. result' \in [Operations -> Outcomes \union {"none"}]
      BY <1>12, <2>1 DEF RecordOutcome, TypeOK
    <2>6. Return(s)
      BY <1>12 DEF RecordOutcome
    <2> QED  BY <1>12, <2>4, <2>5, <2>6, ReturnIsTyped DEF RecordOutcome, TypeOK
  <1>13. ASSUME NEW s \in AllSessions, Crash(s)
         PROVE  TypeOK'
    <2>1. Return(s) /\ Release(s) /\ crashes' \in Nat
      BY <1>13 DEF Crash, TypeOK
    <2> QED  BY <1>13, <2>1, ReturnIsTyped, ReleaseIsTyped DEF Crash, TypeOK, rowVars
  <1>14. CASE Tick
    BY <1>14 DEF Tick, TypeOK, rowVars, callVars
  <1>15. CASE UNCHANGED vars
    BY <1>15 DEF vars, TypeOK, rowVars, callVars
  <1> QED
    BY <1>1, <1>2, <1>3, <1>4, <1>5, <1>6, <1>7, <1>8, <1>9, <1>10, <1>11, <1>12,
       <1>13, <1>14, <1>15 DEF Next, Step

-----------------------------------------------------------------------------
(* The shape of a step: what may happen to a row and to a call's registers. *)

\* A row keeps its state and version, or its version grows.
RowsMoveForward ==
  \A o \in Operations :
    \/ state'[o] = state[o] /\ stateVersion'[o] = stateVersion[o]
    \/ stateVersion'[o] > stateVersion[o] /\ state'[o] # NoState

\* A call starts, returns, or goes on with what it holds.
Starts(s) ==
  /\ pc'[s] = "read"
  /\ kind'[s] # "expire" => \E o \in Operations : target'[s] = {o}
  /\ \A o \in Operations : seen'[s][o] \in {0, stateVersion[o]}
  /\ \A o \in target'[s] : state[o] \in ReadStates(kind'[s])
  /\ UNCHANGED <<state, stateVersion>>

Returns(s) ==
  pc'[s] = "idle" /\ target'[s] = {} /\ \A o \in Operations : seen'[s][o] = 0

GoesOn(s) ==
  /\ UNCHANGED <<kind[s], target[s], seen[s]>>
  /\ \/ UNCHANGED pc[s]
     \/ kind[s] = "execute" /\ pc[s] = "read" /\ pc'[s] = "burned"
     \/ kind[s] = "execute" /\ pc[s] \in {"burned", "dispatch"}
                            /\ pc'[s] \in {"dispatch", "record"}

CallsMoveOn == \A s \in AllSessions : Starts(s) \/ Returns(s) \/ GoesOn(s)

LEMMA ShapeKeepsCalls ==
  ASSUME TypeOK, CallsInv, CallsMoveOn
  PROVE  CallsInv'
  <1>1. OneSubject'
    <2> SUFFICES ASSUME NEW s \in AllSessions, pc'[s] # "idle", kind'[s] # "expire"
                 PROVE  \E o \in Operations : target'[s] = {o}
      BY DEF OneSubject
    <2>1. CASE Starts(s)
      BY <2>1 DEF Starts
    <2>2. CASE GoesOn(s)
      BY <2>2 DEF GoesOn, CallsInv, OneSubject
    <2> QED  BY <2>1, <2>2 DEF CallsMoveOn, Returns
  <1>2. ExecutionOnly'
    <2> SUFFICES ASSUME NEW s \in AllSessions, pc'[s] \in {"burned", "dispatch", "record"}
                 PROVE  kind'[s] = "execute"
      BY DEF ExecutionOnly
    <2>1. GoesOn(s)
      BY DEF CallsMoveOn, Starts, Returns
    <2> QED  BY <2>1 DEF GoesOn, CallsInv, ExecutionOnly
  <1> QED  BY <1>1, <1>2 DEF CallsInv

LEMMA ShapeKeepsVersions ==
  ASSUME TypeOK, TypeOK', CallsInv, VersionInv, RowsMoveForward, CallsMoveOn
  PROVE  VersionInv'
  <1>1. FreshVersion'
    BY DEF VersionInv, FreshVersion, RowsMoveForward
  <1>2. SeenIsPast'
    <2> SUFFICES ASSUME NEW s \in AllSessions, NEW o \in Operations
                 PROVE  seen'[s][o] <= stateVersion'[o]
      BY DEF SeenIsPast
    <2>1. stateVersion[o] \in Nat /\ stateVersion'[o] \in Nat /\ stateVersion[o] <= stateVersion'[o]
      <3>1. stateVersion[o] \in Nat /\ stateVersion'[o] \in Nat
        BY DEF TypeOK
      <3> QED  BY <3>1 DEF RowsMoveForward
    <2>2. CASE Starts(s)
      BY <2>1, <2>2 DEF Starts
    <2>3. CASE Returns(s)
      BY <2>1, <2>3 DEF Returns
    <2>4. CASE GoesOn(s)
      <3>1. seen[s][o] \in Nat /\ seen[s][o] <= stateVersion[o] /\ seen'[s][o] = seen[s][o]
        BY <2>4 DEF GoesOn, VersionInv, SeenIsPast, TypeOK
      <3> QED  BY <2>1, <3>1
    <2> QED  BY <2>2, <2>3, <2>4 DEF CallsMoveOn
  <1>3. UnmovedMeansUnchanged'
    <2> SUFFICES ASSUME NEW s \in AllSessions, pc'[s] \in {"read", "burned"},
                        NEW o \in target'[s], stateVersion'[o] = seen'[s][o]
                 PROVE  state'[o] \in ReadStates(kind'[s])
      BY DEF UnmovedMeansUnchanged, Unmoved, ReadStates
    <2>1. o \in Operations
      BY DEF TypeOK
    <2>2. CASE Starts(s)
      BY <2>2 DEF Starts
    <2>3. CASE GoesOn(s)
      <3>1. pc[s] \in {"read", "burned"} /\ o \in target[s] /\ kind'[s] = kind[s]
            /\ seen'[s][o] = seen[s][o]
        BY <2>3 DEF GoesOn
      <3>2. seen[s][o] \in Nat /\ seen[s][o] <= stateVersion[o] /\ stateVersion[o] \in Nat
        BY <2>1 DEF VersionInv, SeenIsPast, TypeOK
      <3>3. state'[o] = state[o] /\ stateVersion'[o] = stateVersion[o]
        BY <2>1, <3>1, <3>2 DEF RowsMoveForward
      <3>4. state[o] \in ReadStates(kind[s])
        BY <3>1, <3>3 DEF VersionInv, UnmovedMeansUnchanged, Unmoved
      <3> QED  BY <3>1, <3>3, <3>4
    <2> QED  BY <2>2, <2>3 DEF CallsMoveOn, Returns
  <1> QED  BY <1>1, <1>2, <1>3 DEF VersionInv

-----------------------------------------------------------------------------
(* Every step has that shape.                                              *)

LEMMA ReturnShape ==
  ASSUME TypeOK, NEW s \in AllSessions, Return(s)
  PROVE  CallsMoveOn
  BY DEF TypeOK, Return, CallsMoveOn, Returns, GoesOn

LEMMA IdleShape ==
  ASSUME UNCHANGED callVars
  PROVE  CallsMoveOn
  BY DEF callVars, CallsMoveOn, GoesOn

LEMMA BeginShape ==
  ASSUME TypeOK, NEW s \in AllSessions, NEW k \in Kinds, NEW p, NEW ops \in SUBSET Operations,
         BeginCall(s, k, p, ops), \A o \in ops : state[o] \in ReadStates(k),
         k # "expire" => \E o \in Operations : ops = {o}
  PROVE  RowsMoveForward /\ CallsMoveOn
  <1>1. UNCHANGED <<state, stateVersion>>
    BY DEF BeginCall, rowVars
  <1>2. Starts(s)
    BY <1>1 DEF BeginCall, TypeOK, Starts
  <1>3. \A r \in AllSessions : r # s => GoesOn(r)
    BY DEF BeginCall, TypeOK, GoesOn
  <1> QED  BY <1>1, <1>2, <1>3 DEF RowsMoveForward, CallsMoveOn

LEMMA ApplyShape ==
  ASSUME TypeOK, NEW s \in AllSessions, NEW o \in Operations, NEW t,
         TRANSITIONS[t].to # NoState, Unmoved(s, o), ApplyTransition(s, o, t)
  PROVE  RowsMoveForward
  <1>1. stateVersion[o] \in Nat /\ stateVersion'[o] = stateVersion[o] + 1
    BY DEF TypeOK, ApplyTransition, Unmoved
  <1> QED  BY <1>1 DEF TypeOK, ApplyTransition, RowsMoveForward

LEMMA UnmovedRowShape ==
  ASSUME UNCHANGED <<state, stateVersion>>
  PROVE  RowsMoveForward
  BY DEF RowsMoveForward

LEMMA NextHasShape ==
  ASSUME TypeOK, CallsInv, VersionInv, [Next]_vars
  PROVE  RowsMoveForward /\ CallsMoveOn
  <1>1. ASSUME NEW o \in Operations, NEW p \in Principals,
               NEW t \in {"T02", "T03", "T04", "T05"}, Prepare(o, p, t)
        PROVE  RowsMoveForward /\ CallsMoveOn
    <2>1. stateVersion[o] = 0 /\ TRANSITIONS[t].to # NoState
      BY <1>1, TransitionTable DEF Prepare, VersionInv, FreshVersion, NoState
    <2>2. RowsMoveForward
      BY <1>1, <2>1 DEF Prepare, TypeOK, RowsMoveForward
    <2> QED  BY <1>1, <2>2, IdleShape DEF Prepare
  <1>2. ASSUME NEW s \in Sessions, Request(s)
        PROVE  RowsMoveForward /\ CallsMoveOn
    <2>1. PICK o \in Operations, p \in Principals, k \in Kinds :
            BeginCall(s, k, p, {o}) /\ state[o] \in ReadStates(k)
      BY <1>2 DEF Request, BeginDecision, BeginCancel, BeginExecute, Kinds, ReadStates
    <2> QED  BY <2>1, BeginShape DEF AllSessions
  <1>3. ASSUME NEW s \in AllSessions, BeginExpiry(s)
        PROVE  RowsMoveForward /\ CallsMoveOn
    <2>1. \A o \in OverdueOperations : o \in Operations /\ state[o] \in ReadStates("expire")
      BY DEF OverdueOperations, Overdue, OverdueExpiry, ReadStates
    <2>2. PICK ops \in SUBSET OverdueOperations : BeginCall(s, "expire", None, ops)
      BY <1>3 DEF BeginExpiry
    <2> QED  BY <2>1, <2>2, BeginShape DEF Kinds
  <1>4. ASSUME NEW s \in AllSessions, Approve(s) \/ Reject(s) \/ Cancel(s)
        PROVE  RowsMoveForward /\ CallsMoveOn
    <2> DEFINE o == Subject(s)
    <2>1. o \in Operations
      BY <1>4, SubjectIsTarget DEF Approve, Reject, Cancel, InWrite, CallsInv
    <2>2. CASE UnmovedRow
      BY <1>4, <2>2, UnmovedRowShape, ReturnShape DEF Approve, Reject, Cancel, UnmovedRow
    <2>3. CASE ~UnmovedRow
      <3>1. PICK t \in {"T06", "T07", "T09", "T12"} : Unmoved(s, o) /\ ApplyTransition(s, o, t)
        BY <1>4, <2>3 DEF Approve, Reject, Cancel
      <3>2. TRANSITIONS[t].to # NoState
        BY TransitionTable DEF NoState
      <3> QED  BY <1>4, <2>1, <3>1, <3>2, ApplyShape, ReturnShape DEF Approve, Reject, Cancel
    <2> QED  BY <2>2, <2>3
  <1>5. ASSUME NEW s \in AllSessions, ExpireOverdue(s)
        PROVE  RowsMoveForward /\ CallsMoveOn
    <2>1. \A x : TRANSITIONS[ExpiryTransition(x)].to # NoState
      BY TransitionTable DEF ExpiryTransition, NoState
    <2>2. \A o \in Operations : /\ stateVersion[o] \in Nat
                                /\ Unmoved(s, o) => seen[s][o] = stateVersion[o]
      BY DEF TypeOK, Unmoved
    <2>3. RowsMoveForward
      BY <1>5, <2>1, <2>2 DEF ExpireOverdue, RowsMoveForward
    <2> QED  BY <1>5, <2>3, ReturnShape DEF ExpireOverdue
  <1>6. ASSUME NEW s \in AllSessions, RefuseExecute(s) \/ Crash(s)
        PROVE  RowsMoveForward /\ CallsMoveOn
    BY <1>6, UnmovedRowShape, ReturnShape DEF RefuseExecute, Crash, rowVars
  <1>7. ASSUME NEW s \in AllSessions, Burn(s)
        PROVE  RowsMoveForward /\ CallsMoveOn
    <2>1. UNCHANGED <<state, stateVersion>>
      BY <1>7 DEF Burn
    <2>2. CASE Return(s)
      BY <2>1, <2>2, ReturnShape, UnmovedRowShape
    <2>3. CASE ~Return(s)
      <3>1. /\ kind[s] = "execute" /\ pc[s] = "read" /\ pc' = [pc EXCEPT ![s] = "burned"]
            /\ UNCHANGED <<kind, target, seen>>
        BY <1>7, <2>3 DEF Burn, InWrite
      <3> QED  BY <2>1, <3>1, UnmovedRowShape DEF TypeOK, CallsMoveOn, GoesOn
    <2> QED  BY <2>2, <2>3
  <1>8. ASSUME NEW s \in AllSessions, StartExecution(s)
        PROVE  RowsMoveForward /\ CallsMoveOn
    <2> DEFINE o == Subject(s)
    <2>1. o \in Operations /\ kind[s] = "execute" /\ pc[s] = "burned"
      BY <1>8, SubjectIsTarget DEF StartExecution, CallsInv, ExecutionOnly
    <2>2. CASE UnmovedRow /\ Return(s)
      BY <2>2, UnmovedRowShape, ReturnShape DEF UnmovedRow
    <2>3. CASE ~(UnmovedRow /\ Return(s))
      <3>1. /\ Unmoved(s, o) /\ ApplyTransition(s, o, "T10")
            /\ pc' = [pc EXCEPT ![s] = "dispatch"]
            /\ UNCHANGED <<kind, target, seen>>
        BY <1>8, <2>3 DEF StartExecution
      <3>2. RowsMoveForward
        BY <2>1, <3>1, ApplyShape, TransitionTable DEF NoState
      <3> QED  BY <2>1, <3>1, <3>2 DEF TypeOK, CallsMoveOn, GoesOn
    <2> QED  BY <2>2, <2>3
  <1>9. ASSUME NEW s \in AllSessions, Dispatch(s)
        PROVE  RowsMoveForward /\ CallsMoveOn
    <2>1. RowsMoveForward
      BY <1>9, UnmovedRowShape DEF Dispatch, rowVars
    <2>2. kind[s] = "execute" /\ pc[s] = "dispatch"
      BY <1>9 DEF Dispatch, CallsInv, ExecutionOnly
    <2>3. CASE Return(s)
      BY <2>1, <2>3, ReturnShape
    <2>4. CASE ~Return(s)
      <3>1. pc' = [pc EXCEPT ![s] = "record"] /\ UNCHANGED <<kind, target, seen>>
        BY <1>9, <2>4 DEF Dispatch
      <3> QED  BY <2>1, <2>2, <3>1 DEF TypeOK, CallsMoveOn, GoesOn
    <2> QED  BY <2>3, <2>4
  <1>10. ASSUME NEW s \in AllSessions, RecordOutcome(s)
         PROVE  RowsMoveForward /\ CallsMoveOn
    <2> DEFINE o == Subject(s)
               t == OutcomeTransition(outcome[s])
    <2>1. CASE UnmovedRow
      BY <1>10, <2>1, UnmovedRowShape, ReturnShape DEF RecordOutcome, UnmovedRow
    <2>2. CASE ~UnmovedRow
      <3>1. /\ state' = [state EXCEPT ![o] = TRANSITIONS[t].to]
            /\ stateVersion' = [stateVersion EXCEPT ![o] = @ + 1]
        BY <1>10, <2>2 DEF RecordOutcome
      <3>2. TRANSITIONS[t].to # NoState
        BY TransitionTable DEF OutcomeTransition, NoState
      <3>3. \A q \in Operations : stateVersion[q] \in Nat
        BY DEF TypeOK
      <3>4. RowsMoveForward
        BY <3>1, <3>2, <3>3 DEF TypeOK, RowsMoveForward
      <3> QED  BY <1>10, <3>4, ReturnShape DEF RecordOutcome
    <2> QED  BY <2>1, <2>2
  <1>11. CASE Tick
    BY <1>11, UnmovedRowShape, IdleShape DEF Tick, rowVars
  <1>12. CASE UNCHANGED vars
    BY <1>12, UnmovedRowShape, IdleShape DEF vars, rowVars
  <1> QED
    BY <1>1, <1>2, <1>3, <1>4, <1>5, <1>6, <1>7, <1>8, <1>9, <1>10, <1>11, <1>12
       DEF Next, Step

-----------------------------------------------------------------------------
(* At most one run.                                                        *)

\* Most steps leave running operations, dispatching calls and n8n alone.
Quiet ==
  /\ UNCHANGED runs
  /\ \A o \in Operations : state'[o] = state[o] \/ {state[o], state'[o]} \cap Ran = {}
  /\ \A s \in AllSessions : pc'[s] \in {"dispatch", "record"} =>
       pc'[s] = pc[s] /\ target'[s] = target[s] /\ outcome'[s] = outcome[s]

LEMMA QuietKeepsRuns ==
  ASSUME TypeOK, RunsInv, Quiet
  PROVE  RunsInv'
  <1>1. RunsNeedExecution'
    BY DEF RunsInv, RunsNeedExecution, Quiet
  <1>2. DispatchIsFirst'
    BY DEF RunsInv, DispatchIsFirst, Quiet, Ran
  <1>3. RecordIsDue'
    <2> SUFFICES ASSUME NEW s \in AllSessions, NEW o \in Operations,
                        pc'[s] = "record", target'[s] = {o}
                 PROVE  state'[o] = "EXECUTING" /\ (outcome'[s] \in {"success", "error"} => runs'[o] = 1)
      BY DEF RecordIsDue
    <2>1. pc[s] = "record" /\ target[s] = {o} /\ outcome'[s] = outcome[s] /\ runs' = runs
      BY DEF Quiet
    <2>2. state[o] = "EXECUTING" /\ (outcome[s] \in {"success", "error"} => runs[o] = 1)
      BY <2>1 DEF RunsInv, RecordIsDue
    <2> QED  BY <2>1, <2>2 DEF Quiet, Ran
  <1>4. OneExecutor'
    BY DEF RunsInv, OneExecutor, Quiet
  <1>5. AtMostOneRun'
    BY DEF RunsInv, AtMostOneRun, Quiet
  <1> QED  BY <1>1, <1>2, <1>3, <1>4, <1>5 DEF RunsInv

\* Returning takes no call towards a dispatch.
LEMMA ReturnIsQuiet ==
  ASSUME TypeOK, NEW s \in AllSessions, Return(s), UNCHANGED runs,
         \A o \in Operations : state'[o] = state[o] \/ {state[o], state'[o]} \cap Ran = {}
  PROVE  Quiet
  BY DEF TypeOK, Return, Quiet

LEMMA NextKeepsRuns ==
  ASSUME TypeOK, CallsInv, VersionInv, RunsInv, [Next]_vars
  PROVE  RunsInv'
  <1>1. ASSUME NEW o \in Operations, NEW p \in Principals,
               NEW t \in {"T02", "T03", "T04", "T05"}, Prepare(o, p, t)
        PROVE  RunsInv'
    <2>1. TRANSITIONS[t].to \notin Ran /\ NoState \notin Ran
      BY TransitionTable DEF Ran, NoState
    <2>2. Quiet
      BY <1>1, <2>1 DEF Prepare, TypeOK, Quiet, callVars
    <2> QED  BY <2>2, QuietKeepsRuns
  <1>2. ASSUME NEW s \in AllSessions, NEW k, NEW p, NEW ops, BeginCall(s, k, p, ops)
        PROVE  RunsInv'
    <2>1. Quiet
      BY <1>2 DEF BeginCall, TypeOK, Quiet, rowVars
    <2> QED  BY <2>1, QuietKeepsRuns
  <1>3. ASSUME NEW s \in AllSessions, Approve(s) \/ Reject(s) \/ Cancel(s)
        PROVE  RunsInv'
    <2> DEFINE o == Subject(s)
    <2>1. /\ o \in Operations /\ o \in target[s]
          /\ pc[s] = "read" /\ kind[s] \in {"approve", "reject", "cancel"}
      BY <1>3, SubjectIsTarget DEF Approve, Reject, Cancel, InWrite, CallsInv
    <2>2. \A q \in Operations : state'[q] = state[q] \/ {state[q], state'[q]} \cap Ran = {}
      <3>1. CASE UnmovedRow
        BY <3>1 DEF UnmovedRow
      <3>2. CASE ~UnmovedRow
        <4>1. PICK t \in {"T06", "T07", "T09", "T12"} : Unmoved(s, o) /\ ApplyTransition(s, o, t)
          BY <1>3, <3>2 DEF Approve, Reject, Cancel
        <4>2. state[o] \in {"PENDING_APPROVAL", "APPROVED"}
          BY <2>1, <4>1 DEF VersionInv, UnmovedMeansUnchanged, ReadStates
        <4>3. TRANSITIONS[t].to \notin Ran
          BY TransitionTable DEF Ran
        <4> QED  BY <2>1, <4>1, <4>2, <4>3 DEF ApplyTransition, TypeOK, Ran
      <3> QED  BY <3>1, <3>2
    <2> QED
      BY <1>3, <2>2, ReturnIsQuiet, QuietKeepsRuns DEF Approve, Reject, Cancel
  <1>4. ASSUME NEW s \in AllSessions, ExpireOverdue(s)
        PROVE  RunsInv'
    <2>1. pc[s] = "read" /\ kind[s] = "expire"
      BY <1>4 DEF ExpireOverdue, InWrite
    <2>2. \A q \in target[s] : Unmoved(s, q) => state[q] \in {"PENDING_APPROVAL", "APPROVED"}
      BY <2>1 DEF VersionInv, UnmovedMeansUnchanged, ReadStates
    <2>3. \A x : TRANSITIONS[ExpiryTransition(x)].to \notin Ran
      BY TransitionTable DEF ExpiryTransition, Ran
    <2>4. \A q \in Operations : state'[q] = state[q] \/ {state[q], state'[q]} \cap Ran = {}
      BY <1>4, <2>2, <2>3 DEF ExpireOverdue, Ran
    <2> QED  BY <1>4, <2>4, ReturnIsQuiet, QuietKeepsRuns DEF ExpireOverdue
  <1>5. ASSUME NEW s \in AllSessions, RefuseExecute(s) \/ Crash(s)
        PROVE  RunsInv'
    BY <1>5, ReturnIsQuiet, QuietKeepsRuns DEF RefuseExecute, Crash, rowVars
  <1>6. ASSUME NEW s \in AllSessions, Burn(s)
        PROVE  RunsInv'
    <2>1. CASE Return(s)
      BY <1>6, <2>1, ReturnIsQuiet, QuietKeepsRuns DEF Burn
    <2>2. CASE ~Return(s)
      <3>1. Quiet
        BY <1>6, <2>2 DEF Burn, TypeOK, Quiet
      <3> QED  BY <3>1, QuietKeepsRuns
    <2> QED  BY <2>1, <2>2
  <1>7. ASSUME NEW s \in AllSessions, StartExecution(s)
        PROVE  RunsInv'
    <2> DEFINE o == Subject(s)
    <2>1. o \in Operations /\ target[s] = {o} /\ kind[s] = "execute" /\ pc[s] = "burned"
      BY <1>7, SubjectIsTarget DEF StartExecution, CallsInv, ExecutionOnly
    <2>2. CASE UnmovedRow /\ Return(s)
      BY <1>7, <2>2, ReturnIsQuiet, QuietKeepsRuns DEF StartExecution, UnmovedRow
    <2>3. CASE ~(UnmovedRow /\ Return(s))
      <3>1. /\ Unmoved(s, o) /\ ApplyTransition(s, o, "T10")
            /\ pc' = [pc EXCEPT ![s] = "dispatch"]
            /\ UNCHANGED <<target, outcome, runs>>
        BY <1>7, <2>3 DEF StartExecution
      <3>2. state[o] = "APPROVED"
        BY <2>1, <3>1 DEF VersionInv, UnmovedMeansUnchanged, ReadStates
      <3>3. state' = [state EXCEPT ![o] = "EXECUTING"] /\ runs[o] = 0
        BY <2>1, <3>1, <3>2, TransitionTable DEF ApplyTransition, RunsInv, RunsNeedExecution, Ran
      <3>4. \A r \in AllSessions : pc[r] \in {"dispatch", "record"} => target[r] # {o}
        BY <2>1, <3>2 DEF RunsInv, DispatchIsFirst, RecordIsDue
      <3>5. RunsNeedExecution' /\ AtMostOneRun'
        BY <3>1, <3>3 DEF RunsInv, RunsNeedExecution, AtMostOneRun, TypeOK, Ran
      <3>6. DispatchIsFirst' /\ RecordIsDue'
        <4>1. pc'[s] = "dispatch" /\ target'[s] = {o} /\ state'[o] = "EXECUTING" /\ runs'[o] = 0
          BY <2>1, <3>1, <3>3 DEF TypeOK
        <4>2. \A r \in AllSessions : r # s => pc'[r] = pc[r]
          BY <3>1 DEF TypeOK
        <4>3. \A q \in Operations : q # o => state'[q] = state[q]
          BY <3>3 DEF TypeOK
        <4> QED
          BY <2>1, <3>1, <3>4, <4>1, <4>2, <4>3 DEF RunsInv, DispatchIsFirst, RecordIsDue
      <3>7. OneExecutor'
        <4>1. \A r \in AllSessions : r # s => pc'[r] = pc[r]
          BY <3>1 DEF TypeOK
        <4> QED  BY <2>1, <3>1, <3>4, <4>1 DEF RunsInv, OneExecutor
      <3> QED  BY <3>5, <3>6, <3>7 DEF RunsInv
    <2> QED  BY <2>2, <2>3
  <1>8. ASSUME NEW s \in AllSessions, Dispatch(s)
        PROVE  RunsInv'
    <2> DEFINE o == Subject(s)
    <2>1. o \in Operations /\ target[s] = {o} /\ pc[s] = "dispatch"
      BY <1>8, SubjectIsTarget DEF Dispatch, CallsInv, ExecutionOnly
    <2>2. CASE Return(s) /\ UNCHANGED runs
      BY <1>8, <2>2, ReturnIsQuiet, QuietKeepsRuns DEF Dispatch, rowVars
    <2>3. CASE ~(Return(s) /\ UNCHANGED runs)
      <3>1. state[o] = "EXECUTING" /\ runs[o] = 0
        BY <2>1 DEF RunsInv, DispatchIsFirst
      <3>2. PICK answer \in Outcomes, n \in {0, 1} :
              /\ answer # "indeterminate" => n = 1
              /\ runs' = [runs EXCEPT ![o] = n]
              /\ outcome' = [outcome EXCEPT ![s] = answer]
              /\ pc' = [pc EXCEPT ![s] = "record"]
              /\ UNCHANGED <<state, target>>
        BY <1>8, <2>3, <3>1 DEF Dispatch, RunsAfter, rowVars
      <3>3. \A r \in AllSessions : r # s /\ pc[r] \in {"dispatch", "record"} => target[r] # {o}
        BY <2>1 DEF RunsInv, OneExecutor
      <3>4. RunsNeedExecution' /\ AtMostOneRun'
        BY <3>1, <3>2 DEF RunsInv, RunsNeedExecution, AtMostOneRun, TypeOK, Ran
      <3>5. DispatchIsFirst' /\ RecordIsDue'
        <4>1. pc'[s] = "record" /\ outcome'[s] = answer /\ runs'[o] = n
          BY <2>1, <3>2 DEF TypeOK
        <4>2. \A r \in AllSessions : r # s => pc'[r] = pc[r] /\ outcome'[r] = outcome[r]
          BY <3>2 DEF TypeOK
        <4>3. \A q \in Operations : q # o => runs'[q] = runs[q]
          BY <3>2 DEF TypeOK
        <4> QED
          BY <2>1, <3>1, <3>2, <3>3, <4>1, <4>2, <4>3 DEF RunsInv, DispatchIsFirst, RecordIsDue
      <3>6. OneExecutor'
        BY <2>1, <3>2, <3>3 DEF RunsInv, OneExecutor, TypeOK
      <3> QED  BY <3>4, <3>5, <3>6 DEF RunsInv
    <2> QED  BY <2>2, <2>3
  <1>9. ASSUME NEW s \in AllSessions, RecordOutcome(s)
        PROVE  RunsInv'
    <2> DEFINE o == Subject(s)
               t == OutcomeTransition(outcome[s])
    <2>1. o \in Operations /\ target[s] = {o} /\ pc[s] = "record"
      BY <1>9, SubjectIsTarget DEF RecordOutcome, CallsInv, ExecutionOnly
    <2>2. state[o] = "EXECUTING"
      BY <2>1 DEF RunsInv, RecordIsDue
    <2>3. TRANSITIONS[t].to \in Ran /\ TRANSITIONS[t].to # "EXECUTING"
      BY TransitionTable DEF OutcomeTransition, Ran
    <2>4. state' = [state EXCEPT ![o] = TRANSITIONS[t].to] /\ UNCHANGED runs
      BY <1>9, <2>2 DEF RecordOutcome
    <2>5. pc' = [pc EXCEPT ![s] = "idle"] /\ target' = [target EXCEPT ![s] = {}]
          /\ outcome' = [outcome EXCEPT ![s] = "none"]
      BY <1>9 DEF RecordOutcome, Return
    <2>6. \A r \in AllSessions : r # s /\ pc[r] \in {"dispatch", "record"} => target[r] # {o}
      BY <2>1 DEF RunsInv, OneExecutor
    <2>7. RunsNeedExecution' /\ AtMostOneRun'
      BY <2>1, <2>2, <2>3, <2>4 DEF RunsInv, RunsNeedExecution, AtMostOneRun, TypeOK, Ran
    <2>8. DispatchIsFirst' /\ RecordIsDue'
      <3>1. pc'[s] = "idle"
        BY <2>5 DEF TypeOK
      <3>2. \A r \in AllSessions : r # s =>
              pc'[r] = pc[r] /\ outcome'[r] = outcome[r] /\ target'[r] = target[r]
        BY <2>5 DEF TypeOK
      <3>3. \A q \in Operations : q # o => state'[q] = state[q]
        BY <2>4 DEF TypeOK
      <3> QED  BY <2>4, <2>6, <3>1, <3>2, <3>3 DEF RunsInv, DispatchIsFirst, RecordIsDue
    <2>9. OneExecutor'
      BY <2>5 DEF RunsInv, OneExecutor, TypeOK
    <2> QED  BY <2>7, <2>8, <2>9 DEF RunsInv
  <1>10. CASE Tick \/ UNCHANGED vars
    <2>1. Quiet
      BY <1>10 DEF Tick, vars, rowVars, callVars, Quiet
    <2> QED  BY <2>1, QuietKeepsRuns
  <1>11. ASSUME NEW s \in Sessions, Request(s)
         PROVE  RunsInv'
    <2>1. PICK o \in Operations, p \in Principals, k \in Kinds : BeginCall(s, k, p, {o})
      BY <1>11 DEF Request, BeginDecision, BeginCancel, BeginExecute, Kinds
    <2> QED  BY <1>2, <2>1 DEF AllSessions
  <1>12. ASSUME NEW s \in AllSessions, BeginExpiry(s)
         PROVE  RunsInv'
    <2>1. PICK ops \in SUBSET OverdueOperations : BeginCall(s, "expire", None, ops)
      BY <1>12 DEF BeginExpiry
    <2> QED  BY <1>2, <2>1
  <1> QED
    BY <1>1, <1>3, <1>4, <1>5, <1>6, <1>7, <1>8, <1>9, <1>10, <1>11, <1>12 DEF Next, Step

-----------------------------------------------------------------------------
(* The theorems.                                                           *)

\* The inductive invariant holds in every reachable state.
THEOREM Invariance == Spec => []IInv
  <1>1. IInv /\ [Next]_vars => IInv'
    BY NextKeepsTypes, NextHasShape, ShapeKeepsCalls, ShapeKeepsVersions, NextKeepsRuns
       DEF IInv, CallsInv
  <1> QED  BY <1>1, InitInvariant, PTL DEF Spec

\* Type correctness of the whole lifecycle: no interleaving of calls leaves the
\* operations table or a call's registers outside their types.
THEOREM TypeCorrect == Spec => []TypeOK
  BY Invariance, PTL DEF IInv

\* Dispatch is at most once: for any number of operations, callers, crashes and
\* expiries, on either database, n8n receives the dispatch of an operation once at
\* most (I3, I4, ADR-005).
THEOREM DispatchedAtMostOnce == Spec => []AtMostOneRun
  BY Invariance, PTL DEF IInv, RunsInv

-----------------------------------------------------------------------------
(* The lifecycle implements its contract.                                  *)

\* The contract speaks of the same table.
LEMMA SameTable ==
  /\ Contract!TRANSITIONS = TRANSITIONS
  /\ Contract!TransitionIds = TransitionIds
  /\ Contract!NoState = NoState
  <1>1. Contract!TRANSITIONS = TRANSITIONS
    BY DEF Contract!TRANSITIONS, TRANSITIONS, Contract!Edge, Edge, Contract!NoState, NoState
  <1> QED
    BY <1>1 DEF Contract!TransitionIds, TransitionIds, Contract!NoState, NoState

\* A row moved along one of the contract's edges is a contract step.
LEMMA MoveImplements ==
  ASSUME TypeOK, NEW o \in Operations, NEW t \in {"T06", "T07", "T09", "T10", "T12"},
         state[o] = TRANSITIONS[t].from,
         state' = [state EXCEPT ![o] = TRANSITIONS[t].to], UNCHANGED runs
  PROVE  Contract!Next
  <1>1. Contract!Move(o)
    BY TransitionTable, SameTable DEF Contract!Move, Contract!ValidTransition
  <1> QED  BY <1>1 DEF Contract!Next

LEMMA StutterImplements ==
  ASSUME UNCHANGED <<state, runs>>
  PROVE  [Contract!Next]_<<state, runs>>
  OBVIOUS

LEMMA NextImplements ==
  ASSUME IInv, [Next]_vars
  PROVE  [Contract!Next]_<<state, runs>>
  <1> USE DEF IInv
  <1>1. ASSUME NEW o \in Operations, NEW p \in Principals,
               NEW t \in {"T02", "T03", "T04", "T05"}, Prepare(o, p, t)
        PROVE  Contract!Next
    <2>1. Contract!Create(o)
      BY <1>1, SameTable DEF Prepare, Contract!Create
    <2> QED  BY <2>1 DEF Contract!Next
  <1>2. ASSUME NEW s \in AllSessions, Approve(s) \/ Reject(s) \/ Cancel(s)
        PROVE  [Contract!Next]_<<state, runs>>
    <2> DEFINE o == Subject(s)
    <2>1. o \in Operations /\ o \in target[s] /\ pc[s] = "read"
      BY <1>2, SubjectIsTarget DEF Approve, Reject, Cancel, InWrite, CallsInv
    <2>2. UNCHANGED runs
      BY <1>2 DEF Approve, Reject, Cancel
    <2>3. CASE UnmovedRow
      BY <2>2, <2>3, StutterImplements DEF UnmovedRow
    <2>4. CASE ~UnmovedRow
      <3>1. PICK t \in {"T06", "T07", "T09", "T12"} :
              /\ Unmoved(s, o) /\ ApplyTransition(s, o, t)
              /\ \/ t = "T06" /\ kind[s] = "approve"
                 \/ t = "T07" /\ kind[s] = "reject"
                 \/ t = "T12" /\ kind[s] = "cancel" /\ state[o] = "APPROVED"
                 \/ t = "T09" /\ kind[s] = "cancel" /\ state[o] # "APPROVED"
        BY <1>2, <2>4 DEF Approve, Reject, Cancel, InWrite
      <3>2. state[o] \in ReadStates(kind[s])
        BY <2>1, <3>1 DEF VersionInv, UnmovedMeansUnchanged
      <3>3. state[o] = TRANSITIONS[t].from
        BY <3>1, <3>2, TransitionTable DEF ReadStates
      <3> QED  BY <2>1, <2>2, <3>1, <3>3, MoveImplements DEF ApplyTransition
    <2> QED  BY <2>3, <2>4
  <1>3. ASSUME NEW s \in AllSessions, ExpireOverdue(s)
        PROVE  Contract!Next
    <2> DEFINE moved == {o \in target[s] : Unmoved(s, o)}
    <2>1. pc[s] = "read" /\ kind[s] = "expire" /\ UNCHANGED runs
      BY <1>3 DEF ExpireOverdue, InWrite
    <2>2. moved \in SUBSET {o \in Operations : state[o] \in {"PENDING_APPROVAL", "APPROVED"}}
      BY <2>1 DEF VersionInv, UnmovedMeansUnchanged, ReadStates, TypeOK
    <2>3. \A x : TRANSITIONS[ExpiryTransition(x)].to = "EXPIRED"
      BY TransitionTable DEF ExpiryTransition
    <2>4. state' = [o \in Operations |-> IF o \in moved THEN "EXPIRED" ELSE state[o]]
      BY <1>3, <2>3 DEF ExpireOverdue
    <2>5. Contract!Expire
      BY <2>1, <2>2, <2>4 DEF Contract!Expire
    <2> QED  BY <2>5 DEF Contract!Next
  <1>4. ASSUME NEW s \in AllSessions, StartExecution(s)
        PROVE  [Contract!Next]_<<state, runs>>
    <2> DEFINE o == Subject(s)
    <2>1. o \in Operations /\ o \in target[s] /\ kind[s] = "execute" /\ pc[s] = "burned"
      BY <1>4, SubjectIsTarget DEF StartExecution, CallsInv, ExecutionOnly
    <2>2. UNCHANGED runs
      BY <1>4 DEF StartExecution
    <2>3. CASE UnmovedRow
      BY <2>2, <2>3, StutterImplements DEF UnmovedRow
    <2>4. CASE ~UnmovedRow
      <3>1. Unmoved(s, o) /\ ApplyTransition(s, o, "T10")
        BY <1>4, <2>4 DEF StartExecution
      <3>2. state[o] = TRANSITIONS["T10"].from
        BY <2>1, <3>1, TransitionTable DEF VersionInv, UnmovedMeansUnchanged, ReadStates
      <3> QED  BY <2>1, <2>2, <3>1, <3>2, MoveImplements DEF ApplyTransition
    <2> QED  BY <2>3, <2>4
  <1>5. ASSUME NEW s \in AllSessions, Dispatch(s)
        PROVE  [Contract!Next]_<<state, runs>>
    <2> DEFINE o == Subject(s)
    <2>1. o \in Operations /\ target[s] = {o} /\ pc[s] = "dispatch" /\ UNCHANGED state
      BY <1>5, SubjectIsTarget DEF Dispatch, CallsInv, ExecutionOnly, rowVars
    <2>2. state[o] = "EXECUTING" /\ runs[o] = 0
      BY <2>1 DEF RunsInv, DispatchIsFirst
    <2>3. CASE UNCHANGED runs
      BY <2>1, <2>3, StutterImplements
    <2>4. CASE runs' # runs
      <3>1. PICK n \in {0, 1} : runs' = [runs EXCEPT ![o] = n]
        BY <1>5, <2>2, <2>4 DEF Dispatch, RunsAfter
      <3>2. runs' = [runs EXCEPT ![o] = 1]
        BY <2>1, <2>2, <2>4, <3>1 DEF TypeOK
      <3>3. Contract!Run(o)
        BY <2>1, <2>2, <3>2 DEF Contract!Run
      <3> QED  BY <2>1, <3>3 DEF Contract!Next
    <2> QED  BY <2>3, <2>4
  <1>6. ASSUME NEW s \in AllSessions, RecordOutcome(s)
        PROVE  Contract!Next
    <2> DEFINE o == Subject(s)
               t == OutcomeTransition(outcome[s])
    <2>1. o \in Operations /\ target[s] = {o} /\ pc[s] = "record" /\ UNCHANGED runs
      BY <1>6, SubjectIsTarget DEF RecordOutcome, CallsInv, ExecutionOnly
    <2>2. state[o] = "EXECUTING" /\ (outcome[s] \in {"success", "error"} => runs[o] = 1)
      BY <2>1 DEF RunsInv, RecordIsDue
    <2>3. state' = [state EXCEPT ![o] = TRANSITIONS[t].to]
      BY <1>6, <2>2 DEF RecordOutcome
    <2>4. \/ runs[o] = 1 /\ TRANSITIONS[t].to \in {"SUCCEEDED", "FAILED"}
          \/ TRANSITIONS[t].to = "UNKNOWN"
      BY <2>2, TransitionTable DEF OutcomeTransition
    <2>5. Contract!Resolve(o)
      BY <2>1, <2>2, <2>3, <2>4 DEF Contract!Resolve
    <2> QED  BY <2>1, <2>5 DEF Contract!Next
  <1>7. ASSUME NEW s \in Sessions, Request(s)
        PROVE  UNCHANGED <<state, runs>>
    BY <1>7 DEF Request, BeginDecision, BeginCancel, BeginExecute, BeginCall, rowVars
  <1>8. ASSUME NEW s \in AllSessions, BeginExpiry(s) \/ RefuseExecute(s) \/ Burn(s) \/ Crash(s)
        PROVE  UNCHANGED <<state, runs>>
    BY <1>8 DEF BeginExpiry, BeginCall, RefuseExecute, Burn, Crash, rowVars
  <1>9. CASE Tick \/ UNCHANGED vars
    BY <1>9 DEF Tick, vars, rowVars
  <1> QED
    BY <1>1, <1>2, <1>3, <1>4, <1>5, <1>6, <1>7, <1>8, <1>9, StutterImplements DEF Next, Step

\* The detailed lifecycle refines the contract: whatever calls read, however they
\* interleave or die, callers and n8n see only the contract's steps.
THEOREM Refinement == Spec => ImplementsContract
  <1>1. Init => Contract!Init
    BY SameTable DEF Init, Contract!Init
  <1>2. IInv /\ [Next]_vars => [Contract!Next]_Contract!contractVars
    BY NextImplements DEF Contract!contractVars
  <1> QED
    BY <1>1, <1>2, Invariance, PTL DEF Spec, ImplementsContract, Contract!Spec

-----------------------------------------------------------------------------
(* Rows, trails and results.                                               *)
(*                                                                         *)
(* By IInv the compare-and-set is sound, so whatever step the system       *)
(* takes, what it does to one operation is one of three things: nothing,   *)
(* the creation of the row, or one transition of the table from the state  *)
(* the row is in, with all that belongs to that transition.  RowInv is     *)
(* preserved by each of the three.                                         *)

Told(k, o) == <<k, o>> \in told
ToldKinds == {"approve", "reject", "cancel"}

-----------------------------------------------------------------------------
(* What a step does to one operation.                                      *)

RowStays(o) ==
  /\ state'[o] = state[o] /\ stateVersion'[o] = stateVersion[o] /\ events'[o] = events[o]
  /\ decision'[o] = decision[o] /\ result'[o] = result[o]
  /\ handleBurned[o] => handleBurned'[o]
  /\ \A k \in ToldKinds : Told(k, o)' <=> Told(k, o)

RowIsCreated(o, t) ==
  /\ state[o] = NoState
  /\ state'[o] = TRANSITIONS[t].to /\ stateVersion'[o] = 2 /\ events'[o] = <<"T01", t>>
  /\ decision'[o] = IF t = "T04" THEN "pending" ELSE "none"
  /\ result'[o] = result[o]
  /\ \A k \in ToldKinds : Told(k, o)' <=> Told(k, o)

Creations == {"T02", "T03", "T04", "T05"}
Transitions == {"T06", "T07", "T08", "T09", "T10", "T11", "T12", "T13", "T14", "T15"}

DecisionAfter(t, before) ==
  IF t = "T06" THEN "approved" ELSE IF t = "T07" THEN "rejected" ELSE before

ResultAfter(t, before) ==
  IF t = "T13" THEN "success" ELSE IF t = "T14" THEN "error"
  ELSE IF t = "T15" THEN "indeterminate" ELSE before

\* What a caller is told when it has applied the transition.
Announces(t, k) ==
  \/ t = "T06" /\ k = "approve"
  \/ t = "T07" /\ k = "reject"
  \/ t \in {"T09", "T12"} /\ k = "cancel"

RowMoves(o, t) ==
  /\ state[o] = TRANSITIONS[t].from
  /\ state'[o] = TRANSITIONS[t].to
  /\ stateVersion'[o] = stateVersion[o] + 1
  /\ events'[o] = Append(events[o], t)
  /\ decision'[o] = DecisionAfter(t, decision[o])
  /\ result'[o] = ResultAfter(t, result[o])
  /\ handleBurned[o] \/ t = "T10" => handleBurned'[o]
  /\ \A k \in ToldKinds : Told(k, o)' <=> (Told(k, o) \/ Announces(t, k))

RowStep(o) ==
  \/ RowStays(o)
  \/ \E t \in Creations : RowIsCreated(o, t)
  \/ \E t \in Transitions : RowMoves(o, t)

-----------------------------------------------------------------------------
(* The invariant of one row.                                               *)

\* The trail is a path of the table that ends in the state.
TrailFits(o) ==
  LET trail == events[o] IN
  /\ stateVersion[o] = Len(trail)
  /\ trail = <<>> <=> state[o] = NoState
  /\ trail # <<>> => /\ Len(trail) >= 2
                     /\ TRANSITIONS[trail[1]].from = NoState
                     /\ TRANSITIONS[trail[Len(trail)]].to = state[o]
  /\ \A i \in 2 .. Len(trail) : TRANSITIONS[trail[i]].from = TRANSITIONS[trail[i - 1]].to

ResultFits(o) ==
  /\ result[o] = "success" <=> state[o] = "SUCCEEDED"
  /\ result[o] = "error" <=> state[o] = "FAILED"
  /\ result[o] = "indeterminate" <=> state[o] = "UNKNOWN"

\* What is approved was approved by a human or needed no approval.
ApprovalFits(o) ==
  /\ state[o] \in Ran \union {"APPROVED"} =>
       \/ decision[o] = "approved" /\ Told("approve", o)
       \/ decision[o] = "none" /\ events[o][2] = "T05"
  /\ state[o] \in Ran => handleBurned[o]

\* What was reported stands.
ReportsFit(o) ==
  /\ Told("reject", o) => state[o] = "REJECTED" /\ decision[o] = "rejected"
  /\ Told("cancel", o) => state[o] = "CANCELED"
  /\ Told("approve", o) => /\ decision[o] = "approved"
                           /\ state[o] \notin {NoState, "PREPARING", "PENDING_APPROVAL"}

RowInv(o) == TrailFits(o) /\ ResultFits(o) /\ ApprovalFits(o) /\ ReportsFit(o)

\* What the rows rest on in the calls: an answer to record is one of the three.
OutcomeKnown == \A s \in AllSessions : pc[s] = "record" => outcome[s] \in Outcomes

-----------------------------------------------------------------------------
(* RowInv over the three shapes.                                           *)

\* The rows of the table again, with both ends.
LEMMA TableEnds ==
  /\ TRANSITIONS["T01"] = Edge(NoState, "PREPARING")
  /\ \A t \in Creations : TRANSITIONS[t].from = "PREPARING"
  /\ \A t \in {"T08", "T06", "T07", "T09"} : TRANSITIONS[t].from = "PENDING_APPROVAL"
  /\ \A t \in {"T10", "T11", "T12"} : TRANSITIONS[t].from = "APPROVED"
  /\ \A t \in {"T13", "T14", "T15"} : TRANSITIONS[t].from = "EXECUTING"
BY DEF TRANSITIONS, Edge, Creations, NoState

LEMMA StaysKeepsRow ==
  ASSUME NEW o \in Operations, RowInv(o), RowStays(o)
  PROVE  RowInv(o)'
<1>1. TrailFits(o)'
  BY DEF RowInv, RowStays, TrailFits
<1>2. ResultFits(o)'
  BY DEF RowInv, RowStays, ResultFits
<1>3. ApprovalFits(o)'
  BY DEF RowInv, RowStays, ApprovalFits, ToldKinds
<1>4. ReportsFit(o)'
  BY DEF RowInv, RowStays, ReportsFit, ToldKinds
<1>. QED
  BY <1>1, <1>2, <1>3, <1>4 DEF RowInv

LEMMA CreationKeepsRow ==
  ASSUME TypeOK, NEW o \in Operations, RowInv(o), NEW t \in Creations, RowIsCreated(o, t)
  PROVE  RowInv(o)'
<1>1. TRANSITIONS[t].from = "PREPARING"
      /\ TRANSITIONS[t].to \in {"INVALID", "BLOCKED", "PENDING_APPROVAL", "APPROVED"}
      /\ (TRANSITIONS[t].to = "APPROVED" => t = "T05")
  BY TableEnds, TransitionTable DEF Creations
<1>2. TRANSITIONS["T01"].from = NoState /\ TRANSITIONS["T01"].to = "PREPARING"
  BY TableEnds DEF Edge
<1>3. \A k \in ToldKinds : ~Told(k, o)
  BY DEF RowInv, RowIsCreated, ReportsFit, ToldKinds, NoState
<1>4. TrailFits(o)'
  BY <1>1, <1>2 DEF RowIsCreated, TrailFits, NoState
<1>5. ResultFits(o)'
  BY <1>1 DEF RowInv, RowIsCreated, ResultFits, NoState
<1>6. ApprovalFits(o)'
  BY <1>1 DEF RowIsCreated, ApprovalFits, Ran
<1>7. ReportsFit(o)'
  BY <1>3 DEF RowIsCreated, ReportsFit, ToldKinds
<1>. QED
  BY <1>4, <1>5, <1>6, <1>7 DEF RowInv

LEMMA MoveKeepsRow ==
  ASSUME TypeOK, NEW o \in Operations, RowInv(o), NEW t \in Transitions, RowMoves(o, t)
  PROVE  RowInv(o)'
<1>1. state[o] \in {"PENDING_APPROVAL", "APPROVED", "EXECUTING"}
      /\ events[o] \in Seq(TransitionIds) /\ t \in TransitionIds
  BY TableEnds, TransitionTable DEF RowMoves, Transitions, TypeOK
<1>2. state'[o] \notin {NoState, "PREPARING", "PENDING_APPROVAL"}
  BY TransitionTable DEF RowMoves, Transitions, NoState
<1>3. TrailFits(o)'
  <2>. DEFINE trail == events[o]
              longer == Append(trail, t)
  <2>1. /\ stateVersion[o] = Len(trail) /\ Len(trail) >= 2 /\ Len(trail) \in Nat
        /\ TRANSITIONS[trail[1]].from = NoState
        /\ TRANSITIONS[trail[Len(trail)]].to = TRANSITIONS[t].from
        /\ \A i \in 2 .. Len(trail) : TRANSITIONS[trail[i]].from = TRANSITIONS[trail[i - 1]].to
    BY <1>1 DEF RowInv, TrailFits, RowMoves, NoState
  <2>2. /\ Len(longer) = Len(trail) + 1 /\ longer[Len(trail) + 1] = t
        /\ \A i \in 1 .. Len(trail) : longer[i] = trail[i]
    BY <1>1
  <2>. HIDE DEF trail, longer
  <2>3. ASSUME NEW i \in 2 .. Len(longer)
        PROVE  TRANSITIONS[longer[i]].from = TRANSITIONS[longer[i - 1]].to
    <3>1. CASE i = Len(trail) + 1
      BY <2>1, <2>2, <3>1
    <3>2. CASE i # Len(trail) + 1
      BY <2>1, <2>2, <3>2
    <3>. QED
      BY <3>1, <3>2
  <2>4. events'[o] = longer /\ longer # <<>> /\ stateVersion'[o] = Len(longer)
    BY <2>1, <2>2 DEF RowMoves, trail, longer
  <2>5. Len(longer) >= 2 /\ longer[1] = trail[1] /\ longer[Len(longer)] = t
    BY <2>1, <2>2
  <2>. QED
    BY <1>2, <2>1, <2>3, <2>4, <2>5 DEF TrailFits, RowMoves
<1>4. ResultFits(o)'
  BY <1>1, TransitionTable DEF RowInv, RowMoves, ResultFits, ResultAfter, Transitions
<1>5. ApprovalFits(o)'
  <2>1. events'[o][2] = events[o][2]
    BY <1>1 DEF RowInv, TrailFits, RowMoves, NoState
  <2>2. CASE t = "T06"
    BY <2>2, TransitionTable DEF RowMoves, ApprovalFits, DecisionAfter, Announces, ToldKinds, Ran
  <2>3. CASE t \in {"T07", "T08", "T09", "T11", "T12"}
    BY <2>3, TransitionTable DEF RowMoves, ApprovalFits, Ran
  <2>4. CASE t \in {"T10", "T13", "T14", "T15"}
    <3>1. state[o] \in {"APPROVED", "EXECUTING"} /\ decision'[o] = decision[o]
      BY <2>4, TableEnds DEF RowMoves, DecisionAfter
    <3>2. handleBurned'[o]
      BY <2>4, TableEnds DEF RowInv, ApprovalFits, RowMoves, Ran
    <3>3. Told("approve", o) => Told("approve", o)'
      BY DEF RowMoves, ToldKinds
    <3>. QED
      BY <2>1, <3>1, <3>2, <3>3 DEF RowInv, ApprovalFits, Ran
  <2>. QED
    BY <2>2, <2>3, <2>4 DEF Transitions
<1>6. ReportsFit(o)'
  <2>1. ~Told("reject", o) /\ ~Told("cancel", o)
    BY <1>1 DEF RowInv, ReportsFit
  <2>2. Told("approve", o) => decision[o] = "approved" /\ state[o] # "PENDING_APPROVAL"
    BY DEF RowInv, ReportsFit
  <2>3. Told("reject", o)' => t = "T07"
    BY <2>1 DEF RowMoves, Announces, ToldKinds
  <2>4. Told("cancel", o)' => t \in {"T09", "T12"}
    BY <2>1 DEF RowMoves, Announces, ToldKinds
  <2>5. Told("approve", o)' => decision'[o] = "approved"
    BY <2>2, TableEnds DEF RowMoves, Announces, ToldKinds, DecisionAfter
  <2>6. t = "T07" => state'[o] = "REJECTED" /\ decision'[o] = "rejected"
    BY TransitionTable DEF RowMoves, DecisionAfter
  <2>7. t \in {"T09", "T12"} => state'[o] = "CANCELED"
    BY TransitionTable DEF RowMoves
  <2>. QED
    BY <1>2, <2>3, <2>4, <2>5, <2>6, <2>7 DEF ReportsFit
<1>. QED
  BY <1>3, <1>4, <1>5, <1>6 DEF RowInv

-----------------------------------------------------------------------------
(* Every step is one of the three shapes on every row.                      *)

Columns == <<state, stateVersion, events, decision, result, handleBurned, told>>

LEMMA UntouchedStays ==
  ASSUME NEW o \in Operations, UNCHANGED Columns
  PROVE  RowStep(o)
BY DEF Columns, RowStep, RowStays, Told

\* A one-row update leaves the other rows as they are.
LEMMA CreateIsRowStep ==
  ASSUME TypeOK, NEW o \in Operations, NEW p \in Principals, NEW t \in Creations,
         Prepare(o, p, t), NEW x \in Operations
  PROVE  RowStep(x)
<1>1. CASE x = o
  <2>1. RowIsCreated(o, t)
    BY DEF Prepare, RowIsCreated, TypeOK, Told
  <2>. QED
    BY <1>1, <2>1 DEF RowStep
<1>2. CASE x # o
  <2>1. RowStays(x)
    BY <1>2 DEF Prepare, RowStays, TypeOK, Told
  <2>. QED
    BY <2>1 DEF RowStep
<1>. QED
  BY <1>1, <1>2

\* One operation is moved by `t`, the rest stays.
OneRowMoves(o, t) ==
  /\ state[o] = TRANSITIONS[t].from
  /\ state' = [state EXCEPT ![o] = TRANSITIONS[t].to]
  /\ stateVersion' = [stateVersion EXCEPT ![o] = stateVersion[o] + 1]
  /\ events' = [events EXCEPT ![o] = Append(@, t)]
  /\ decision' = [decision EXCEPT ![o] = DecisionAfter(t, decision[o])]
  /\ result' = [result EXCEPT ![o] = ResultAfter(t, result[o])]
  /\ handleBurned' = [handleBurned EXCEPT ![o] = (handleBurned[o] \/ t = "T10")]
  /\ told' = told \union {<<k, o>> : k \in {j \in ToldKinds : Announces(t, j)}}

LEMMA OneRowMovesIsRowStep ==
  ASSUME TypeOK, NEW o \in Operations, NEW t \in Transitions, OneRowMoves(o, t),
         NEW x \in Operations
  PROVE  RowStep(x)
<1>1. \A k \in ToldKinds, y \in Operations :
        Told(k, y)' <=> (Told(k, y) \/ (y = o /\ Announces(t, k)))
  BY DEF OneRowMoves, Told
<1>2. CASE x = o
  <2>1. RowMoves(o, t)
    BY <1>1 DEF OneRowMoves, RowMoves, TypeOK
  <2>. QED
    BY <1>2, <2>1 DEF RowStep
<1>3. CASE x # o
  <2>1. RowStays(x)
    BY <1>1, <1>3 DEF OneRowMoves, RowStays, TypeOK
  <2>. QED
    BY <2>1 DEF RowStep
<1>. QED
  BY <1>2, <1>3

\* A decision that finds its row unmoved moves it.
LEMMA DecisionIsRowStep ==
  ASSUME IInv, NEW s \in AllSessions, Approve(s) \/ Reject(s) \/ Cancel(s), NEW x \in Operations
  PROVE  RowStep(x)
<1>. DEFINE o == Subject(s)
<1>1. o \in Operations /\ o \in target[s] /\ pc[s] = "read"
  BY SubjectIsTarget DEF IInv, Approve, Reject, Cancel, InWrite, CallsInv
<1>2. Unmoved(s, o) => state[o] \in ReadStates(kind[s]) /\ seen[s][o] = stateVersion[o]
  BY <1>1 DEF IInv, VersionInv, UnmovedMeansUnchanged, Unmoved
<1>3. CASE ~Unmoved(s, o)
  BY <1>3, UntouchedStays DEF Approve, Reject, Cancel, UnmovedRow, Columns
<1>4. CASE Unmoved(s, o) /\ Approve(s)
  <2>1. state[o] = TRANSITIONS["T06"].from
    BY <1>2, <1>4, TransitionTable DEF Approve, InWrite, ReadStates
  <2>2. {k \in ToldKinds : Announces("T06", k)} = {"approve"}
    BY DEF Announces, ToldKinds
  <2>3. OneRowMoves(o, "T06")
    BY <1>1, <1>2, <1>4, <2>1, <2>2
    DEF Approve, ApplyTransition, OneRowMoves, DecisionAfter, ResultAfter, IInv, TypeOK
  <2>. QED
    BY <1>1, <2>3, OneRowMovesIsRowStep DEF IInv, Transitions
<1>5. CASE Unmoved(s, o) /\ Reject(s)
  <2>1. state[o] = TRANSITIONS["T07"].from
    BY <1>2, <1>5, TransitionTable DEF Reject, InWrite, ReadStates
  <2>2. {k \in ToldKinds : Announces("T07", k)} = {"reject"}
    BY DEF Announces, ToldKinds
  <2>3. OneRowMoves(o, "T07")
    BY <1>1, <1>2, <1>5, <2>1, <2>2
    DEF Reject, ApplyTransition, OneRowMoves, DecisionAfter, ResultAfter, IInv, TypeOK
  <2>. QED
    BY <1>1, <2>3, OneRowMovesIsRowStep DEF IInv, Transitions
<1>6. CASE Unmoved(s, o) /\ Cancel(s)
  <2>. DEFINE t == IF state[o] = "APPROVED" THEN "T12" ELSE "T09"
  <2>1. state[o] = TRANSITIONS[t].from
    BY <1>2, <1>6, TransitionTable DEF Cancel, InWrite, ReadStates
  <2>2. {k \in ToldKinds : Announces(t, k)} = {"cancel"}
    BY DEF Announces, ToldKinds
  <2>3. OneRowMoves(o, t)
    BY <1>1, <1>2, <1>6, <2>1, <2>2
    DEF Cancel, ApplyTransition, OneRowMoves, DecisionAfter, ResultAfter, IInv, TypeOK
  <2>. QED
    BY <1>1, <2>3, OneRowMovesIsRowStep DEF IInv, Transitions
<1>. QED
  BY <1>3, <1>4, <1>5, <1>6

\* A sweep moves every row that it finds as it read it.
LEMMA ExpiryIsRowStep ==
  ASSUME IInv, NEW s \in AllSessions, ExpireOverdue(s), NEW x \in Operations
  PROVE  RowStep(x)
<1>. DEFINE moved == {o \in target[s] : Unmoved(s, o)}
            t == ExpiryTransition(state[x])
<1>1. pc[s] = "read" /\ kind[s] = "expire"
  BY DEF ExpireOverdue, InWrite
<1>2. UNCHANGED <<decision, result, handleBurned, told>>
  BY DEF ExpireOverdue
<1>3. CASE x \in moved
  <2>1. state[x] \in {"PENDING_APPROVAL", "APPROVED"} /\ seen[s][x] = stateVersion[x]
    BY <1>1, <1>3 DEF IInv, VersionInv, UnmovedMeansUnchanged, ReadStates, Unmoved
  <2>2. t \in {"T08", "T11"} /\ state[x] = TRANSITIONS[t].from
    BY <2>1, TableEnds DEF ExpiryTransition
  <2>3. /\ state'[x] = TRANSITIONS[t].to /\ stateVersion'[x] = stateVersion[x] + 1
        /\ events'[x] = Append(events[x], t)
    BY <1>3, <2>1 DEF ExpireOverdue
  <2>4. RowMoves(x, t)
    BY <1>2, <2>2, <2>3 DEF RowMoves, DecisionAfter, ResultAfter, Announces, Told, ToldKinds
  <2>. QED
    BY <2>2, <2>4 DEF RowStep, Transitions
<1>4. CASE x \notin moved
  <2>1. state'[x] = state[x] /\ stateVersion'[x] = stateVersion[x] /\ events'[x] = events[x]
    BY <1>4 DEF ExpireOverdue
  <2>. QED
    BY <1>2, <2>1 DEF RowStep, RowStays, Told
<1>. QED
  BY <1>3, <1>4

\* The burn sets a handle and nothing else of a row; T10 burns it and moves the row.
LEMMA BurnIsRowStep ==
  ASSUME IInv, NEW s \in AllSessions, Burn(s), NEW x \in Operations
  PROVE  RowStep(x)
<1>1. UNCHANGED <<state, stateVersion, events, decision, result, told>>
  BY DEF Burn
<1>2. handleBurned[x] => handleBurned'[x]
  BY DEF Burn, IInv, TypeOK
<1>. QED
  BY <1>1, <1>2 DEF RowStep, RowStays, Told

LEMMA StartIsRowStep ==
  ASSUME IInv, NEW s \in AllSessions, StartExecution(s), NEW x \in Operations
  PROVE  RowStep(x)
<1>. DEFINE o == Subject(s)
<1>1. o \in Operations /\ o \in target[s] /\ kind[s] = "execute" /\ pc[s] = "burned"
  BY SubjectIsTarget DEF IInv, StartExecution, CallsInv, ExecutionOnly
<1>2. /\ handleBurned' = [handleBurned EXCEPT ![o] = TRUE]
      /\ UNCHANGED <<decision, result, told>>
  BY DEF StartExecution
<1>3. CASE Unmoved(s, o)
  <2>1. state[o] = TRANSITIONS["T10"].from /\ seen[s][o] = stateVersion[o]
    BY <1>1, <1>3, TransitionTable DEF IInv, VersionInv, UnmovedMeansUnchanged, ReadStates, Unmoved
  <2>2. ApplyTransition(s, o, "T10")
    BY <1>3 DEF StartExecution
  <2>3. {k \in ToldKinds : Announces("T10", k)} = {}
    BY DEF Announces
  <2>4. OneRowMoves(o, "T10")
    BY <1>1, <1>2, <2>1, <2>2, <2>3
    DEF ApplyTransition, OneRowMoves, DecisionAfter, ResultAfter, IInv, TypeOK
  <2>. QED
    BY <1>1, <2>4, OneRowMovesIsRowStep DEF IInv, Transitions
<1>4. CASE ~Unmoved(s, o)
  <2>1. UNCHANGED <<state, stateVersion, events>>
    BY <1>4 DEF StartExecution, UnmovedRow
  <2>2. handleBurned[x] => handleBurned'[x]
    BY <1>1, <1>2 DEF IInv, TypeOK
  <2>. QED
    BY <1>2, <2>1, <2>2 DEF RowStep, RowStays, Told
<1>. QED
  BY <1>3, <1>4

\* The outcome of an execution is recorded with its transition.
LEMMA RecordIsRowStep ==
  ASSUME IInv, OutcomeKnown, NEW s \in AllSessions, RecordOutcome(s), NEW x \in Operations
  PROVE  RowStep(x)
<1>. DEFINE o == Subject(s)
            t == OutcomeTransition(outcome[s])
<1>1. o \in Operations /\ target[s] = {o} /\ pc[s] = "record"
  BY SubjectIsTarget DEF IInv, RecordOutcome, CallsInv, ExecutionOnly
<1>2. state[o] = "EXECUTING" /\ outcome[s] \in Outcomes
  BY <1>1 DEF IInv, RunsInv, RecordIsDue, OutcomeKnown
<1>3. t \in {"T13", "T14", "T15"} /\ outcome[s] = ResultAfter(t, result[o])
  BY <1>2 DEF OutcomeTransition, ResultAfter, Outcomes
<1>4. /\ result' = [result EXCEPT ![o] = outcome[s]]
      /\ state' = [state EXCEPT ![o] = TRANSITIONS[t].to]
      /\ stateVersion' = [stateVersion EXCEPT ![o] = @ + 1]
      /\ events' = [events EXCEPT ![o] = Append(@, t)]
      /\ UNCHANGED <<decision, handleBurned, told>>
  BY <1>2 DEF RecordOutcome
<1>5. {k \in ToldKinds : Announces(t, k)} = {}
  BY <1>3 DEF Announces
<1>. HIDE DEF t
<1>6. OneRowMoves(o, t)
  BY <1>1, <1>2, <1>3, <1>4, <1>5, TableEnds DEF OneRowMoves, DecisionAfter, IInv, TypeOK
<1>. QED
  BY <1>1, <1>3, <1>6, OneRowMovesIsRowStep DEF IInv, Transitions

\* Every step does one of the three things to every operation.
LEMMA NextIsRowStep ==
  ASSUME IInv, OutcomeKnown, [Next]_vars, NEW x \in Operations
  PROVE  RowStep(x)
<1>1. CASE UNCHANGED vars
  BY <1>1, UntouchedStays DEF vars, rowVars, Columns
<1>2. ASSUME NEW o \in Operations, NEW p \in Principals, NEW t \in Creations, Prepare(o, p, t)
      PROVE  RowStep(x)
  BY <1>2, CreateIsRowStep DEF IInv
<1>3. ASSUME NEW s \in Sessions, Request(s)
      PROVE  RowStep(x)
  <2>1. UNCHANGED Columns
    BY <1>3 DEF Request, BeginDecision, BeginCancel, BeginExecute, BeginCall, rowVars, Columns
  <2>. QED
    BY <2>1, UntouchedStays
<1>4. ASSUME NEW s \in AllSessions, BeginExpiry(s) \/ RefuseExecute(s) \/ Crash(s) \/ Dispatch(s)
      PROVE  RowStep(x)
  <2>1. UNCHANGED Columns
    BY <1>4 DEF BeginExpiry, BeginCall, RefuseExecute, Crash, Dispatch, rowVars, Columns
  <2>. QED
    BY <2>1, UntouchedStays
<1>5. ASSUME NEW s \in AllSessions, Step(s), ~Dispatch(s)
      PROVE  RowStep(x)
  BY <1>5, DecisionIsRowStep, ExpiryIsRowStep, BurnIsRowStep, StartIsRowStep, RecordIsRowStep
     DEF Step
<1>6. CASE Tick
  BY <1>6, UntouchedStays DEF Tick, rowVars, Columns
<1>. QED
  BY <1>1, <1>2, <1>3, <1>4, <1>5, <1>6 DEF Next, Creations

-----------------------------------------------------------------------------
(* OutcomeKnown: only a dispatch leads to the recording of an answer.        *)

\* What a step may do to the calls, as far as an answer to record goes.
NoNewRecord ==
  \A s \in AllSessions : pc'[s] = "record" =>
    \/ pc[s] = "record" /\ outcome'[s] = outcome[s]
    \/ outcome'[s] \in Outcomes

LEMMA ReturnMakesNoRecord ==
  ASSUME TypeOK, NEW s \in AllSessions, Return(s)
  PROVE  NoNewRecord
BY DEF TypeOK, Return, NoNewRecord

LEMMA BeginMakesNoRecord ==
  ASSUME TypeOK, NEW s \in AllSessions, NEW k, NEW p, NEW ops, BeginCall(s, k, p, ops)
  PROVE  NoNewRecord
BY DEF TypeOK, BeginCall, NoNewRecord

LEMMA NextMakesNoRecord ==
  ASSUME IInv, [Next]_vars
  PROVE  NoNewRecord
<1>. USE DEF IInv
<1>1. CASE UNCHANGED <<pc, outcome>>
  BY <1>1 DEF NoNewRecord
<1>2. ASSUME NEW s \in Sessions, Request(s)
      PROVE  NoNewRecord
  BY <1>2, BeginMakesNoRecord DEF Request, BeginDecision, BeginCancel, BeginExecute, AllSessions
<1>3. ASSUME NEW s \in AllSessions, BeginExpiry(s)
      PROVE  NoNewRecord
  BY <1>3, BeginMakesNoRecord DEF BeginExpiry
<1>4. ASSUME NEW s \in AllSessions,
             \/ Approve(s) \/ Reject(s) \/ Cancel(s) \/ ExpireOverdue(s)
             \/ RecordOutcome(s) \/ RefuseExecute(s) \/ Crash(s)
      PROVE  NoNewRecord
  BY <1>4, ReturnMakesNoRecord
     DEF Approve, Reject, Cancel, ExpireOverdue, RecordOutcome, RefuseExecute, Crash
<1>5. ASSUME NEW s \in AllSessions, Burn(s) \/ StartExecution(s)
      PROVE  NoNewRecord
  <2>1. CASE Return(s)
    BY <2>1, ReturnMakesNoRecord
  <2>2. CASE /\ UNCHANGED outcome
             /\ \E next \in {"burned", "dispatch"} : pc' = [pc EXCEPT ![s] = next]
    BY <2>2 DEF TypeOK, NoNewRecord
  <2>. QED
    BY <1>5, <2>1, <2>2 DEF Burn, StartExecution
<1>6. ASSUME NEW s \in AllSessions, Dispatch(s)
      PROVE  NoNewRecord
  <2>1. CASE Return(s)
    BY <2>1, ReturnMakesNoRecord
  <2>2. CASE /\ pc' = [pc EXCEPT ![s] = "record"]
             /\ \E answer \in Outcomes : outcome' = [outcome EXCEPT ![s] = answer]
    BY <2>2 DEF TypeOK, NoNewRecord
  <2>. QED
    BY <1>6, <2>1, <2>2 DEF Dispatch
<1>7. ASSUME NEW o \in Operations, NEW p \in Principals, NEW t \in Creations, Prepare(o, p, t)
      PROVE  NoNewRecord
  BY <1>1, <1>7 DEF Prepare, callVars
<1>8. CASE Tick \/ UNCHANGED vars
  BY <1>1, <1>8 DEF Tick, vars, callVars
<1>. QED
  BY <1>2, <1>3, <1>4, <1>5, <1>6, <1>7, <1>8 DEF Next, Step, Creations

LEMMA NextKeepsOutcome ==
  ASSUME IInv, OutcomeKnown, [Next]_vars
  PROVE  OutcomeKnown'
BY NextMakesNoRecord DEF NoNewRecord, OutcomeKnown

-----------------------------------------------------------------------------
(* The invariant, and the properties it implies.                             *)

RowsInv == OutcomeKnown /\ \A o \in Operations : RowInv(o)

LEMMA InitRows == Init => RowsInv
BY DEF Init, RowsInv, OutcomeKnown, RowInv, TrailFits, ResultFits, ApprovalFits, ReportsFit,
       Told, Ran, NoState

LEMMA NextKeepsRows ==
  ASSUME IInv, RowsInv, [Next]_vars
  PROVE  RowsInv'
<1>1. OutcomeKnown'
  BY NextKeepsOutcome DEF RowsInv
<1>2. ASSUME NEW o \in Operations
      PROVE  RowInv(o)'
  <2>1. RowInv(o) /\ RowStep(o) /\ TypeOK
    BY NextIsRowStep DEF RowsInv, IInv
  <2>. QED
    BY <2>1, StaysKeepsRow, CreationKeepsRow, MoveKeepsRow DEF RowStep
<1>. QED
  BY <1>1, <1>2 DEF RowsInv

\* Every row of the operations table agrees with its trail, its decision, its
\* result and what was reported of it, in every reachable state.
THEOREM RowsInvariance == Spec => [](IInv /\ RowsInv)
<1>1. IInv /\ RowsInv /\ [Next]_vars => RowsInv'
  BY NextKeepsRows
<1>. QED
  BY <1>1, InitRows, Invariance, PTL DEF Spec

\* The event trail of an operation is a path of the table to its state, one event
\* per version (core/state_machine.py, I1, I2, I6).
THEOREM TrailIsAPath == Spec => []TrailExplainsState
<1>1. RowsInv => TrailExplainsState
  <2>1. ASSUME NEW o \in Operations, RowInv(o)
        PROVE  /\ stateVersion[o] = Len(events[o])
               /\ events[o] = <<>> => state[o] = NoState
               /\ events[o] # <<>> => /\ TRANSITIONS[events[o][1]].from = NoState
                                      /\ TRANSITIONS[events[o][Len(events[o])]].to = state[o]
               /\ \A i \in 2 .. Len(events[o]) :
                    TRANSITIONS[events[o][i]].from = TRANSITIONS[events[o][i - 1]].to
    BY <2>1 DEF RowInv, TrailFits
  <2>. QED
    BY <2>1 DEF RowsInv, TrailExplainsState
<1>. QED
  BY <1>1, RowsInvariance, PTL

\* A stored execution result says what the operation's state says, and only a
\* resolved execution has one (record_execution_outcome).
THEOREM ResultsMatch == Spec => []ResultMatchesState
<1>1. RowsInv => ResultMatchesState
  BY DEF RowsInv, RowInv, ResultFits, ResultMatchesState
<1>. QED
  BY <1>1, RowsInvariance, PTL

\* Whatever executes, or has executed, holds a burned handle and was approved by a
\* human or needed no approval (execute_operation, I3).
THEOREM ExecutionsAreAuthorized == Spec => []ExecutionIsAuthorized
<1>1. RowsInv => ExecutionIsAuthorized
  BY DEF RowsInv, RowInv, ApprovalFits, Told, ExecutionIsAuthorized
<1>. QED
  BY <1>1, RowsInvariance, PTL

\* A reported rejection or cancellation is final: the operation never runs, and no
\* approval of it is reported beside the rejection (reject, cancel_operation).
THEOREM RefusalsAreFinal == Spec => []RefusalIsFinal
<1>1. IInv /\ RowsInv => RefusalIsFinal
  <2>. SUFFICES ASSUME IInv, RowsInv, NEW o \in Operations
               PROVE  /\ Told("reject", o) => state[o] = "REJECTED" /\ decision[o] = "rejected"
                      /\ Told("cancel", o) => state[o] = "CANCELED"
                      /\ Told("reject", o) \/ Told("cancel", o) => runs[o] = 0
                      /\ ~(Told("reject", o) /\ Told("approve", o))
    BY DEF RefusalIsFinal, Told
  <2>1. ReportsFit(o)
    BY DEF RowsInv, RowInv
  <2>2. state[o] \in {"REJECTED", "CANCELED"} => runs[o] = 0
    BY DEF IInv, RunsInv, RunsNeedExecution, Ran
  <2>. QED
    BY <2>1, <2>2 DEF ReportsFit
<1>. QED
  BY <1>1, RowsInvariance, PTL

-----------------------------------------------------------------------------
(* max_concurrent on SQLite.  A call that has passed the count holds the    *)
(* one write lock, so nobody else passes it before T10 is committed.        *)

Burned(s) == pc[s] = "burned"

\* A call that has burned a handle holds a lock that excludes every other writer.
BurnHoldsLock == \A s \in AllSessions : Burned(s) => \E o \in Operations : lock[o] = s

OneBurn == \A s, r \in AllSessions : Burned(s) /\ Burned(r) => s = r

\* The count leaves room for the call that has passed it.
RoomForBurn == (\E s \in AllSessions : Burned(s)) => Cardinality(Executing) < MaxConcurrent

CapInv ==
  /\ BurnHoldsLock /\ OneBurn /\ RoomForBurn
  /\ IsFiniteSet(Executing) /\ Cardinality(Executing) <= MaxConcurrent

\* Most steps start no execution and leave the calls that are about to.
StartsNoExecution ==
  /\ Executing' \subseteq Executing
  /\ \A r \in AllSessions : Burned(r)' =>
       /\ Burned(r)
       /\ \A o \in Operations : lock[o] = r => lock'[o] = r

LEMMA NoStartKeepsCap ==
  ASSUME CapInv, StartsNoExecution
  PROVE  CapInv'
<1>1. IsFiniteSet(Executing') /\ Cardinality(Executing') <= Cardinality(Executing)
  BY FS_Subset DEF CapInv, StartsNoExecution
<1>2. Cardinality(Executing) \in Nat /\ Cardinality(Executing') \in Nat /\ MaxConcurrent \in Nat
  BY <1>1, FS_CardinalityType, LifecycleAssumption DEF CapInv
<1>3. BurnHoldsLock' /\ OneBurn'
  BY DEF CapInv, StartsNoExecution, BurnHoldsLock, OneBurn
<1>4. RoomForBurn'
  BY <1>1, <1>2 DEF CapInv, StartsNoExecution, RoomForBurn
<1>. QED
  BY <1>1, <1>2, <1>3, <1>4 DEF CapInv

\* A returning call burns nothing, and releases only its own locks.
LEMMA ReturnStartsNothing ==
  ASSUME TypeOK, NEW s \in AllSessions, Return(s), lock' = lock \/ Release(s),
         \A o \in Operations : state'[o] = "EXECUTING" => state[o] = "EXECUTING"
  PROVE  StartsNoExecution
<1>1. Executing' \subseteq Executing
  BY DEF Executing
<1>2. pc'[s] = "idle" /\ \A r \in AllSessions \ {s} : pc'[r] = pc[r]
  BY DEF TypeOK, Return
<1>3. \A r \in AllSessions \ {s}, o \in Operations : lock[o] = r => lock'[o] = r
  BY DEF Release
<1>. QED
  BY <1>1, <1>2, <1>3 DEF StartsNoExecution, Burned

LEMMA BeginStartsNothing ==
  ASSUME TypeOK, NEW s \in AllSessions, NEW k, NEW p, NEW ops, BeginCall(s, k, p, ops),
         UNCHANGED lock
  PROVE  StartsNoExecution
<1>1. pc'[s] = "read" /\ (\A r \in AllSessions \ {s} : pc'[r] = pc[r]) /\ UNCHANGED state
  BY DEF TypeOK, BeginCall, rowVars
<1>. QED
  BY <1>1 DEF StartsNoExecution, Burned, Executing

LEMMA BurnKeepsCap ==
  ASSUME SingleWriter, IInv, CapInv, NEW s \in AllSessions, Burn(s)
  PROVE  CapInv'
<1>. DEFINE o == Subject(s)
<1>1. o \in Operations /\ pc[s] = "read" /\ UNCHANGED state
  BY SubjectIsTarget DEF IInv, CallsInv, Burn, InWrite
<1>2. CASE Return(s) /\ UNCHANGED lock
  BY <1>1, <1>2, ReturnStartsNothing, NoStartKeepsCap DEF IInv
<1>3. CASE /\ ~LimitReached
           /\ lock' = [lock EXCEPT ![o] = s]
           /\ pc' = [pc EXCEPT ![s] = "burned"]
  <2>1. \A q \in Operations : lock[q] \in {s, None}
    BY DEF Burn, InWrite, MayWrite
  <2>2. \A r \in AllSessions : ~Burned(r)
    BY <1>1, <2>1, LifecycleAssumption DEF CapInv, BurnHoldsLock, Burned, AllSessions
  <2>3. pc'[s] = "burned" /\ (\A r \in AllSessions \ {s} : pc'[r] = pc[r]) /\ lock'[o] = s
    BY <1>1, <1>3 DEF IInv, TypeOK
  <2>4. Executing' = Executing
    BY <1>1 DEF Executing
  <2>5. Cardinality(Executing) < MaxConcurrent
    BY <1>3, FS_CardinalityType, LifecycleAssumption DEF LimitReached, CapInv
  <2>6. BurnHoldsLock' /\ OneBurn'
    BY <1>1, <2>2, <2>3 DEF BurnHoldsLock, OneBurn, Burned
  <2>. QED
    BY <2>4, <2>5, <2>6 DEF CapInv, RoomForBurn
<1>. QED
  BY <1>2, <1>3 DEF Burn

LEMMA StartKeepsCap ==
  ASSUME IInv, CapInv, NEW s \in AllSessions, StartExecution(s)
  PROVE  CapInv'
<1>. DEFINE o == Subject(s)
<1>1. o \in Operations /\ pc[s] = "burned"
  BY SubjectIsTarget DEF IInv, CallsInv, ExecutionOnly, StartExecution
<1>2. CASE Return(s) /\ UNCHANGED state
  BY <1>2, ReturnStartsNothing, NoStartKeepsCap DEF IInv, StartExecution
<1>3. CASE ApplyTransition(s, o, "T10") /\ pc' = [pc EXCEPT ![s] = "dispatch"]
  <2>1. pc'[s] = "dispatch" /\ \A r \in AllSessions \ {s} : pc'[r] = pc[r]
    BY <1>3 DEF IInv, TypeOK
  <2>2. \A r \in AllSessions : ~Burned(r)'
    BY <1>1, <2>1 DEF CapInv, OneBurn, Burned
  <2>3. Cardinality(Executing) < MaxConcurrent
    BY <1>1 DEF CapInv, RoomForBurn, Burned
  <2>4. Executing' = Executing \union {o}
    BY <1>1, <1>3, TransitionTable DEF Executing, ApplyTransition, IInv, TypeOK
  <2>5. IsFiniteSet(Executing') /\ Cardinality(Executing') <= Cardinality(Executing) + 1
    <3>1. IsFiniteSet(Executing) /\ Cardinality(Executing) \in Nat
      BY FS_CardinalityType DEF CapInv
    <3>2. /\ IsFiniteSet(Executing \union {o})
          /\ Cardinality(Executing \union {o}) <= Cardinality(Executing) + 1
      <4>. HIDE DEF o
      <4>1. CASE o \in Executing
        BY <3>1, <4>1, FS_AddElement
      <4>2. CASE o \notin Executing
        BY <3>1, <4>2, FS_AddElement
      <4>. QED
        BY <4>1, <4>2
    <3>. QED
      BY <2>4, <3>2
  <2>6. Cardinality(Executing') <= MaxConcurrent
    BY <2>3, <2>5, FS_CardinalityType, LifecycleAssumption DEF CapInv
  <2>. QED
    BY <2>2, <2>5, <2>6 DEF CapInv, BurnHoldsLock, OneBurn, RoomForBurn
<1>. QED
  BY <1>2, <1>3 DEF StartExecution, UnmovedRow

LEMMA NextKeepsCap ==
  ASSUME SingleWriter, IInv, CapInv, [Next]_vars
  PROVE  CapInv'
<1>. USE DEF IInv
<1>1. CASE UNCHANGED <<state, lock, pc>>
  BY <1>1, NoStartKeepsCap DEF StartsNoExecution, Burned, Executing
<1>2. ASSUME NEW o \in Operations, NEW p \in Principals, NEW t \in Creations, Prepare(o, p, t)
      PROVE  CapInv'
  <2>1. TRANSITIONS[t].to # "EXECUTING"
    BY TransitionTable DEF Creations
  <2>2. Executing' \subseteq Executing
    BY <1>2, <2>1 DEF Prepare, Executing, TypeOK
  <2>. QED
    BY <1>2, <2>2, NoStartKeepsCap DEF Prepare, callVars, StartsNoExecution, Burned
<1>3. ASSUME NEW s \in Sessions, Request(s)
      PROVE  CapInv'
  BY <1>3, BeginStartsNothing, NoStartKeepsCap
     DEF Request, BeginDecision, BeginCancel, BeginExecute, AllSessions
<1>4. ASSUME NEW s \in AllSessions, BeginExpiry(s)
      PROVE  CapInv'
  BY <1>4, BeginStartsNothing, NoStartKeepsCap DEF BeginExpiry
<1>5. ASSUME NEW s \in AllSessions,
             \/ Approve(s) \/ Reject(s) \/ Cancel(s) \/ ExpireOverdue(s)
             \/ RecordOutcome(s) \/ RefuseExecute(s) \/ Crash(s)
      PROVE  CapInv'
  <2>1. Return(s) /\ (lock' = lock \/ Release(s))
    BY <1>5 DEF Approve, Reject, Cancel, ExpireOverdue, RecordOutcome, RefuseExecute, Crash
  <2>2. \A o \in Operations : state'[o] = "EXECUTING" => state[o] = "EXECUTING"
    <3>1. CASE UNCHANGED state
      BY <3>1
    <3>2. CASE \E t \in {"T06", "T07", "T09", "T12"} : ApplyTransition(s, Subject(s), t)
      BY <3>2, TransitionTable DEF ApplyTransition, TypeOK
    <3>3. CASE ExpireOverdue(s)
      BY <3>3, TransitionTable DEF ExpireOverdue, ExpiryTransition
    <3>4. CASE RecordOutcome(s)
      BY <3>4, TransitionTable DEF RecordOutcome, UnmovedRow, OutcomeTransition, TypeOK
    <3>. QED
      BY <1>5, <3>1, <3>2, <3>3, <3>4
         DEF Approve, Reject, Cancel, UnmovedRow, RefuseExecute, Crash, rowVars
  <2>. QED
    BY <2>1, <2>2, ReturnStartsNothing, NoStartKeepsCap
<1>6. ASSUME NEW s \in AllSessions, Dispatch(s)
      PROVE  CapInv'
  <2>1. UNCHANGED <<state, lock>>
    BY <1>6 DEF Dispatch, rowVars
  <2>2. \A r \in AllSessions : pc'[r] = "burned" => pc[r] = "burned"
    BY <1>6 DEF Dispatch, Return, TypeOK
  <2>. QED
    BY <2>1, <2>2, NoStartKeepsCap DEF StartsNoExecution, Burned, Executing
<1>7. CASE Tick \/ UNCHANGED vars
  BY <1>1, <1>7 DEF Tick, vars, rowVars, callVars
<1>. QED
  BY <1>2, <1>3, <1>4, <1>5, <1>6, <1>7, BurnKeepsCap, StartKeepsCap DEF Next, Step, Creations

LEMMA InitCap == Init => CapInv
<1>. SUFFICES ASSUME Init PROVE CapInv
  OBVIOUS
<1>1. Executing = {}
  BY DEF Init, Executing, NoState
<1>2. \A s \in AllSessions : ~Burned(s)
  BY DEF Init, Burned
<1>3. IsFiniteSet(Executing) /\ Cardinality(Executing) <= MaxConcurrent
  BY <1>1, FS_EmptySet, LifecycleAssumption
<1>. QED
  BY <1>2, <1>3 DEF CapInv, BurnHoldsLock, OneBurn, RoomForBurn

\* On SQLite no interleaving of executions exceeds the workflow's max_concurrent
\* (execute_operation's count), for any number of operations and of callers: the
\* count is taken by the call that holds the write lock until T10 is committed.
THEOREM ExecutionsAreCapped == Spec => []ConcurrencyCap
<1>1. CASE SingleWriter
  <2>1. IInv /\ CapInv /\ [Next]_vars => CapInv'
    BY <1>1, NextKeepsCap
  <2>2. CapInv => ConcurrencyCap
    BY DEF CapInv, ConcurrencyCap
  <2>. QED
    BY <2>1, <2>2, InitCap, Invariance, PTL DEF Spec
<1>2. CASE ~SingleWriter
  <2>1. ConcurrencyCap
    BY <1>2 DEF ConcurrencyCap
  <2>. QED
    BY <2>1, PTL
<1>. QED
  BY <1>1, <1>2

-----------------------------------------------------------------------------
(* Who attends an execution.  In v1 only the owner reaches an operation, so *)
(* dispatch_operation's own look at the owner always agrees with the tool's *)
(* and the call goes on to record an outcome.                               *)

Attends(s, o) == pc[s] \in {"dispatch", "record"} /\ target[s] = {o}

\* In v1 a call that executes is its operation's owner's.
CallerIsOwner ==
  \A s \in AllSessions, o \in Operations :
    pc[s] # "idle" /\ kind[s] = "execute" /\ target[s] = {o} =>
      owner[o] = by[s] /\ state[o] # NoState

Attended ==
  crashes = 0 => \A o \in Operations : state[o] = "EXECUTING" => \E s \in AllSessions : Attends(s, o)

\* What a step may do to the calls and to the owners.
CallersKept ==
  \A s \in AllSessions :
    \/ pc'[s] = "idle"
    \/ pc[s] # "idle" /\ UNCHANGED <<kind[s], target[s], by[s]>>
    \/ /\ pc'[s] = "read"
       /\ \A o \in target'[s] : kind'[s] = "execute" => owner[o] = by'[s] /\ state[o] # NoState

OwnersKept == \A o \in Operations : state[o] # NoState => owner'[o] = owner[o]

LEMMA ReturnKeepsCallers ==
  ASSUME TypeOK, NEW s \in AllSessions, Return(s)
  PROVE  CallersKept
<1>1. pc'[s] = "idle"
      /\ \A r \in AllSessions \ {s} : UNCHANGED <<pc[r], kind[r], target[r], by[r]>>
  BY DEF TypeOK, Return
<1>. QED
  BY <1>1 DEF CallersKept

LEMMA BeginKeepsCallers ==
  ASSUME TypeOK, NEW s \in AllSessions, NEW k, NEW p, NEW ops \in SUBSET Operations,
         BeginCall(s, k, p, ops),
         k = "execute" => \A o \in ops : owner[o] = p /\ state[o] # NoState
  PROVE  CallersKept
<1>1. /\ pc'[s] = "read" /\ kind'[s] = k /\ target'[s] = ops /\ by'[s] = p
      /\ \A r \in AllSessions \ {s} : UNCHANGED <<pc[r], kind[r], target[r], by[r]>>
  BY DEF TypeOK, BeginCall
<1>. QED
  BY <1>1 DEF CallersKept

LEMMA NextKeepsCallers ==
  ASSUME ~EnableV2, IInv, [Next]_vars
  PROVE  CallersKept
<1>. USE DEF IInv
<1>1. CASE UNCHANGED <<pc, kind, target, by>>
  BY <1>1 DEF CallersKept
<1>2. ASSUME NEW s \in Sessions, Request(s)
      PROVE  CallersKept
  <2>. s \in AllSessions
    BY DEF AllSessions
  <2>1. PICK o \in Operations, p \in Principals :
          \/ \E k \in {"approve", "reject"} : BeginDecision(s, k, o, p)
          \/ BeginCancel(s, o, p)
          \/ BeginExecute(s, o, p)
    BY <1>2 DEF Request
  <2>2. CASE BeginExecute(s, o, p)
    <3>1. owner[o] = p /\ state[o] # NoState
      BY <2>2 DEF BeginExecute, MayReach, NoState
    <3>. QED
      BY <2>2, <3>1, BeginKeepsCallers DEF BeginExecute
  <2>3. CASE ~BeginExecute(s, o, p)
    BY <2>1, <2>3, BeginKeepsCallers DEF BeginDecision, BeginCancel
  <2>. QED
    BY <2>2, <2>3
<1>3. ASSUME NEW s \in AllSessions, BeginExpiry(s)
      PROVE  CallersKept
  <2>1. PICK ops \in SUBSET Operations : BeginCall(s, "expire", None, ops)
    BY <1>3 DEF BeginExpiry, OverdueOperations
  <2>. QED
    BY <2>1, BeginKeepsCallers
<1>4. ASSUME NEW s \in AllSessions, Step(s) \/ RefuseExecute(s) \/ Crash(s)
      PROVE  CallersKept
  <2>1. CASE Return(s)
    BY <2>1, ReturnKeepsCallers
  <2>2. CASE /\ pc[s] # "idle" /\ UNCHANGED <<kind, target, by>>
             /\ \E next \in {"burned", "dispatch", "record"} : pc' = [pc EXCEPT ![s] = next]
    BY <2>2 DEF TypeOK, CallersKept
  <2>. QED
    BY <1>4, <2>1, <2>2
       DEF Step, Approve, Reject, Cancel, ExpireOverdue, Burn, InWrite, StartExecution, Dispatch,
           RecordOutcome, RefuseExecute, Crash
<1>5. ASSUME NEW o \in Operations, NEW p \in Principals, NEW t \in Creations, Prepare(o, p, t)
      PROVE  CallersKept
  BY <1>1, <1>5 DEF Prepare, callVars
<1>6. CASE Tick \/ UNCHANGED vars
  BY <1>1, <1>6 DEF Tick, vars, callVars
<1>. QED
  BY <1>2, <1>3, <1>4, <1>5, <1>6 DEF Next, Creations

LEMMA NextKeepsOwners ==
  ASSUME TypeOK, [Next]_vars
  PROVE  OwnersKept
<1>1. ASSUME NEW o \in Operations, NEW p \in Principals, NEW t \in Creations, Prepare(o, p, t)
      PROVE  OwnersKept
  BY <1>1 DEF Prepare, OwnersKept, TypeOK
<1>2. CASE UNCHANGED owner
  BY <1>2 DEF OwnersKept
<1>3. ASSUME NEW s \in Sessions, Request(s)
      PROVE  UNCHANGED owner
  BY <1>3 DEF Request, BeginDecision, BeginCancel, BeginExecute, BeginCall, rowVars
<1>4. ASSUME NEW s \in AllSessions, BeginExpiry(s) \/ Step(s)
      PROVE  UNCHANGED owner
  BY <1>4 DEF BeginExpiry, BeginCall, Step, Approve, Reject, Cancel, ExpireOverdue, Burn,
              StartExecution, Dispatch, RecordOutcome, rowVars
<1>5. ASSUME NEW s \in AllSessions, RefuseExecute(s) \/ Crash(s)
      PROVE  UNCHANGED owner
  BY <1>5 DEF RefuseExecute, Crash, rowVars
<1>6. CASE Tick \/ UNCHANGED vars
  BY <1>2, <1>6 DEF Tick, vars, rowVars
<1>. QED
  BY <1>1, <1>2, <1>3, <1>4, <1>5, <1>6 DEF Next, Creations

LEMMA NextKeepsCallerIsOwner ==
  ASSUME ~EnableV2, IInv, CallerIsOwner, [Next]_vars
  PROVE  CallerIsOwner'
<1>. SUFFICES ASSUME NEW s \in AllSessions, NEW o \in Operations,
                     pc'[s] # "idle", kind'[s] = "execute", target'[s] = {o}
              PROVE  owner'[o] = by'[s] /\ state'[o] # NoState
  BY DEF CallerIsOwner
<1>1. CallersKept /\ OwnersKept /\ RowsMoveForward
  BY NextKeepsCallers, NextKeepsOwners, NextHasShape DEF IInv
<1>2. owner[o] = by'[s] /\ state[o] # NoState
  BY <1>1 DEF CallersKept, CallerIsOwner
<1>. QED
  BY <1>1, <1>2 DEF OwnersKept, RowsMoveForward

\* A step that starts no execution and interrupts none.
AttendanceKept ==
  /\ \A o \in Operations : state'[o] = "EXECUTING" => state[o] = "EXECUTING"
  /\ \A s \in AllSessions, o \in Operations :
       Attends(s, o) /\ state'[o] = "EXECUTING" => Attends(s, o)'
  /\ crashes' = 0 => crashes = 0

LEMMA KeptAttendance ==
  ASSUME Attended, AttendanceKept
  PROVE  Attended'
BY DEF Attended, AttendanceKept

LEMMA NextKeepsAttended ==
  ASSUME IInv, CallerIsOwner, Attended, [Next]_vars
  PROVE  Attended'
<1>. USE DEF IInv
<1>1. ASSUME NEW o \in Operations, NEW p \in Principals, NEW t \in Creations, Prepare(o, p, t)
      PROVE  Attended'
  <2>1. TRANSITIONS[t].to # "EXECUTING"
    BY TransitionTable DEF Creations
  <2>2. AttendanceKept
    BY <1>1, <2>1 DEF Prepare, TypeOK, AttendanceKept, Attends, callVars
  <2>. QED
    BY <2>2, KeptAttendance
<1>2. ASSUME NEW s \in AllSessions, NEW k, NEW p, NEW ops, BeginCall(s, k, p, ops)
      PROVE  Attended'
  <2>1. AttendanceKept
    BY <1>2 DEF BeginCall, TypeOK, AttendanceKept, Attends, rowVars
  <2>. QED
    BY <2>1, KeptAttendance
<1>3. ASSUME NEW s \in AllSessions,
             \/ Approve(s) \/ Reject(s) \/ Cancel(s) \/ ExpireOverdue(s) \/ RefuseExecute(s)
      PROVE  Attended'
  <2>1. Return(s) /\ pc[s] = "read" /\ UNCHANGED crashes
    BY <1>3 DEF Approve, Reject, Cancel, ExpireOverdue, InWrite, RefuseExecute
  <2>2. \A o \in Operations : state'[o] = "EXECUTING" => state[o] = "EXECUTING"
    <3>1. CASE UNCHANGED state
      BY <3>1
    <3>2. CASE \E t \in {"T06", "T07", "T09", "T12"} : ApplyTransition(s, Subject(s), t)
      BY <3>2, TransitionTable DEF ApplyTransition, TypeOK
    <3>3. CASE ExpireOverdue(s)
      BY <3>3, TransitionTable DEF ExpireOverdue, ExpiryTransition
    <3>. QED
      BY <1>3, <3>1, <3>2, <3>3 DEF Approve, Reject, Cancel, UnmovedRow, RefuseExecute, rowVars
  <2>3. \A r \in AllSessions \ {s} : UNCHANGED <<pc[r], target[r]>>
    BY <2>1 DEF Return, TypeOK
  <2>. QED
    BY <2>1, <2>2, <2>3, KeptAttendance DEF AttendanceKept, Attends
<1>4. ASSUME NEW s \in AllSessions, Burn(s)
      PROVE  Attended'
  <2>1. pc[s] = "read" /\ UNCHANGED <<state, crashes>>
    BY <1>4 DEF Burn, InWrite
  <2>2. \A r \in AllSessions \ {s} : UNCHANGED <<pc[r], target[r]>>
    BY <1>4 DEF Burn, Return, TypeOK
  <2>. QED
    BY <2>1, <2>2, KeptAttendance DEF AttendanceKept, Attends
<1>5. ASSUME NEW s \in AllSessions, StartExecution(s)
      PROVE  Attended'
  <2>. DEFINE o == Subject(s)
  <2>1. o \in Operations /\ target[s] = {o} /\ pc[s] = "burned" /\ UNCHANGED crashes
    BY <1>5, SubjectIsTarget DEF CallsInv, ExecutionOnly, StartExecution
  <2>2. \A r \in AllSessions \ {s} : UNCHANGED <<pc[r], target[r]>>
    BY <1>5 DEF StartExecution, Return, TypeOK
  <2>3. CASE UNCHANGED state
    BY <2>1, <2>2, <2>3, KeptAttendance DEF AttendanceKept, Attends
  <2>4. CASE ApplyTransition(s, o, "T10") /\ pc' = [pc EXCEPT ![s] = "dispatch"] /\ UNCHANGED target
    <3>0. state' = [state EXCEPT ![o] = TRANSITIONS["T10"].to]
      BY <2>4 DEF ApplyTransition
    <3>. HIDE DEF o
    <3>1. pc'[s] = "dispatch" /\ target'[s] = {o}
      BY <2>1, <2>4 DEF TypeOK
    <3>2. \A q \in Operations \ {o} : state'[q] = state[q]
      BY <3>0 DEF TypeOK
    <3>3. \A r \in AllSessions, q \in Operations : Attends(r, q) => Attends(r, q)'
      BY <2>1, <2>2 DEF Attends
    <3>4. ASSUME crashes' = 0, NEW q \in Operations, state'[q] = "EXECUTING"
          PROVE  \E r \in AllSessions : Attends(r, q)'
      <4>1. CASE q = o
        BY <3>1, <4>1 DEF Attends
      <4>2. CASE q # o
        BY <2>1, <3>2, <3>3, <3>4, <4>2 DEF Attended
      <4>. QED
        BY <4>1, <4>2
    <3>. QED
      BY <3>4 DEF Attended
  <2>. QED
    BY <1>5, <2>3, <2>4 DEF StartExecution, UnmovedRow
<1>6. ASSUME NEW s \in AllSessions, Dispatch(s)
      PROVE  Attended'
  <2>. DEFINE o == Subject(s)
  <2>1. o \in Operations /\ target[s] = {o} /\ pc[s] = "dispatch" /\ kind[s] = "execute"
    BY <1>6, SubjectIsTarget DEF CallsInv, ExecutionOnly, Dispatch
  <2>2. owner[o] = by[s] /\ state[o] = "EXECUTING"
    BY <2>1 DEF CallerIsOwner, RunsInv, DispatchIsFirst
  <2>3. pc' = [pc EXCEPT ![s] = "record"] /\ UNCHANGED <<target, state, crashes>>
    BY <1>6, <2>2 DEF Dispatch, rowVars
  <2>4. AttendanceKept
    BY <2>3 DEF AttendanceKept, Attends, TypeOK
  <2>. QED
    BY <2>4, KeptAttendance
<1>7. ASSUME NEW s \in AllSessions, RecordOutcome(s)
      PROVE  Attended'
  <2>. DEFINE o == Subject(s)
              t == OutcomeTransition(outcome[s])
  <2>1. o \in Operations /\ target[s] = {o} /\ pc[s] = "record"
    BY <1>7, SubjectIsTarget DEF CallsInv, ExecutionOnly, RecordOutcome
  <2>2. state[o] = "EXECUTING"
    BY <2>1 DEF RunsInv, RecordIsDue
  <2>3. state' = [state EXCEPT ![o] = TRANSITIONS[t].to] /\ Return(s) /\ UNCHANGED crashes
    BY <1>7, <2>2 DEF RecordOutcome
  <2>4. TRANSITIONS[t].to # "EXECUTING"
    BY TransitionTable DEF OutcomeTransition
  <2>5. state'[o] # "EXECUTING" /\ \A q \in Operations \ {o} : state'[q] = state[q]
    BY <2>1, <2>3, <2>4 DEF TypeOK
  <2>6. \A r \in AllSessions \ {s} : UNCHANGED <<pc[r], target[r]>>
    BY <2>3 DEF Return, TypeOK
  <2>7. AttendanceKept
    BY <2>1, <2>3, <2>5, <2>6 DEF AttendanceKept, Attends
  <2>. QED
    BY <2>7, KeptAttendance
<1>8. ASSUME NEW s \in AllSessions, Crash(s)
      PROVE  Attended'
  BY <1>8 DEF Crash, Attended, TypeOK
<1>9. CASE Tick \/ UNCHANGED vars
  BY <1>9, KeptAttendance DEF Tick, vars, rowVars, callVars, AttendanceKept, Attends
<1>. QED
  BY <1>1, <1>2, <1>3, <1>4, <1>5, <1>6, <1>7, <1>8, <1>9
     DEF Next, Step, Creations, Request, BeginDecision, BeginCancel, BeginExecute, BeginExpiry,
         AllSessions

\* In v1, unless a call has died, an executing operation is in the hands of exactly one
\* call that will record its outcome, so no slot of max_concurrent leaks
\* (dispatch_operation, record_execution_outcome).
THEOREM ExecutionsAreAttended == ~EnableV2 => (Spec => []ExecutionIsAttended)
<1>. SUFFICES ASSUME ~EnableV2 PROVE Spec => []ExecutionIsAttended
  OBVIOUS
<1>1. Init => CallerIsOwner /\ Attended
  BY DEF Init, CallerIsOwner, Attended, NoState
<1>2. IInv /\ CallerIsOwner /\ Attended /\ [Next]_vars => (CallerIsOwner /\ Attended)'
  BY NextKeepsCallerIsOwner, NextKeepsAttended
<1>3. IInv /\ Attended => ExecutionIsAttended
  <2>. SUFFICES ASSUME IInv, Attended, crashes = 0, NEW o \in Operations, state[o] = "EXECUTING"
                PROVE  Cardinality({s \in AllSessions :
                         pc[s] \in {"dispatch", "record"} /\ target[s] = {o}}) = 1
    BY DEF ExecutionIsAttended
  <2>1. PICK s \in AllSessions : Attends(s, o)
    BY DEF Attended
  <2>2. {r \in AllSessions : pc[r] \in {"dispatch", "record"} /\ target[r] = {o}} = {s}
    BY <2>1 DEF Attends, IInv, RunsInv, OneExecutor
  <2>. QED
    BY <2>2, FS_Singleton
<1>. QED
  BY <1>1, <1>2, <1>3, Invariance, PTL DEF Spec
=============================================================================
