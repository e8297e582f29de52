---------------------------- MODULE Notifications ----------------------------
(***************************************************************************)
(* Delivery of notifications: request_approval and the alert hooks send an *)
(* event at once and record the attempt (_deliver_with_dedup); the command *)
(* retry-failed sends again what is pending and gives up after so many     *)
(* attempts; check-alerts looks for operations that reached UNKNOWN.  Each *)
(* is one transaction over several events: it sends as it goes and commits *)
(* at the end, so what it sent stays sent when it rolls back.              *)
(*                                                                         *)
(* One row per idempotency key.  Nothing is locked when a row is read; the *)
(* update of a row locks it, and the unique constraint stops a second one. *)
(***************************************************************************)
EXTENDS Naturals, Sequences, SequencesExt, FiniteSets

CONSTANTS
  Requests,      \* keys of approval.requested events: <<operation, approver>>
  Alerts,        \* keys of alerts, one per operation; numbers, as Requests are
  Requesters,    \* sessions that may call request_approval,
  Retriers,      \* run `notifications retry-failed`,
  Alerters,      \* run `notifications check-alerts`
  NoRow,
  MaxAttempts,   \* max_attempts
  ListLimit,     \* limit of list_unknown and stuck_executing
  SingleWriter   \* TRUE: SQLite, one write transaction; FALSE: PostgreSQL

ASSUME NotificationsAssumption ==
  /\ Requests \subseteq Nat /\ Alerts \subseteq Nat /\ Requests \intersect Alerts = {}
  /\ IsFiniteSet(Requests) /\ IsFiniteSet(Alerts)
  /\ MaxAttempts \in Nat \ {0} /\ ListLimit \in Nat
  /\ SingleWriter \in BOOLEAN

Keys == Requests \union Alerts
Sessions == Requesters \union Retriers \union Alerters

\* Attempts are counted no further than max_attempts: nothing compares beyond.
Deliveries == [status : {"pending", "delivered", "failed"}, attempts : 0 .. MaxAttempts]

ASSUME NoRowAssumption == NoRow \notin Deliveries

VARIABLES
  rows,      \* notification_deliveries, as committed
  alerting,  \* operations that are UNKNOWN, in the order they became so
  tries,     \* how often the sink was called for a key, up to MaxAttempts
  notified,  \* approvers that a committed request_approval reported as notified
  pc, todo,  \* a session's next step, and the keys it has still to deal with
  copy,      \* the rows as a session has read them
  wrote,     \* what its flushed statements set: NoRow, or a delivery
  asked      \* the approvers a call of request_approval routes to

sessionVars == <<pc, todo, copy, wrote, asked>>
vars == <<rows, alerting, tries, notified, sessionVars>>

TypeOK ==
  /\ rows \in [Keys -> Deliveries \union {NoRow}]
  /\ alerting \in Seq(Alerts)
  /\ tries \in [Keys -> 0 .. MaxAttempts]
  /\ notified \subseteq Requests
  /\ pc \in [Sessions -> {"idle", "look", "create", "send", "resend", "commit"}]
  /\ todo \in [Sessions -> Seq(Keys)]
  /\ copy \in [Sessions -> [Keys -> Deliveries \union {NoRow}]]
  /\ wrote \in [Sessions -> [Keys -> Deliveries \union {NoRow}]]
  /\ asked \in [Sessions -> SUBSET Requests]

Nothing == [k \in Keys |-> NoRow]

Init ==
  /\ rows = Nothing
  /\ alerting = <<>>
  /\ tries = [k \in Keys |-> 0]
  /\ notified = {}
  /\ pc = [s \in Sessions |-> "idle"]
  /\ todo = [s \in Sessions |-> <<>>]
  /\ copy = [s \in Sessions |-> Nothing]
  /\ wrote = [s \in Sessions |-> Nothing]
  /\ asked = [s \in Sessions |-> {}]

-----------------------------------------------------------------------------
(* Transactions.                                                           *)

Writing(s) == \E k \in Keys : wrote[s][k] # NoRow

\* A statement on the row of `k` waits for any other transaction that changed it.
WaitsFor(s, d, k) ==
  /\ d # s
  /\ wrote[d][k] # NoRow \/ (SingleWriter /\ Writing(d))

Unlocked(s, k) == \A d \in Sessions : ~WaitsFor(s, d, k)

Return(s) ==
  /\ pc' = [pc EXCEPT ![s] = "idle"]
  /\ todo' = [todo EXCEPT ![s] = <<>>]
  /\ copy' = [copy EXCEPT ![s] = Nothing]
  /\ wrote' = [wrote EXCEPT ![s] = Nothing]
  /\ asked' = [asked EXCEPT ![s] = {}]

Rollback(s) == Return(s) /\ UNCHANGED <<rows, alerting, tries, notified>>

\* The next key, or the commit.
Onward(s, rest, step) ==
  /\ todo' = [todo EXCEPT ![s] = rest]
  /\ pc' = [pc EXCEPT ![s] = IF rest = <<>> THEN "commit" ELSE step]

Begin(s, keys, approvers, step, read) ==
  /\ pc[s] = "idle"
  /\ keys # <<>>
  /\ Onward(s, keys, step)
  /\ copy' = [copy EXCEPT ![s] = read]
  /\ asked' = [asked EXCEPT ![s] = approvers]
  /\ UNCHANGED <<rows, alerting, tries, notified, wrote>>

-----------------------------------------------------------------------------
(* What begins a transaction.                                              *)

\* The keys, each once, in an order that admits one sequence only.
InOrder(keys, precedes(_, _)) ==
  {order \in SetToSeqs(keys) :
     \A i, j \in DOMAIN order : i < j => precedes(order[i], order[j])}

\* request_approval, for all the eligible approvers or for the ones the caller names.
BeginRequest(s, approvers) ==
  /\ s \in Requesters
  /\ \E keys \in InOrder(approvers, <) : Begin(s, keys, approvers, "look", Nothing)

Pending == {k \in Keys : rows[k] # NoRow /\ rows[k].status = "pending"}

\* retry_failed_notifications reads every pending row, the least attempted first.
LeastAttempted(k, l) ==
  \/ rows[k].attempts < rows[l].attempts
  \/ rows[k].attempts = rows[l].attempts /\ k < l

BeginRetry(s) ==
  /\ s \in Retriers
  /\ \E keys \in InOrder(Pending, LeastAttempted) :
       Begin(s, keys, {}, "resend", [k \in Keys |-> IF k \in Pending THEN rows[k] ELSE NoRow])

\* Mutant: one operation fewer than the limit.
Listed_OffByOne ==
  SubSeq(alerting, 1, IF Len(alerting) < ListLimit THEN Len(alerting) ELSE ListLimit - 1)

\* list_unknown: the ones that have not changed for longest, and no more than the limit.
\* (stuck_executing is the same over another state.)
Listed == SubSeq(alerting, 1, IF Len(alerting) < ListLimit THEN Len(alerting) ELSE ListLimit)

BeginAlerts(s) ==
  /\ s \in Alerters
  /\ Begin(s, Listed, {}, "look", Nothing)

-----------------------------------------------------------------------------
(* _deliver_with_dedup and the body of the retry loop.                      *)

\* A delivered row ends it; otherwise the row is used, or there will be a new one.
LookUp(s) ==
  LET k == Head(todo[s])
      done == rows[k] # NoRow /\ rows[k].status = "delivered"
  IN /\ pc[s] = "look"
     /\ IF done THEN Onward(s, Tail(todo[s]), "look") /\ UNCHANGED copy
        ELSE /\ pc' = [pc EXCEPT ![s] = IF rows[k] = NoRow THEN "create" ELSE "send"]
             /\ copy' = [copy EXCEPT ![s][k] = rows[k]]
             /\ UNCHANGED todo
     /\ UNCHANGED <<rows, alerting, tries, notified, wrote, asked>>

\* Mutant: the creation counts as an attempt.
NewDelivery_Counted == [status |-> "pending", attempts |-> 1]

NewDelivery == [status |-> "pending", attempts |-> 0]

Create(s) ==
  LET k == Head(todo[s])
  IN /\ pc[s] = "create"
     /\ Unlocked(s, k) /\ rows[k] = NoRow
     /\ wrote' = [wrote EXCEPT ![s][k] = NewDelivery]
     /\ copy' = [copy EXCEPT ![s][k] = NewDelivery]
     /\ pc' = [pc EXCEPT ![s] = "send"]
     /\ UNCHANGED <<rows, alerting, tries, notified, todo, asked>>

\* The key was inserted meanwhile.  Nothing catches the IntegrityError: the whole
\* transaction is rolled back.
LoseCreate(s) ==
  /\ pc[s] = "create"
  /\ Unlocked(s, Head(todo[s])) /\ rows[Head(todo[s])] # NoRow
  /\ Rollback(s)

OneMore(n) == IF n < MaxAttempts THEN n + 1 ELSE n

Exhausted(attempts) == attempts >= MaxAttempts

\* The row's columns after record_attempt and, in the sweep, mark_failed: the number of
\* attempts is set from the session's own copy, the status only when it changes there.
Recorded(s, k, delivered) ==
  LET n == OneMore(copy[s][k].attempts)
      present == IF wrote[s][k] # NoRow THEN wrote[s][k] ELSE rows[k]
  IN [attempts |-> n,
      status |-> IF delivered THEN "delivered"
                 ELSE IF pc[s] = "resend" /\ Exhausted(n) THEN "failed"
                 ELSE present.status]

\* The sink is called and the attempt recorded.  Whether the sink answers that it
\* delivered the event says nothing certain of whether it did.
Attempt(s) ==
  LET k == Head(todo[s])
  IN /\ pc[s] \in {"send", "resend"}
     /\ Unlocked(s, k)
     /\ \E delivered \in BOOLEAN :
          wrote' = [wrote EXCEPT ![s][k] = Recorded(s, k, delivered)]
     /\ tries' = [tries EXCEPT ![k] = OneMore(@)]
     /\ copy' = [copy EXCEPT ![s][k] = NoRow]
     /\ Onward(s, Tail(todo[s]), IF pc[s] = "resend" THEN "resend" ELSE "look")
     /\ UNCHANGED <<rows, alerting, notified, asked>>

\* Mutant: the caller is told before the transaction has committed.
Commit_Early(s) ==
  /\ pc[s] = "commit"
  /\ notified' = notified \union asked[s]
  /\ \/ rows' = [k \in Keys |-> IF wrote[s][k] # NoRow THEN wrote[s][k] ELSE rows[k]]
     \/ UNCHANGED rows
  /\ Return(s)
  /\ UNCHANGED <<alerting, tries>>

Commit(s) ==
  /\ pc[s] = "commit"
  /\ rows' = [k \in Keys |-> IF wrote[s][k] # NoRow THEN wrote[s][k] ELSE rows[k]]
  /\ notified' = notified \union asked[s]
  /\ Return(s)
  /\ UNCHANGED <<alerting, tries>>

-----------------------------------------------------------------------------
(* The environment.                                                        *)

\* The statement a session is about to make waits for another's transaction.
Blocked(s, d) == pc[s] \in {"create", "send", "resend"} /\ WaitsFor(s, d, Head(todo[s]))

\* PostgreSQL ends one of two transactions that wait for each other.
Deadlocked(s) == \E d \in Sessions : Blocked(s, d) /\ Blocked(d, s)

Deadlock(s) ==
  /\ Deadlocked(s)
  /\ Rollback(s)

\* A call of request_approval is cut off, or fails later in its transaction.  (A sweep
\* may be rolled back by a deadlock; one that crashed every time would settle nothing.)
Crash(s) ==
  /\ asked[s] # {}
  /\ Writing(s)
  /\ Rollback(s)

\* UNKNOWN is terminal: an operation that reached it stays listed for good.  The keys
\* are numbered in that order.
BecomesUnknown(k) ==
  /\ k \notin ToSet(alerting) /\ \A l \in Alerts : l < k => l \in ToSet(alerting)
  /\ alerting' = Append(alerting, k)
  /\ UNCHANGED <<rows, tries, notified, sessionVars>>

-----------------------------------------------------------------------------
Start(s) ==
  \/ \E approvers \in SUBSET Requests : BeginRequest(s, approvers)
  \/ BeginRetry(s)
  \/ BeginAlerts(s)

Proceed(s) == LookUp(s) \/ Create(s) \/ LoseCreate(s) \/ Attempt(s) \/ Commit(s)

Next ==
  \/ \E s \in Sessions : Start(s) \/ Proceed(s) \/ Deadlock(s) \/ Crash(s)
  \/ \E k \in Alerts : BecomesUnknown(k)

Spec == Init /\ [][Next]_vars

\* The two commands run on a schedule, a call of the sink ends by its timeout, and locks
\* are granted in the order they are asked for.
Fairness ==
  /\ \A s \in Retriers : SF_vars(BeginRetry(s))
  /\ \A s \in Alerters : SF_vars(BeginAlerts(s))
  /\ \A s \in Sessions : SF_vars(Proceed(s)) /\ WF_vars(Deadlock(s))

FairSpec == Spec /\ Fairness

-----------------------------------------------------------------------------
(* Properties.                                                             *)

\* A row never claims an attempt that was not made, and a delivery is not given up
\* before max_attempts of them, whatever attempts overlapped or were rolled back after
\* the sink had been called.
GivenUpAfterTrying ==
  \A k \in Keys : rows[k] # NoRow =>
    /\ rows[k].attempts <= tries[k]
    /\ rows[k].status = "failed" => tries[k] >= MaxAttempts

\* An approver whom request_approval reports as notified has a delivery on record that
\* was tried, so that the event is delivered, or retried until it is given up.
NotifiedIsRecorded ==
  \A k \in notified : rows[k] # NoRow /\ rows[k].attempts >= 1

\* Every event on record, and every operation that reached UNKNOWN, comes to a
\* delivery or to a visible failure: retries are bounded and nobody waits for ever.
\* (The two sweeps take the rows in different orders; that they do not run into a
\* deadlock every time is assumed.)
Owed(k) == k \in Pending \union ToSet(alerting)
Settled(k) == rows[k] # NoRow /\ rows[k].status \in {"delivered", "failed"}

EveryEventIsSettled ==
  <>[](\A s \in Sessions : ~Deadlocked(s)) => \A k \in Keys : Owed(k) ~> Settled(k)

\* What has been delivered stays so, and attempts only go up.
DeliveredIsFinal ==
  [][\A k \in Keys : rows[k] # NoRow =>
       /\ rows'[k].attempts >= rows[k].attempts
       /\ rows[k].status = "delivered" => rows'[k].status = "delivered"]_vars
=============================================================================
