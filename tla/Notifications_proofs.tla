------------------------- MODULE Notifications_proofs -------------------------
(***************************************************************************)
(* For any finite set of events, any number of sessions, any max_attempts  *)
(* and both databases: no delivery is given up, and no attempt recorded,   *)
(* that was not tried, and who is reported as notified has a delivery on   *)
(* record that was.                                                        *)
(*                                                                         *)
(* The properties are about committed rows.  A row is committed from what  *)
(* a session wrote, and that is computed from a copy the session read some *)
(* time before, so IInv says of every copy and of everything written what  *)
(* the properties say of the rows: its attempts were made.  Calls of the   *)
(* sink are not undone by a rollback, and rows are never deleted, so that  *)
(* neither another session's commit nor its rollback can make it false.    *)
(***************************************************************************)
EXTENDS Notifications, FiniteSetTheorems, SequenceTheorems, TLAPS

Working == {"look", "create", "send", "resend"}
Steps == Working \union {"idle", "commit"}
Entered == [Keys -> Deliveries \union {NoRow}]

\* What a delivery claims was done.
Honest(delivery, tried) ==
  /\ delivery.attempts <= tried
  /\ delivery.status = "failed" => tried >= MaxAttempts

RowsInv ==
  \A k \in Keys : rows[k] # NoRow => rows[k].attempts >= 1 /\ Honest(rows[k], tries[k])

\* What a session at step p knows and has done: t is left to do, c what it has read,
\* w what it has written and a the approvers it was asked to notify; r are the
\* committed rows and q the calls of the sink.
Session(p, t, c, w, a, r, q) ==
  /\ p \in Steps /\ t \in Seq(Keys) /\ c \in Entered /\ w \in Entered /\ a \in SUBSET Requests
  /\ p \in Working <=> t # <<>>
  /\ p = "idle" => w = Nothing /\ a = {}
  /\ p = "send" => c[Head(t)] # NoRow
  /\ p = "resend" => /\ \A i, j \in 1 .. Len(t) : i # j => t[i] # t[j]
                     /\ \A i \in 1 .. Len(t) : c[t[i]] # NoRow
  /\ \A k \in Keys : c[k] # NoRow => /\ r[k] # NoRow \/ w[k] # NoRow
                                     /\ c[k].attempts <= q[k]
  /\ \A k \in Keys : w[k] # NoRow => /\ Honest(w[k], q[k])
                                     /\ w[k].attempts >= 1 \/ (p = "send" /\ k = Head(t))
  /\ \A k \in a : k \in ToSet(t) \/ r[k] # NoRow \/ w[k] # NoRow

SessionsInv ==
  \A s \in Sessions : Session(pc[s], todo[s], copy[s], wrote[s], asked[s], rows, tries)

NotifiedInv == \A k \in notified : rows[k] # NoRow

IInv == TypeOK /\ RowsInv /\ SessionsInv /\ NotifiedInv

-----------------------------------------------------------------------------
(* Sequences of keys.                                                      *)

\* A sequence without its first element.
LEMMA HeadAndTail ==
  ASSUME NEW t \in Seq(Keys), t # <<>>
  PROVE  /\ Head(t) \in Keys /\ Head(t) = t[1] /\ 1 \in 1 .. Len(t)
         /\ Tail(t) \in Seq(Keys) /\ Len(Tail(t)) = Len(t) - 1
         /\ \A i \in 1 .. Len(Tail(t)) : Tail(t)[i] = t[i + 1] /\ i + 1 \in 1 .. Len(t)
         /\ ToSet(t) \subseteq {Head(t)} \union ToSet(Tail(t))
<1>1. Len(t) \in Nat /\ Len(t) >= 1
  BY EmptySeq, LenProperties
<1>2. /\ Head(t) \in Keys /\ Head(t) = t[1]
      /\ Tail(t) \in Seq(Keys) /\ Len(Tail(t)) = Len(t) - 1
      /\ \A i \in 1 .. Len(Tail(t)) : Tail(t)[i] = t[i + 1]
  BY HeadTailProperties
<1>3. \A j \in 1 .. Len(t) : t[j] = Head(t) \/ \E i \in 1 .. Len(Tail(t)) : t[j] = Tail(t)[i]
  <2>. SUFFICES ASSUME NEW j \in 1 .. Len(t), j # 1
                PROVE  \E i \in 1 .. Len(Tail(t)) : t[j] = Tail(t)[i]
    BY <1>2
  <2>1. j - 1 \in 1 .. Len(Tail(t)) /\ (j - 1) + 1 = j
    BY <1>1, <1>2
  <2>. QED
    BY <1>2, <2>1
<1>4. DOMAIN t = 1 .. Len(t) /\ DOMAIN Tail(t) = 1 .. Len(Tail(t))
  BY <1>2, LenProperties
<1>5. ToSet(t) \subseteq {Head(t)} \union ToSet(Tail(t))
  BY <1>3, <1>4 DEF ToSet
<1>. QED
  BY <1>1, <1>2, <1>5

\* A sequence of a set's elements, each once, has them all.
LEMMA EachOnce ==
  ASSUME NEW S \in SUBSET Keys, NEW t \in SetToSeqs(S)
  PROVE  /\ t \in Seq(Keys) /\ ToSet(t) = S
         /\ \A i \in 1 .. Len(t) : t[i] \in S
         /\ \A i, j \in 1 .. Len(t) : i # j => t[i] # t[j]
<1>. DEFINE n == Cardinality(S)
<1>1. IsFiniteSet(S) /\ n \in Nat
  BY NotificationsAssumption, FS_Union, FS_Subset, FS_CardinalityType DEF Keys
<1>2. t \in [1 .. n -> S] /\ \A i, j \in 1 .. n : i # j => t[i] # t[j]
  BY DEF SetToSeqs
<1>3. t \in Injection(1 .. n, S)
  BY <1>2 DEF Injection, IsInjective
<1>4. Cardinality(1 .. n) = n
  BY <1>1, FS_Interval
<1>5. t \in Surjection(1 .. n, S)
  BY <1>1, <1>3, <1>4, FS_Injection
<1>6. t \in Seq(Keys) /\ Len(t) = n
  BY <1>1, <1>2
<1>7. ToSet(t) = S
  BY <1>2, <1>5 DEF ToSet, Surjection
<1>. QED
  BY <1>2, <1>6, <1>7

-----------------------------------------------------------------------------
(* Shapes of steps.                                                        *)

\* Rows and calls of the sink only become more.
Grows ==
  /\ rows' \in Entered /\ tries' \in [Keys -> 0 .. MaxAttempts]
  /\ \A k \in Keys : rows[k] # NoRow => rows'[k] # NoRow
  /\ \A k \in Keys : tries[k] <= tries'[k]

\* Session s comes to a step, and no other moves.
MovesTo(s, p, t, c, w, a) ==
  /\ pc' = [pc EXCEPT ![s] = p]
  /\ todo' = [todo EXCEPT ![s] = t]
  /\ copy' = [copy EXCEPT ![s] = c]
  /\ wrote' = [wrote EXCEPT ![s] = w]
  /\ asked' = [asked EXCEPT ![s] = a]
  /\ UNCHANGED alerting

LEMMA HonestStays ==
  ASSUME NEW d \in Deliveries, NEW m \in 0 .. MaxAttempts, NEW n \in 0 .. MaxAttempts,
         m <= n, Honest(d, m)
  PROVE  Honest(d, n)
BY NotificationsAssumption DEF Honest, Deliveries

\* What a session knows and has done is not undone by others.
LEMMA SessionStays ==
  ASSUME IInv, Grows, NEW p, NEW t, NEW c, NEW w, NEW a, Session(p, t, c, w, a, rows, tries)
  PROVE  Session(p, t, c, w, a, rows', tries')
<1>1. \A k \in Keys : /\ tries[k] \in 0 .. MaxAttempts /\ tries'[k] \in 0 .. MaxAttempts
                      /\ tries[k] <= tries'[k]
  BY DEF IInv, TypeOK, Grows
<1>2. ASSUME NEW k \in Keys, c[k] # NoRow
      PROVE  (rows'[k] # NoRow \/ w[k] # NoRow) /\ c[k].attempts <= tries'[k]
  <2>1. c[k] \in Deliveries
    BY <1>2 DEF Session, Entered
  <2>2. c[k].attempts \in Nat
    BY <2>1, NotificationsAssumption DEF Deliveries
  <2>. QED
    BY <1>1, <1>2, <2>2, NotificationsAssumption DEF Session, Grows
<1>3. ASSUME NEW k \in Keys, w[k] # NoRow
      PROVE  Honest(w[k], tries'[k])
  <2>1. w[k] \in Deliveries /\ Honest(w[k], tries[k])
    BY <1>3 DEF Session, Entered
  <2>. QED
    BY <1>1, <2>1, HonestStays
<1>4. \A k \in a : k \in ToSet(t) \/ rows'[k] # NoRow \/ w[k] # NoRow
  BY DEF Session, Grows, Keys
<1>. QED
  BY <1>2, <1>3, <1>4 DEF Session

LEMMA StepKeepsSessions ==
  ASSUME IInv, Grows, NEW s \in Sessions, NEW p, NEW t, NEW c, NEW w, NEW a,
         MovesTo(s, p, t, c, w, a), Session(p, t, c, w, a, rows', tries')
  PROVE  SessionsInv'
<1>1. /\ pc' = [pc EXCEPT ![s] = p] /\ todo' = [todo EXCEPT ![s] = t]
      /\ copy' = [copy EXCEPT ![s] = c] /\ wrote' = [wrote EXCEPT ![s] = w]
      /\ asked' = [asked EXCEPT ![s] = a]
  BY DEF MovesTo
<1>2. /\ DOMAIN pc = Sessions /\ DOMAIN todo = Sessions /\ DOMAIN copy = Sessions
      /\ DOMAIN wrote = Sessions /\ DOMAIN asked = Sessions
  BY DEF IInv, TypeOK
<1>3. ASSUME NEW d \in Sessions
      PROVE  Session(pc'[d], todo'[d], copy'[d], wrote'[d], asked'[d], rows', tries')
  <2>1. CASE d = s
    BY <1>1, <1>2, <2>1
  <2>2. CASE d # s
    <3>1. /\ pc'[d] = pc[d] /\ todo'[d] = todo[d] /\ copy'[d] = copy[d]
          /\ wrote'[d] = wrote[d] /\ asked'[d] = asked[d]
      BY <1>1, <1>2, <2>2
    <3>2. Session(pc[d], todo[d], copy[d], wrote[d], asked[d], rows, tries)
      BY DEF IInv, SessionsInv
    <3>. QED
      BY <3>1, <3>2, SessionStays
  <2>. QED
    BY <2>1, <2>2
<1>. QED
  BY <1>3 DEF SessionsInv

LEMMA StepPreserves ==
  ASSUME IInv, Grows, NEW s \in Sessions, NEW p, NEW t, NEW c, NEW w, NEW a,
         MovesTo(s, p, t, c, w, a), Session(p, t, c, w, a, rows', tries'),
         RowsInv', NotifiedInv', notified' \subseteq Requests
  PROVE  IInv'
<1>1. SessionsInv'
  BY StepKeepsSessions
<1>2. p \in Steps /\ t \in Seq(Keys) /\ c \in Entered /\ w \in Entered /\ a \in SUBSET Requests
  BY DEF Session
<1>3. TypeOK'
  BY <1>2 DEF IInv, TypeOK, MovesTo, Grows, Steps, Working, Entered
<1>. QED
  BY <1>1, <1>3 DEF IInv

\* Most steps leave the rows and the sink alone.
Quiet == UNCHANGED <<rows, tries, notified>>

LEMMA QuietPreserves ==
  ASSUME IInv, Quiet, NEW s \in Sessions, NEW p, NEW t, NEW c, NEW w, NEW a,
         MovesTo(s, p, t, c, w, a), Session(p, t, c, w, a, rows, tries)
  PROVE  IInv'
<1>1. Grows
  BY DEF Quiet, Grows, IInv, TypeOK, Entered
<1>2. Session(p, t, c, w, a, rows', tries')
  BY DEF Quiet
<1>3. RowsInv' /\ NotifiedInv' /\ notified' \subseteq Requests
  BY DEF Quiet, IInv, RowsInv, NotifiedInv, TypeOK
<1>. QED
  BY <1>1, <1>2, <1>3, StepPreserves

-----------------------------------------------------------------------------
(* The actions.                                                            *)

LEMMA InitHolds == Init => IInv
<1>. SUFFICES ASSUME Init PROVE IInv
  OBVIOUS
<1>1. Nothing \in Entered /\ \A k \in Keys : Nothing[k] = NoRow
  BY DEF Nothing, Entered
<1>2. TypeOK
  BY <1>1, NotificationsAssumption DEF Init, TypeOK, Entered, Keys
<1>3. RowsInv /\ NotifiedInv
  BY <1>1 DEF Init, RowsInv, NotifiedInv
<1>4. Session("idle", <<>>, Nothing, Nothing, {}, rows, tries)
  BY <1>1 DEF Session, Steps, Working
<1>5. SessionsInv
  BY <1>4 DEF Init, SessionsInv
<1>. QED
  BY <1>2, <1>3, <1>5 DEF IInv

\* What there is to know of a session that takes a step.
LEMMA SessionOf ==
  ASSUME IInv, NEW s \in Sessions
  PROVE  /\ Session(pc[s], todo[s], copy[s], wrote[s], asked[s], rows, tries)
         /\ rows \in Entered /\ tries \in [Keys -> 0 .. MaxAttempts]
         /\ pc = [pc EXCEPT ![s] = pc[s]] /\ todo = [todo EXCEPT ![s] = todo[s]]
         /\ copy = [copy EXCEPT ![s] = copy[s]] /\ wrote = [wrote EXCEPT ![s] = wrote[s]]
         /\ asked = [asked EXCEPT ![s] = asked[s]]
BY DEF IInv, SessionsInv, TypeOK, Entered

LEMMA RollbackPreserves ==
  ASSUME IInv, NEW s \in Sessions, Rollback(s)
  PROVE  IInv'
<1>1. Nothing \in Entered /\ \A k \in Keys : Nothing[k] = NoRow
  BY DEF Nothing, Entered
<1>2. Session("idle", <<>>, Nothing, Nothing, {}, rows, tries)
  BY <1>1 DEF Session, Steps, Working
<1>3. MovesTo(s, "idle", <<>>, Nothing, Nothing, {}) /\ Quiet
  BY DEF Rollback, Return, MovesTo, Quiet
<1>. QED
  BY <1>2, <1>3, QuietPreserves

\* Where a session goes on to.
Onto(rest, step) == IF rest = <<>> THEN "commit" ELSE step

LEMMA BeginPreserves ==
  ASSUME IInv, NEW s \in Sessions, NEW keys, NEW approvers, NEW step, NEW read,
         Begin(s, keys, approvers, step, read),
         Session(step, keys, read, Nothing, approvers, rows, tries)
  PROVE  IInv'
<1>1. wrote[s] = Nothing
  BY SessionOf DEF Begin, Session
<1>2. MovesTo(s, step, keys, read, Nothing, approvers)
  BY <1>1, SessionOf DEF Begin, Onward, MovesTo
<1>3. Quiet
  BY DEF Begin, Quiet
<1>. QED
  BY <1>2, <1>3, QuietPreserves

LEMMA BeginRequestPreserves ==
  ASSUME IInv, NEW s \in Sessions, NEW approvers \in SUBSET Requests, BeginRequest(s, approvers)
  PROVE  IInv'
<1>1. PICK keys \in SetToSeqs(approvers) : Begin(s, keys, approvers, "look", Nothing)
  BY DEF BeginRequest, InOrder
<1>2. keys \in Seq(Keys) /\ ToSet(keys) = approvers
  BY EachOnce DEF Keys
<1>3. Nothing \in Entered /\ \A k \in Keys : Nothing[k] = NoRow
  BY DEF Nothing, Entered
<1>4. Session("look", keys, Nothing, Nothing, approvers, rows, tries)
  BY <1>1, <1>2, <1>3 DEF Session, Steps, Working, Begin
<1>. QED
  BY <1>1, <1>4, BeginPreserves

LEMMA BeginRetryPreserves ==
  ASSUME IInv, NEW s \in Sessions, BeginRetry(s)
  PROVE  IInv'
<1>. DEFINE read == [k \in Keys |-> IF k \in Pending THEN rows[k] ELSE NoRow]
<1>1. PICK keys \in SetToSeqs(Pending) : Begin(s, keys, {}, "resend", read)
  BY DEF BeginRetry, InOrder
<1>2. /\ keys \in Seq(Keys) /\ \A i \in 1 .. Len(keys) : keys[i] \in Pending
      /\ \A i, j \in 1 .. Len(keys) : i # j => keys[i] # keys[j]
  <2>1. Pending \in SUBSET Keys
    BY DEF Pending
  <2>. QED
    BY <2>1, EachOnce
<1>3. Nothing \in Entered /\ \A k \in Keys : Nothing[k] = NoRow
  BY DEF Nothing, Entered
<1>4. read \in Entered /\ \A k \in Keys : read[k] # NoRow => read[k] = rows[k]
  BY SessionOf DEF Entered
<1>5. \A k \in Pending : k \in Keys /\ read[k] # NoRow
  BY DEF Pending
<1>6. \A k \in Keys : rows[k] # NoRow => rows[k].attempts <= tries[k]
  BY DEF IInv, RowsInv, Honest
<1>. HIDE DEF read
<1>7. Session("resend", keys, read, Nothing, {}, rows, tries)
  BY <1>1, <1>2, <1>3, <1>4, <1>5, <1>6 DEF Session, Steps, Working, Begin
<1>. QED
  BY <1>1, <1>7, BeginPreserves

LEMMA BeginAlertsPreserves ==
  ASSUME IInv, NEW s \in Sessions, BeginAlerts(s)
  PROVE  IInv'
<1>1. Listed \in Seq(Keys)
  <2>1. alerting \in Seq(Alerts) /\ Len(alerting) \in Nat
    BY DEF IInv, TypeOK
  <2>2. \A n \in 0 .. Len(alerting) : SubSeq(alerting, 1, n) \in Seq(Alerts)
    BY <2>1
  <2>3. Listed \in Seq(Alerts)
    BY <2>1, <2>2, NotificationsAssumption DEF Listed
  <2>. QED
    BY <2>3 DEF Keys
<1>2. Nothing \in Entered /\ \A k \in Keys : Nothing[k] = NoRow
  BY DEF Nothing, Entered
<1>3. Session("look", Listed, Nothing, Nothing, {}, rows, tries)
  BY <1>1, <1>2 DEF Session, Steps, Working, Begin, BeginAlerts
<1>. QED
  BY <1>3, BeginPreserves DEF BeginAlerts

LEMMA LookUpPreserves ==
  ASSUME IInv, NEW s \in Sessions, LookUp(s)
  PROVE  IInv'
<1>. DEFINE t == todo[s]
            k == Head(t)
            done == rows[k] # NoRow /\ rows[k].status = "delivered"
<1>0. /\ Session("look", t, copy[s], wrote[s], asked[s], rows, tries)
      /\ pc[s] = "look" /\ rows \in Entered
  BY SessionOf DEF LookUp
<1>1. t \in Seq(Keys) /\ t # <<>>
  BY <1>0 DEF Session, Working
<1>2. k \in Keys /\ Tail(t) \in Seq(Keys) /\ ToSet(t) \subseteq {k} \union ToSet(Tail(t))
  BY <1>1, HeadAndTail
<1>3. Quiet
  BY DEF LookUp, Quiet
<1>4. CASE done
  <2>1. MovesTo(s, Onto(Tail(t), "look"), Tail(t), copy[s], wrote[s], asked[s])
    BY <1>4, SessionOf DEF LookUp, Onward, Onto, MovesTo
  <2>2. Session(Onto(Tail(t), "look"), Tail(t), copy[s], wrote[s], asked[s], rows, tries)
    BY <1>0, <1>2, <1>4 DEF Session, Onto, Steps, Working
  <2>. QED
    BY <1>3, <2>1, <2>2, QuietPreserves
<1>5. CASE ~done
  <2>. DEFINE p == IF rows[k] = NoRow THEN "create" ELSE "send"
              c == [copy[s] EXCEPT ![k] = rows[k]]
  <2>1. MovesTo(s, p, t, c, wrote[s], asked[s])
    <3>1. copy' = [copy EXCEPT ![s] = c]
      BY <1>5, Zenon DEF LookUp
    <3>. QED
      BY <1>5, <3>1, SessionOf DEF LookUp, MovesTo
  <2>2. /\ c \in Entered /\ c[k] = rows[k] /\ \A x \in Keys : x # k => c[x] = copy[s][x]
    BY <1>0, <1>2 DEF Session, Entered
  <2>3. \A x \in Keys : rows[x] # NoRow => rows[x].attempts <= tries[x]
    BY DEF IInv, RowsInv, Honest
  <2>. HIDE DEF c
  <2>4. Session(p, t, c, wrote[s], asked[s], rows, tries)
    BY <1>0, <1>1, <1>2, <2>2, <2>3 DEF Session, Steps, Working
  <2>. QED
    BY <1>3, <2>1, <2>4, QuietPreserves
<1>. QED
  BY <1>4, <1>5

LEMMA CreatePreserves ==
  ASSUME IInv, NEW s \in Sessions, Create(s)
  PROVE  IInv'
<1>. DEFINE t == todo[s]
            k == Head(t)
            c == [copy[s] EXCEPT ![k] = NewDelivery]
            w == [wrote[s] EXCEPT ![k] = NewDelivery]
<1>0. /\ Session("create", t, copy[s], wrote[s], asked[s], rows, tries)
      /\ pc[s] = "create" /\ tries \in [Keys -> 0 .. MaxAttempts]
  BY SessionOf DEF Create
<1>1. t \in Seq(Keys) /\ t # <<>>
  BY <1>0 DEF Session, Working
<1>2. k \in Keys
  BY <1>1, HeadAndTail
<1>3. MovesTo(s, "send", t, c, w, asked[s]) /\ Quiet
  <2>1. copy' = [copy EXCEPT ![s] = c] /\ wrote' = [wrote EXCEPT ![s] = w]
    BY Zenon DEF Create
  <2>. QED
    BY <2>1, SessionOf DEF Create, MovesTo, Quiet
<1>4. NewDelivery \in Deliveries /\ NewDelivery # NoRow /\ NewDelivery.attempts = 0
      /\ NewDelivery.status # "failed"
  BY NotificationsAssumption, NoRowAssumption DEF NewDelivery, Deliveries
<1>5. /\ c \in Entered /\ c[k] = NewDelivery /\ \A x \in Keys : x # k => c[x] = copy[s][x]
      /\ w \in Entered /\ w[k] = NewDelivery /\ \A x \in Keys : x # k => w[x] = wrote[s][x]
  BY <1>0, <1>2, <1>4 DEF Session, Entered
<1>. HIDE DEF c, w
<1>6. Session("send", t, c, w, asked[s], rows, tries)
  <2>1. \A x \in Keys : tries[x] >= 0
    BY <1>0
  <2>2. \A x \in asked[s] : x \in ToSet(t) \/ rows[x] # NoRow \/ w[x] # NoRow
    BY <1>0, <1>4, <1>5 DEF Session, Keys
  <2>. QED
    BY <1>0, <1>1, <1>4, <1>5, <2>1, <2>2 DEF Session, Steps, Working, Honest
<1>. QED
  BY <1>3, <1>6, QuietPreserves

\* One attempt more, never beyond max_attempts.
LEMMA OneMoreCounts ==
  ASSUME NEW m \in 0 .. MaxAttempts, NEW n \in 0 .. MaxAttempts, m <= n
  PROVE  /\ OneMore(m) \in 0 .. MaxAttempts /\ OneMore(n) \in 0 .. MaxAttempts
         /\ OneMore(m) >= 1 /\ OneMore(m) <= OneMore(n) /\ n <= OneMore(n)
BY NotificationsAssumption DEF OneMore

\* What is recorded of an attempt has been done.
LEMMA RecordedIsHonest ==
  ASSUME IInv, NEW s \in Sessions, pc[s] \in {"send", "resend"}, NEW k \in Keys,
         copy[s][k] # NoRow, NEW delivered \in BOOLEAN
  PROVE  LET d == Recorded(s, k, delivered) IN
         d \in Deliveries /\ d.attempts >= 1 /\ Honest(d, OneMore(tries[k]))
<1>. DEFINE n == OneMore(copy[s][k].attempts)
            present == IF wrote[s][k] # NoRow THEN wrote[s][k] ELSE rows[k]
            d == Recorded(s, k, delivered)
<1>1. /\ Session(pc[s], todo[s], copy[s], wrote[s], asked[s], rows, tries)
      /\ rows \in Entered /\ tries[k] \in 0 .. MaxAttempts
  BY SessionOf
<1>2. copy[s][k] \in Deliveries /\ copy[s][k].attempts <= tries[k]
  BY <1>1 DEF Session, Entered
<1>3. copy[s][k].attempts \in 0 .. MaxAttempts
  BY <1>2 DEF Deliveries
<1>4. /\ n \in 0 .. MaxAttempts /\ OneMore(tries[k]) \in 0 .. MaxAttempts
      /\ n >= 1 /\ n <= OneMore(tries[k]) /\ tries[k] <= OneMore(tries[k])
  BY <1>1, <1>2, <1>3, OneMoreCounts
<1>5. present \in Deliveries
  BY <1>1 DEF Session, Entered
<1>6. present.status \in {"pending", "delivered", "failed"}
  BY <1>5 DEF Deliveries
<1>7. present.status = "failed" => tries[k] >= MaxAttempts
  BY <1>1 DEF Session, IInv, RowsInv, Honest
<1>. HIDE DEF n, present
<1>8. d = [attempts |-> n,
           status |-> IF delivered THEN "delivered"
                      ELSE IF pc[s] = "resend" /\ Exhausted(n) THEN "failed"
                      ELSE present.status]
  BY DEF Recorded, n, present
<1>. HIDE DEF d
<1>9. d \in Deliveries /\ d.attempts = n
  BY <1>4, <1>6, <1>8 DEF Deliveries
<1>10. d.status = "failed" => OneMore(tries[k]) >= MaxAttempts
  BY <1>1, <1>4, <1>7, <1>8, NotificationsAssumption DEF Exhausted
<1>11. d.attempts >= 1 /\ Honest(d, OneMore(tries[k]))
  BY <1>4, <1>9, <1>10 DEF Honest
<1>. QED
  BY <1>9, <1>11 DEF d

LEMMA AttemptPreserves ==
  ASSUME IInv, NEW s \in Sessions, Attempt(s)
  PROVE  IInv'
<1>. DEFINE t == todo[s]
            k == Head(t)
            p == Onto(Tail(t), IF pc[s] = "resend" THEN "resend" ELSE "look")
            c == [copy[s] EXCEPT ![k] = NoRow]
<1>0. /\ Session(pc[s], t, copy[s], wrote[s], asked[s], rows, tries)
      /\ pc[s] \in {"send", "resend"}
      /\ rows \in Entered /\ tries \in [Keys -> 0 .. MaxAttempts]
  BY SessionOf DEF Attempt
<1>1. t \in Seq(Keys) /\ t # <<>>
  BY <1>0 DEF Session, Working
<1>2. /\ k \in Keys /\ k = t[1] /\ 1 \in 1 .. Len(t)
      /\ Tail(t) \in Seq(Keys)
      /\ \A i \in 1 .. Len(Tail(t)) : Tail(t)[i] = t[i + 1] /\ i + 1 \in 1 .. Len(t)
      /\ ToSet(t) \subseteq {k} \union ToSet(Tail(t))
  BY <1>1, HeadAndTail
<1>3. copy[s][k] # NoRow
  BY <1>0, <1>2 DEF Session
<1>4. PICK delivered \in BOOLEAN : wrote' = [wrote EXCEPT ![s][k] = Recorded(s, k, delivered)]
  BY DEF Attempt
<1>. DEFINE d == Recorded(s, k, delivered)
            w == [wrote[s] EXCEPT ![k] = d]
<1>5. d \in Deliveries /\ d.attempts >= 1 /\ Honest(d, OneMore(tries[k])) /\ d # NoRow
  BY <1>0, <1>2, <1>3, RecordedIsHonest, NoRowAssumption
<1>6. MovesTo(s, p, Tail(t), c, w, asked[s])
  <2>1. copy' = [copy EXCEPT ![s] = c] /\ wrote' = [wrote EXCEPT ![s] = w]
    BY <1>4, Zenon DEF Attempt
  <2>. QED
    BY <2>1, SessionOf DEF Attempt, Onward, Onto, MovesTo
<1>7. rows' = rows /\ notified' = notified /\ tries' = [tries EXCEPT ![k] = OneMore(tries[k])]
  BY DEF Attempt
<1>8. /\ tries' \in [Keys -> 0 .. MaxAttempts] /\ tries'[k] = OneMore(tries[k])
      /\ \A x \in Keys : x # k => tries'[x] = tries[x]
      /\ \A x \in Keys : tries[x] <= tries'[x]
  <2>1. OneMore(tries[k]) \in 0 .. MaxAttempts /\ tries[k] <= OneMore(tries[k])
    BY <1>0, <1>2, OneMoreCounts
  <2>. QED
    BY <1>0, <1>2, <1>7, <2>1
<1>9. Grows
  BY <1>0, <1>7, <1>8 DEF Grows
<1>10. /\ c \in Entered /\ c[k] = NoRow /\ \A x \in Keys : x # k => c[x] = copy[s][x]
       /\ w \in Entered /\ w[k] = d /\ \A x \in Keys : x # k => w[x] = wrote[s][x]
  BY <1>0, <1>2, <1>5 DEF Session, Entered
<1>. HIDE DEF c, d, w
<1>11. Session(p, Tail(t), c, w, asked[s], rows', tries')
  <2>1. p \in {"commit", "look", "resend"} /\ (p \in Working <=> Tail(t) # <<>>)
        /\ (p = "resend" => pc[s] = "resend")
    BY DEF Onto, Working
  <2>2. p = "resend" => /\ \A i, j \in 1 .. Len(Tail(t)) : i # j => Tail(t)[i] # Tail(t)[j]
                        /\ \A i \in 1 .. Len(Tail(t)) : c[Tail(t)[i]] # NoRow
    <3>. SUFFICES ASSUME pc[s] = "resend"
                  PROVE  /\ \A i, j \in 1 .. Len(Tail(t)) : i # j => Tail(t)[i] # Tail(t)[j]
                         /\ \A i \in 1 .. Len(Tail(t)) : c[Tail(t)[i]] # NoRow
      BY <2>1
    <3>1. /\ \A i, j \in 1 .. Len(t) : i # j => t[i] # t[j]
          /\ \A i \in 1 .. Len(t) : copy[s][t[i]] # NoRow /\ t[i] \in Keys
      BY <1>0, <1>1, ElementOfSeq DEF Session
    <3>2. \A i \in 1 .. Len(Tail(t)) : t[i + 1] # k
      BY <1>2, <3>1
    <3>3. \A i, j \in 1 .. Len(Tail(t)) : i # j => i + 1 # j + 1
      OBVIOUS
    <3>. QED
      BY <1>2, <1>10, <3>1, <3>2, <3>3
  <2>3. ASSUME NEW x \in Keys, c[x] # NoRow
        PROVE  (rows[x] # NoRow \/ w[x] # NoRow) /\ c[x].attempts <= tries'[x]
    BY <1>0, <1>8, <1>10, <2>3 DEF Session
  <2>4. ASSUME NEW x \in Keys, w[x] # NoRow
        PROVE  Honest(w[x], tries'[x]) /\ w[x].attempts >= 1
    BY <1>0, <1>5, <1>8, <1>10, <2>4 DEF Session
  <2>5. ASSUME NEW x \in asked[s]
        PROVE  x \in ToSet(Tail(t)) \/ rows[x] # NoRow \/ w[x] # NoRow
    <3>1. x \in Keys /\ (x \in ToSet(t) \/ rows[x] # NoRow \/ wrote[s][x] # NoRow)
      BY <1>0 DEF Session, Keys
    <3>. QED
      BY <1>2, <1>5, <1>10, <3>1
  <2>. HIDE DEF p
  <2>. QED
    BY <1>0, <1>2, <1>7, <1>10, <2>1, <2>2, <2>3, <2>4, <2>5 DEF Session, Steps, Working
<1>12. RowsInv'
  <2>1. ASSUME NEW x \in Keys, rows[x] # NoRow
        PROVE  rows[x].attempts >= 1 /\ Honest(rows[x], tries'[x])
    <3>1. rows[x] \in Deliveries /\ rows[x].attempts >= 1 /\ Honest(rows[x], tries[x])
      BY <1>0, <2>1 DEF IInv, RowsInv, Entered
    <3>. QED
      BY <1>0, <1>8, <3>1, HonestStays
  <2>. QED
    BY <1>7, <2>1 DEF RowsInv
<1>13. NotifiedInv' /\ notified' \subseteq Requests
  BY <1>7 DEF IInv, NotifiedInv, TypeOK
<1>. QED
  BY <1>6, <1>9, <1>11, <1>12, <1>13, StepPreserves

\* What is committed has been attempted; whoever was asked for has a row.
LEMMA CommitPreserves ==
  ASSUME IInv, NEW s \in Sessions, Commit(s)
  PROVE  IInv'
<1>0. /\ Session("commit", todo[s], copy[s], wrote[s], asked[s], rows, tries)
      /\ rows \in Entered /\ tries \in [Keys -> 0 .. MaxAttempts]
  BY SessionOf DEF Commit
<1>1. rows' = [k \in Keys |-> IF wrote[s][k] # NoRow THEN wrote[s][k] ELSE rows[k]]
  BY DEF Commit
<1>2. tries' = tries /\ notified' = notified \union asked[s]
  BY DEF Commit
<1>3. Grows
  BY <1>0, <1>1, <1>2 DEF Grows, Session, Entered
<1>4. Nothing \in Entered /\ \A k \in Keys : Nothing[k] = NoRow
  BY DEF Nothing, Entered
<1>5. Session("idle", <<>>, Nothing, Nothing, {}, rows', tries')
  BY <1>4 DEF Session, Steps, Working
<1>6. MovesTo(s, "idle", <<>>, Nothing, Nothing, {})
  BY DEF Commit, Return, MovesTo
<1>7. RowsInv'
  <2>1. ASSUME NEW k \in Keys, rows'[k] # NoRow
        PROVE  rows'[k].attempts >= 1 /\ Honest(rows'[k], tries[k])
    <3>1. CASE wrote[s][k] # NoRow
      BY <1>0, <1>1, <3>1 DEF Session
    <3>2. CASE wrote[s][k] = NoRow
      BY <1>1, <2>1, <3>2 DEF IInv, RowsInv
    <3>. QED
      BY <3>1, <3>2
  <2>. QED
    BY <1>2, <2>1 DEF RowsInv
<1>8. NotifiedInv' /\ notified' \subseteq Requests
  <2>1. todo[s] = <<>>
    BY <1>0 DEF Session, Working
  <2>2. ToSet(todo[s]) = {}
    BY <2>1 DEF ToSet
  <2>3. \A k \in asked[s] : k \in Requests /\ (rows[k] # NoRow \/ wrote[s][k] # NoRow)
    BY <1>0, <2>2 DEF Session
  <2>4. \A k \in notified : k \in Requests /\ rows[k] # NoRow
    BY DEF IInv, TypeOK, NotifiedInv
  <2>5. \A k \in Requests : rows'[k] = IF wrote[s][k] # NoRow THEN wrote[s][k] ELSE rows[k]
    BY <1>1 DEF Keys
  <2>. QED
    BY <1>2, <2>3, <2>4, <2>5 DEF NotifiedInv
<1>. QED
  BY <1>3, <1>5, <1>6, <1>7, <1>8, StepPreserves

\* Outside the sessions only the list of unknown operations grows.
LEMMA OutsidePreserves ==
  ASSUME IInv, (\E k \in Alerts : BecomesUnknown(k)) \/ UNCHANGED vars
  PROVE  IInv'
<1>1. alerting' \in Seq(Alerts)
  <2>1. alerting' = alerting \/ \E k \in Alerts : alerting' = Append(alerting, k)
    BY Zenon DEF BecomesUnknown, vars
  <2>2. alerting \in Seq(Alerts)
    BY DEF IInv, TypeOK
  <2>. QED
    BY <2>1, <2>2
<1>2. UNCHANGED <<rows, tries, notified, sessionVars>>
  BY DEF BecomesUnknown, vars
<1>. QED
  BY <1>1, <1>2 DEF sessionVars, IInv, TypeOK, RowsInv, SessionsInv, NotifiedInv

-----------------------------------------------------------------------------
(* The theorems.                                                           *)

\* IInv, which includes the types of all variables, holds throughout.
THEOREM Invariance == Spec => []IInv
<1>1. Init => IInv
  BY InitHolds
<1>2. IInv /\ [Next]_vars => IInv'
  <2>. SUFFICES ASSUME IInv, [Next]_vars PROVE IInv'
    OBVIOUS
  <2>1. ASSUME NEW s \in Sessions, Start(s) PROVE IInv'
    BY <2>1, BeginRequestPreserves, BeginRetryPreserves, BeginAlertsPreserves DEF Start
  <2>2. ASSUME NEW s \in Sessions, Proceed(s) PROVE IInv'
    BY <2>2, LookUpPreserves, CreatePreserves, RollbackPreserves, AttemptPreserves, CommitPreserves
    DEF Proceed, LoseCreate
  <2>3. ASSUME NEW s \in Sessions, Deadlock(s) \/ Crash(s) PROVE IInv'
    BY <2>3, RollbackPreserves DEF Deadlock, Crash
  <2>. QED
    BY <2>1, <2>2, <2>3, OutsidePreserves DEF Next
<1>. QED
  BY <1>1, <1>2, PTL DEF Spec

\* The variables have their types (notification_deliveries has a status and a count).
THEOREM TypeCorrect == Spec => []TypeOK
<1>1. IInv => TypeOK
  BY DEF IInv
<1>. QED
  BY <1>1, Invariance, PTL

\* A row claims no attempt that was not made, and is given up only after max_attempts
\* of them (record_attempt, mark_failed), however sweeps overlap and roll back.
THEOREM GivenUpOnlyAfterTrying == Spec => []GivenUpAfterTrying
<1>1. IInv => GivenUpAfterTrying
  BY DEF IInv, RowsInv, Honest, GivenUpAfterTrying
<1>. QED
  BY <1>1, Invariance, PTL

\* An approver who is reported as notified has a delivery on record that was tried
\* (_deliver_with_dedup in request_approval).
THEOREM NotifiedAreRecorded == Spec => []NotifiedIsRecorded
<1>1. IInv => NotifiedIsRecorded
  BY DEF IInv, TypeOK, Keys, RowsInv, NotifiedInv, NotifiedIsRecorded
<1>. QED
  BY <1>1, Invariance, PTL
=============================================================================
