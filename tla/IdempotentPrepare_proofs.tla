----------------------- MODULE IdempotentPrepare_proofs -----------------------
(***************************************************************************)
(* Theorems about IdempotentPrepare, for every number of callers, of keys  *)
(* and of operations, on both databases.                                   *)
(*                                                                         *)
(* The argument is the unique constraint.  Every uncommitted row is the    *)
(* one its own call inserted, so an INSERT that finds its key neither      *)
(* committed nor pending is the only one, and a committed row never loses  *)
(* its key, its arguments or its parent again.                             *)
(***************************************************************************)
EXTENDS IdempotentPrepare, FiniteSetTheorems, TLAPS

-----------------------------------------------------------------------------
(* The inductive invariant.                                                *)

\* A call that has inserted is in its preflight, and the row is as it was asked.
InsertedIsMine(c) ==
  /\ pc[c] = "preflight" <=> mine[c] # NoParent
  /\ mine[c] # NoParent =>
       /\ state[mine[c]] = "PREPARING"
       /\ namespace[mine[c]] = Namespace(c)
       /\ arguments[mine[c]] = ask[c].arguments
       /\ parent[mine[c]] = ask[c].parent

\* What a call has expired waits for its commit.
ExpiredIsOverdue(c) ==
  /\ expired[c] \subseteq overdue
  /\ expired[c] # {} => pc[c] \in {"limit", "lookup", "insert", "preflight"}

CallInv(c) ==
  /\ pc[c] # "idle" => ask[c] \in Asks
  /\ InsertedIsMine(c)
  /\ ExpiredIsOverdue(c)

CallsInv == \A c \in Callers : CallInv(c)

\* No two calls write one row.
Apart ==
  \A c, d \in Callers : c # d =>
    /\ mine[c] # NoParent => mine[c] # mine[d]
    /\ expired[c] \intersect expired[d] = {}

PreparingIsMine == \A o \in Operations : state[o] = "PREPARING" => \E c \in Callers : mine[c] = o

\* An operation has arguments, and what is no operation has no key.
RowsAreWhole ==
  \A o \in Operations :
    IF state[o] = NoState THEN namespace[o] = None ELSE arguments[o] \in Arguments

\* The unique constraint, over the uncommitted rows too.
UniqueKeys ==
  \A o, p \in Operations : namespace[o] = namespace[p] /\ namespace[o] # None => o = p

OverdueIsOpen == \A o \in overdue : state[o] \in {"PENDING_APPROVAL", "APPROVED"}

RowsInv == Apart /\ PreparingIsMine /\ RowsAreWhole /\ UniqueKeys /\ OverdueIsOpen

IInv == TypeOK /\ CallsInv /\ RowsInv

-----------------------------------------------------------------------------
(* Facts about the table and the parts actions are built from.             *)

\* The states a committed operation can be in.
Settled == States \ {"PREPARING"}

LEMMA TransitionTable ==
  /\ \A t \in TransitionIds \ {"T01"} : TRANSITIONS[t].to \in Settled
  /\ \A t \in {"T02", "T03", "T04", "T05"} : t \in TransitionIds
  /\ TRANSITIONS["T01"].from = NoState
BY DEF TransitionIds, TRANSITIONS, Edge, Settled, States, NoState

\* The stored key of a call is in its namespace.
LEMMA NamespaceIsTyped ==
  ASSUME NEW c \in Callers, ask[c] \in Asks
  PROVE  Namespace(c) \in Namespaces \union {None}
BY DEF Namespace, Asks, Namespaces

\* The answer of a call, if it has one, is its key, its arguments and an operation.
LEMMA AnswerIsTyped ==
  ASSUME NEW c \in Callers, ask[c] \in Asks, NEW o \in Operations
  PROVE  Answer(c, o) \in (Namespaces \X Arguments \X Operations) \union {None}
BY NamespaceIsTyped DEF Answer, Asks

\* A set of natural numbers with a bound has a greatest member.
LEMMA GreatestMember ==
  ASSUME NEW m \in Nat, NEW S \in SUBSET (0 .. m), S # {}
  PROVE  Max(S) \in S /\ \A x \in S : x <= Max(S)
<1>. DEFINE R == OpToRel(<, Nat)
            T == {b \in Nat : \A x \in S : x <= b}
<1>1. IsWellFoundedOn(R, Nat)
  BY NatLessThanWellFounded
<1>2. T \subseteq Nat /\ m \in T
  OBVIOUS
<1>3. PICK b \in T : \A y \in T : ~(<<y, b>> \in R)
  BY <1>1, <1>2, WFMin
<1>4. \A y \in T : ~(y < b)
  BY <1>2, <1>3 DEF OpToRel
<1>5. b \in S
  <2>. SUFFICES ASSUME b \notin S PROVE FALSE
    OBVIOUS
  <2>1. PICK x \in S : TRUE
    OBVIOUS
  <2>2. x < b /\ b - 1 \in Nat
    BY <2>1
  <2>3. b - 1 \in T
    BY <2>2
  <2>. QED
    BY <1>4, <2>2, <2>3
<1>6. b \in S /\ \A x \in S : b >= x
  BY <1>5
<1>. QED
  BY <1>6 DEF Max

\* A new handle is younger than every operation there is.
LEMMA HandleIsFresh ==
  ASSUME TypeOK
  PROVE  /\ Handle \in Nat \ {0}
         /\ \A q \in Operations : state[q] # NoState => q < Handle
<1>. DEFINE S == {NoParent} \union {o \in Operations : state[o] # NoState}
<1>1. S \in SUBSET (0 .. MaxOperations) /\ S # {}
  BY PrepareAssumption DEF Operations, NoParent
<1>2. Max(S) \in S /\ \A x \in S : x <= Max(S)
  BY <1>1, GreatestMember, PrepareAssumption
<1>3. Handle = 1 + Max(S)
  BY Zenon DEF Handle
<1>4. \A q \in Operations : state[q] # NoState => q \in S
  OBVIOUS
<1>5. PICK m \in 0 .. MaxOperations : Handle = 1 + m /\ \A x \in S : x <= m
  BY <1>1, <1>2, <1>3
<1>. HIDE DEF S
<1>. QED
  BY <1>4, <1>5, PrepareAssumption DEF Operations

-----------------------------------------------------------------------------
(* The shape of the steps that move committed operations.                  *)

SameRegisters(c) == UNCHANGED <<pc[c], ask[c], mine[c], expired[c]>>

Returned(c) == pc'[c] = "idle" /\ mine'[c] = NoParent /\ expired'[c] = {}

\* A call that another call's step does not touch.
Untouched(c) ==
  /\ SameRegisters(c)
  /\ mine[c] # NoParent => /\ state'[mine[c]] = state[mine[c]]
                           /\ namespace'[mine[c]] = namespace[mine[c]]
                           /\ arguments'[mine[c]] = arguments[mine[c]]
                           /\ parent'[mine[c]] = parent[mine[c]]
  /\ expired[c] \subseteq overdue'

LEMMA UntouchedKeeps ==
  ASSUME NEW c \in Callers, CallInv(c), Untouched(c)
  PROVE  CallInv(c)'
<1>1. Namespace(c)' = Namespace(c)
  BY DEF Untouched, SameRegisters, Namespace
<1>. QED
  BY <1>1 DEF CallInv, InsertedIsMine, ExpiredIsOverdue, Untouched, SameRegisters

LEMMA ReturnedKeeps ==
  ASSUME NEW c \in Callers, Returned(c)
  PROVE  CallInv(c)'
BY DEF CallInv, InsertedIsMine, ExpiredIsOverdue, Returned

\* Committed operations move, and the calls in `gone` return.
Settling(gone) ==
  /\ UNCHANGED <<namespace, arguments, parent, overtaken>>
  /\ \A o \in Operations : state'[o] = state[o] \/ (state[o] # NoState /\ state'[o] \in Settled)
  /\ \A o \in overdue' : o \in overdue /\ state'[o] = state[o]
  /\ \A c \in gone : Returned(c) /\ (mine[c] # NoParent => state'[mine[c]] # "PREPARING")
  /\ \A c \in Callers \ gone : Untouched(c)

LEMMA MovesKeep ==
  ASSUME IInv, NEW gone \in SUBSET Callers, Settling(gone)
  PROVE  CallsInv' /\ RowsInv'
<1>1. \A c \in gone : Returned(c) /\ (mine[c] # NoParent => state'[mine[c]] # "PREPARING")
  BY DEF Settling
<1>2. \A c \in Callers \ gone : Untouched(c)
  BY DEF Settling
<1>3. CallsInv'
  BY <1>1, <1>2, UntouchedKeeps, ReturnedKeeps DEF IInv, CallsInv
<1>4. \A c \in Callers : mine'[c] \in {mine[c], NoParent} /\ expired'[c] \subseteq expired[c]
  BY <1>1, <1>2 DEF Returned, Untouched, SameRegisters
<1>5. Apart'
  BY <1>4 DEF IInv, RowsInv, Apart
<1>6. PreparingIsMine'
  <2>. SUFFICES ASSUME NEW o \in Operations, state'[o] = "PREPARING"
                PROVE  \E c \in Callers : mine'[c] = o
    BY DEF PreparingIsMine
  <2>1. state[o] = "PREPARING"
    BY DEF Settling, Settled
  <2>2. PICK c \in Callers : mine[c] = o
    BY <2>1 DEF IInv, RowsInv, PreparingIsMine
  <2>3. mine[c] # NoParent
    BY <2>2 DEF Operations, NoParent
  <2>4. c \notin gone
    BY <1>1, <2>2, <2>3
  <2>. QED
    BY <1>2, <2>2, <2>4 DEF Untouched, SameRegisters
<1>7. RowsAreWhole' /\ UniqueKeys'
  BY DEF IInv, RowsInv, RowsAreWhole, UniqueKeys, Settling, Settled, States, NoState
<1>8. OverdueIsOpen'
  BY DEF IInv, RowsInv, OverdueIsOpen, Settling
<1>. QED
  BY <1>3, <1>5, <1>6, <1>7, <1>8 DEF RowsInv

\* What Return does to the registers.
LEMMA ReturnRegisters ==
  ASSUME TypeOK, NEW c \in Callers, Return(c)
  PROVE  Returned(c) /\ \A d \in Callers \ {c} : SameRegisters(d)
BY DEF TypeOK, Return, Returned, SameRegisters

\* A call that returns after it has settled `ops`, none of them another's.
LEMMA SettlingReturn ==
  ASSUME IInv, NEW c \in Callers, Return(c), NEW ops \in SUBSET Committed,
         state' = Expired(ops), overdue' = overdue \ ops,
         UNCHANGED <<namespace, arguments, parent, overtaken>>, mine[c] = NoParent,
         \A d \in Callers \ {c} : expired[d] \intersect ops = {}
  PROVE  Settling({c})
<1>1. Returned(c) /\ \A d \in Callers \ {c} : SameRegisters(d)
  BY ReturnRegisters DEF IInv
<1>2. \A o \in ops : state[o] # NoState /\ state'[o] \in Settled /\ state[o] # "PREPARING"
  BY DEF Committed, Expired, Settled, States
<1>3. \A o \in Operations \ ops : state'[o] = state[o]
  BY DEF Expired
<1>4. ASSUME NEW d \in Callers \ {c}
      PROVE  Untouched(d)
  <2>1. mine[d] # NoParent => mine[d] \in Operations \ ops
    BY <1>2 DEF IInv, TypeOK, CallsInv, CallInv, InsertedIsMine
  <2>2. expired[d] \subseteq overdue'
    BY DEF IInv, CallsInv, CallInv, ExpiredIsOverdue
  <2>. QED
    BY <1>1, <1>3, <2>1, <2>2 DEF Untouched
<1>5. overdue \subseteq Operations /\ ops \subseteq Operations
  BY DEF IInv, TypeOK, Committed
<1>. QED
  BY <1>1, <1>2, <1>3, <1>4, <1>5 DEF Settling

\* Overdue operations are committed.
LEMMA OverdueIsCommitted ==
  ASSUME IInv
  PROVE  /\ overdue \subseteq Committed
         /\ \A c \in Callers : expired[c] \subseteq Committed
BY DEF IInv, TypeOK, RowsInv, OverdueIsOpen, CallsInv, CallInv, ExpiredIsOverdue, Committed, NoState

LEMMA RefuseSettles ==
  ASSUME IInv, NEW c \in Callers, pc[c] \in {"limit", "lookup"}, Refuse(c)
  PROVE  Settling({c})
<1>1. mine[c] = NoParent
  BY DEF IInv, CallsInv, CallInv, InsertedIsMine
<1>2. \A d \in Callers \ {c} : expired[d] \intersect expired[c] = {}
  BY DEF IInv, RowsInv, Apart
<1>. QED
  BY <1>1, <1>2, OverdueIsCommitted, SettlingReturn DEF Refuse

LEMMA RefuseRetrySettles ==
  ASSUME IInv, NEW c \in Callers, RefuseRetry(c)
  PROVE  Settling({c})
<1>. DEFINE p == ask[c].parent
            ops == Matched(c)
<1>1. mine[c] = NoParent
  BY DEF IInv, CallsInv, CallInv, InsertedIsMine, RefuseRetry
<1>2. \A d \in Callers \ {c} : expired[d] \intersect ops = {}
  BY DEF RefuseRetry, MayMove, Matched
<1>3. state' = Expired(ops) /\ overdue' = overdue \ ops
  BY DEF RefuseRetry
<1>4. Return(c) /\ UNCHANGED <<namespace, arguments, parent, overtaken>>
  BY DEF RefuseRetry
<1>5. ops \in SUBSET Committed
  BY OverdueIsCommitted DEF Matched
<1>. HIDE DEF ops
<1>. QED
  BY <1>1, <1>2, <1>3, <1>4, <1>5, SettlingReturn

LEMMA ReplaySettles ==
  ASSUME IInv, NEW c \in Callers, pc[c] \in {"lookup", "insert"}, NEW o \in Operations,
         NEW kept, kept = {} \/ kept = expired[c], ReplayOf(c, o, kept)
  PROVE  Settling({c})
<1>. DEFINE ops == ({o} \intersect overdue) \union kept
<1>1. mine[c] = NoParent
  BY DEF IInv, CallsInv, CallInv, InsertedIsMine
<1>2. \A d \in Callers \ {c} : expired[d] \intersect ops = {}
  <2>1. \A d \in Callers \ {c} : expired[d] \intersect kept = {}
    BY DEF IInv, RowsInv, Apart
  <2>2. o \in overdue => \A d \in Callers \ {c} : o \notin expired[d]
    BY DEF ReplayOf, MayMove
  <2>. QED
    BY <2>1, <2>2
<1>3. state' = Expired(ops) /\ overdue' = overdue \ ops
  BY DEF ReplayOf
<1>4. Return(c) /\ UNCHANGED <<namespace, arguments, parent, overtaken>>
  BY DEF ReplayOf
<1>5. ops \in SUBSET Committed
  BY OverdueIsCommitted
<1>. HIDE DEF ops
<1>. QED
  BY <1>1, <1>2, <1>3, <1>4, <1>5, SettlingReturn

LEMMA FinishSettles ==
  ASSUME IInv, NEW c \in Callers, Finish(c)
  PROVE  Settling({c})
<1>. DEFINE ops == expired[c]
            o == mine[c]
<1>1. o \in Operations /\ state[o] = "PREPARING"
  BY DEF Finish, IInv, TypeOK, CallsInv, CallInv, InsertedIsMine
<1>2. PICK t \in {"T02", "T03", "T04", "T05"} :
        state' = [Expired(ops) EXCEPT ![o] = TRANSITIONS[t].to]
  BY DEF Finish
<1>3. TRANSITIONS[t].to \in Settled
  BY TransitionTable
<1>4. Returned(c) /\ \A d \in Callers \ {c} : SameRegisters(d)
  BY ReturnRegisters DEF IInv, Finish
<1>5. ops \subseteq Committed /\ o \notin ops
  BY <1>1, OverdueIsCommitted DEF Committed
<1>6. \A q \in Operations : state'[q] = IF q = o THEN TRANSITIONS[t].to
                                        ELSE IF q \in ops THEN "EXPIRED" ELSE state[q]
  BY <1>2 DEF Expired
<1>7. \A q \in ops : state[q] \notin {NoState, "PREPARING"}
  BY <1>5 DEF Committed
<1>8. overdue' = overdue \ ops /\ UNCHANGED <<namespace, arguments, parent, overtaken>>
  BY DEF Finish
<1>9. ASSUME NEW d \in Callers \ {c}
      PROVE  Untouched(d)
  <2>1. mine[d] # NoParent => /\ mine[d] \in Operations /\ mine[d] # o
                              /\ state[mine[d]] = "PREPARING"
    BY DEF IInv, TypeOK, CallsInv, CallInv, InsertedIsMine, RowsInv, Apart
  <2>2. mine[d] # NoParent => state'[mine[d]] = state[mine[d]]
    BY <1>6, <1>7, <2>1
  <2>3. expired[d] \subseteq overdue'
    BY <1>8 DEF IInv, CallsInv, CallInv, ExpiredIsOverdue, RowsInv, Apart
  <2>. QED
    BY <1>4, <1>8, <2>2, <2>3 DEF Untouched
<1>10. \A q \in Operations : state'[q] = state[q] \/ (state[q] # NoState /\ state'[q] \in Settled)
  BY <1>1, <1>3, <1>6, <1>7 DEF Settled, States, NoState
<1>11. \A q \in overdue' : q \in overdue /\ state'[q] = state[q]
  <2>1. o \notin overdue /\ overdue \subseteq Operations
    BY <1>1, OverdueIsCommitted DEF Committed
  <2>. QED
    BY <1>6, <1>8, <2>1
<1>12. state'[o] # "PREPARING"
  BY <1>1, <1>3, <1>6 DEF Settled
<1>. QED
  BY <1>4, <1>8, <1>9, <1>10, <1>11, <1>12 DEF Settling

\* Others move an operation that no call has expired and not committed.
LEMMA OthersSettle ==
  ASSUME IInv, NEW o \in Operations, Settle(o) \/ Expire(o)
  PROVE  Settling({})
<1>1. o \in Committed
  BY OverdueIsCommitted DEF Settle, Expire
<1>2. \E s \in Settled : state' = [state EXCEPT ![o] = s]
  <2>1. CASE Expire(o)
    BY <2>1 DEF Expire, Expired, IInv, TypeOK, Settled, States
  <2>2. CASE Settle(o)
    <3>1. PICK t \in Moves \ {"T08", "T11"} :
            /\ t \in TransitionIds /\ TRANSITIONS[t].from = state[o]
            /\ state' = [state EXCEPT ![o] = TRANSITIONS[t].to]
      BY <2>2 DEF Settle, ValidTransition
    <3>2. t # "T01"
      BY <1>1, <3>1, TransitionTable DEF Committed
    <3>. QED
      BY <3>1, <3>2, TransitionTable
  <2>. QED
    BY <2>1, <2>2
<1>3. /\ overdue' = overdue \ {o} /\ \A c \in Callers : o \notin expired[c]
      /\ UNCHANGED <<namespace, arguments, parent, overtaken, pc, ask, mine, expired>>
  BY DEF Settle, Expire, Others
<1>4. \A q \in Operations : state'[q] = state[q] \/ (state[q] # NoState /\ state'[q] \in Settled)
  BY <1>1, <1>2 DEF IInv, TypeOK, Committed
<1>5. \A q \in Operations \ {o} : state'[q] = state[q]
  BY <1>2 DEF IInv, TypeOK
<1>6. ASSUME NEW c \in Callers
      PROVE  Untouched(c)
  <2>1. mine[c] # NoParent => mine[c] \in Operations \ {o}
    BY <1>1 DEF IInv, TypeOK, CallsInv, CallInv, InsertedIsMine, Committed
  <2>2. expired[c] \subseteq overdue'
    BY <1>3 DEF IInv, CallsInv, CallInv, ExpiredIsOverdue
  <2>. QED
    BY <1>3, <1>5, <2>1, <2>2 DEF Untouched, SameRegisters
<1>7. overdue \subseteq Operations
  BY DEF IInv, TypeOK
<1>. QED
  BY <1>3, <1>4, <1>5, <1>6, <1>7 DEF Settling

-----------------------------------------------------------------------------
(* The other steps.                                                        *)

\* A call that goes on keeps what it has inserted and what it has expired.
LEMMA QuietCallKeeps ==
  ASSUME IInv, NEW c \in Callers, UNCHANGED <<rowVars, overdue>>,
         \A d \in Callers \ {c} : SameRegisters(d),
         mine'[c] = NoParent, mine[c] = NoParent, pc'[c] \notin {"idle", "preflight"},
         ask'[c] \in Asks,
         \/ /\ expired'[c] = expired[c]
            /\ expired[c] # {} => pc'[c] \in {"limit", "lookup", "insert"}
         \/ /\ pc'[c] = "limit" /\ expired'[c] \subseteq overdue
            /\ \A d \in Callers \ {c} : expired[d] \intersect expired'[c] = {}
  PROVE  CallsInv' /\ RowsInv'
<1>1. \A d \in Callers \ {c} : Untouched(d)
  BY DEF rowVars, Untouched, IInv, CallsInv, CallInv, ExpiredIsOverdue
<1>2. \A d \in Callers \ {c} : CallInv(d)'
  BY <1>1, UntouchedKeeps DEF IInv, CallsInv
<1>3. CallInv(c)'
  BY DEF IInv, CallsInv, CallInv, InsertedIsMine, ExpiredIsOverdue
<1>4. \A d \in Callers : mine'[d] = mine[d]
  BY DEF SameRegisters
<1>5. Apart'
  BY <1>4 DEF IInv, RowsInv, Apart, SameRegisters
<1>6. PreparingIsMine' /\ RowsAreWhole' /\ UniqueKeys' /\ OverdueIsOpen'
  BY <1>4 DEF IInv, RowsInv, PreparingIsMine, RowsAreWhole, UniqueKeys, OverdueIsOpen, rowVars
<1>. QED
  BY <1>2, <1>3, <1>5, <1>6 DEF CallsInv, RowsInv

LEMMA BeginKeeps ==
  ASSUME IInv, NEW c \in Callers, NEW p \in Principals, NEW k \in Keys \union {NoKey},
         \/ \E a \in Arguments : BeginPrepare(c, p, k, a)
         \/ \E o \in Operations : BeginRetry(c, p, k, o)
  PROVE  CallsInv' /\ RowsInv'
<1>1. pc[c] = "idle" /\ UNCHANGED <<rowVars, overdue, mine, expired>>
  BY DEF BeginPrepare, BeginRetry
<1>2. mine[c] = NoParent /\ expired[c] = {}
  BY <1>1 DEF IInv, CallsInv, CallInv, InsertedIsMine, ExpiredIsOverdue
<1>3. ask'[c] \in Asks /\ pc'[c] \in {"lookup", "expire", "limit"}
  <2>1. CASE \E a \in Arguments : BeginPrepare(c, p, k, a)
    BY <2>1 DEF BeginPrepare, IInv, TypeOK, Asks
  <2>2. ASSUME NEW o \in Operations, BeginRetry(c, p, k, o)
        PROVE  ask'[c] \in Asks /\ pc'[c] \in {"lookup", "expire", "limit"}
    <3>1. arguments[o] \in Arguments /\ state[o] \in States \union {NoState}
      BY <2>2 DEF BeginRetry, Committed, IInv, TypeOK, RowsInv, RowsAreWhole
    <3>. QED
      BY <2>2, <3>1 DEF BeginRetry, IInv, TypeOK, Asks
  <2>. QED
    BY <2>1, <2>2
<1>4. \A d \in Callers \ {c} : SameRegisters(d)
  BY DEF BeginPrepare, BeginRetry, IInv, TypeOK, SameRegisters
<1>. QED
  BY <1>1, <1>2, <1>3, <1>4, QuietCallKeeps

LEMMA ExpireParentKeeps ==
  ASSUME IInv, NEW c \in Callers, ExpireParent(c)
  PROVE  CallsInv' /\ RowsInv'
<1>1. pc[c] = "expire" /\ UNCHANGED <<rowVars, overdue, mine>>
  BY DEF ExpireParent
<1>2. mine[c] = NoParent /\ ask[c] \in Asks
  BY <1>1 DEF IInv, CallsInv, CallInv, InsertedIsMine
<1>3. pc'[c] = "limit" /\ expired'[c] = Matched(c) /\ ask'[c] \in Asks
  BY <1>2 DEF ExpireParent, IInv, TypeOK, Asks, States
<1>4. \A d \in Callers \ {c} : SameRegisters(d)
  BY DEF ExpireParent, IInv, TypeOK, SameRegisters
<1>5. Matched(c) \subseteq overdue /\ \A d \in Callers \ {c} : expired[d] \intersect Matched(c) = {}
  BY DEF ExpireParent, MayMove, Matched
<1>. QED
  BY <1>1, <1>2, <1>3, <1>4, <1>5, QuietCallKeeps

LEMMA GoOnKeeps ==
  ASSUME IInv, NEW c \in Callers, NEW next \in {"lookup", "insert"},
         pc[c] \in {"limit", "lookup"}, GoOn(c, next), UNCHANGED <<rowVars, overdue>>
  PROVE  CallsInv' /\ RowsInv'
<1>1. mine[c] = NoParent /\ ask[c] \in Asks
  BY DEF IInv, CallsInv, CallInv, InsertedIsMine
<1>2. pc'[c] = next /\ UNCHANGED <<mine, ask, expired>>
  BY DEF GoOn, IInv, TypeOK
<1>3. \A d \in Callers \ {c} : SameRegisters(d)
  BY DEF GoOn, IInv, TypeOK, SameRegisters
<1>. QED
  BY <1>1, <1>2, <1>3, QuietCallKeeps

\* The insert is the only one with its key.
LEMMA InsertKeeps ==
  ASSUME IInv, NEW c \in Callers, Insert(c)
  PROVE  CallsInv' /\ RowsInv'
<1>. DEFINE n == Namespace(c)
<1>1. PICK o \in Operations : o = Handle
  BY DEF Insert
<1>2. state[o] = NoState /\ namespace[o] = None
  <2>1. Handle \in Nat /\ \A q \in Operations : state[q] # NoState => q < Handle
    BY HandleIsFresh DEF IInv
  <2>2. state[o] = NoState
    BY <1>1, <2>1
  <2>. QED
    BY <2>2 DEF IInv, RowsInv, RowsAreWhole
<1>3. /\ pc[c] = "insert" /\ mine[c] = NoParent /\ ask[c] \in Asks
      /\ expired[c] \subseteq overdue
  BY DEF Insert, IInv, CallsInv, CallInv, InsertedIsMine, ExpiredIsOverdue
<1>4. /\ state' = [state EXCEPT ![o] = "PREPARING"]
      /\ namespace' = [namespace EXCEPT ![o] = n]
      /\ arguments' = [arguments EXCEPT ![o] = ask[c].arguments]
      /\ parent' = [parent EXCEPT ![o] = ask[c].parent]
      /\ mine' = [mine EXCEPT ![c] = o]
      /\ pc' = [pc EXCEPT ![c] = "preflight"]
      /\ UNCHANGED <<overdue, ask, expired>>
  BY <1>1 DEF Insert
<1>5. n' = n
  BY <1>4 DEF Namespace
<1>6. n # None => \A q \in Operations : namespace[q] # n
  <2>. SUFFICES ASSUME n # None, NEW q \in Operations, namespace[q] = n PROVE FALSE
    OBVIOUS
  <2>1. q \notin Committed
    BY DEF Insert, KeyIsTaken, FoundByKey
  <2>2. state[q] = "PREPARING"
    BY <2>1 DEF Committed, IInv, RowsInv, RowsAreWhole
  <2>3. PICK d \in Callers : mine[d] = q
    BY <2>2 DEF IInv, RowsInv, PreparingIsMine
  <2>4. d # c /\ mine[d] # NoParent
    BY <1>3, <2>3 DEF Operations, NoParent
  <2>. QED
    BY <2>3, <2>4 DEF Insert, KeyIsPending
<1>. HIDE DEF n
<1>7. /\ state'[o] = "PREPARING" /\ namespace'[o] = n /\ arguments'[o] = ask[c].arguments
      /\ parent'[o] = ask[c].parent
      /\ \A q \in Operations \ {o} : /\ state'[q] = state[q] /\ namespace'[q] = namespace[q]
                                     /\ arguments'[q] = arguments[q] /\ parent'[q] = parent[q]
  BY <1>4 DEF IInv, TypeOK
<1>8. /\ mine'[c] = o /\ pc'[c] = "preflight"
      /\ \A d \in Callers \ {c} : SameRegisters(d)
  BY <1>4 DEF IInv, TypeOK, SameRegisters
<1>9. \A d \in Callers : mine[d] # o
  BY <1>2, <1>1 DEF IInv, CallsInv, CallInv, InsertedIsMine, Operations, NoState, NoParent
<1>10. ASSUME NEW d \in Callers \ {c}
       PROVE  CallInv(d)'
  <2>1. mine[d] # NoParent => mine[d] \in Operations \ {o}
    BY <1>9 DEF IInv, TypeOK
  <2>2. Untouched(d)
    BY <1>4, <1>7, <1>8, <2>1 DEF Untouched, IInv, CallsInv, CallInv, ExpiredIsOverdue
  <2>. QED
    BY <2>2, UntouchedKeeps DEF IInv, CallsInv
<1>11. CallInv(c)'
  <2>1. InsertedIsMine(c)'
    BY <1>1, <1>4, <1>5, <1>7, <1>8 DEF InsertedIsMine, n, Operations, NoParent
  <2>. QED
    BY <1>3, <1>4, <1>8, <2>1 DEF CallInv, ExpiredIsOverdue
<1>12. Apart'
  BY <1>4, <1>8, <1>9 DEF IInv, RowsInv, Apart, SameRegisters
<1>13. PreparingIsMine'
  BY <1>3, <1>7, <1>8 DEF IInv, RowsInv, PreparingIsMine, SameRegisters, Operations, NoParent
<1>14. RowsAreWhole' /\ UniqueKeys'
  BY <1>3, <1>6, <1>7 DEF IInv, RowsInv, RowsAreWhole, UniqueKeys, Asks, NoState
<1>15. OverdueIsOpen'
  BY <1>2, <1>4, <1>7 DEF IInv, TypeOK, RowsInv, OverdueIsOpen, NoState
<1>. QED
  BY <1>10, <1>11, <1>12, <1>13, <1>14, <1>15 DEF CallsInv, RowsInv

\* A call that dies takes only its own row back.
LEMMA AbortKeeps ==
  ASSUME IInv, NEW c \in Callers, Abort(c)
  PROVE  CallsInv' /\ RowsInv'
<1>. DEFINE o == mine[c]
<1>1. Returned(c) /\ (\A d \in Callers \ {c} : SameRegisters(d)) /\ overdue' = overdue
  BY ReturnRegisters DEF Abort, IInv
<1>2. /\ o \in Operations => state[o] = "PREPARING" /\ state'[o] = NoState /\ namespace'[o] = None
      /\ \A q \in Operations \ {o} : /\ state'[q] = state[q] /\ namespace'[q] = namespace[q]
                                     /\ arguments'[q] = arguments[q] /\ parent'[q] = parent[q]
  BY DEF Abort, IInv, CallsInv, CallInv, InsertedIsMine, Operations, NoParent
<1>3. \A d \in Callers \ {c} : mine[d] # NoParent => mine[d] \in Operations \ {o}
  BY DEF IInv, TypeOK, RowsInv, Apart
<1>. HIDE DEF o
<1>4. ASSUME NEW d \in Callers \ {c}
      PROVE  CallInv(d)'
  <2>1. Untouched(d)
    BY <1>1, <1>2, <1>3 DEF Untouched, IInv, CallsInv, CallInv, ExpiredIsOverdue
  <2>. QED
    BY <2>1, UntouchedKeeps DEF IInv, CallsInv
<1>5. CallInv(c)'
  BY <1>1, ReturnedKeeps
<1>6. Apart'
  BY <1>1 DEF IInv, RowsInv, Apart, Returned, SameRegisters
<1>7. PreparingIsMine'
  <2>. SUFFICES ASSUME NEW q \in Operations, state'[q] = "PREPARING"
                PROVE  \E d \in Callers : mine'[d] = q
    BY DEF PreparingIsMine
  <2>1. q # o /\ state[q] = "PREPARING"
    BY <1>2 DEF NoState
  <2>2. PICK d \in Callers : mine[d] = q
    BY <2>1 DEF IInv, RowsInv, PreparingIsMine
  <2>. QED
    BY <1>1, <2>1, <2>2 DEF SameRegisters, o
<1>8. RowsAreWhole' /\ UniqueKeys'
  BY <1>2 DEF IInv, RowsInv, RowsAreWhole, UniqueKeys
<1>9. OverdueIsOpen'
  BY <1>1, <1>2 DEF IInv, TypeOK, RowsInv, OverdueIsOpen
<1>. QED
  BY <1>4, <1>5, <1>6, <1>7, <1>8, <1>9 DEF CallsInv, RowsInv

LEMMA DeadlinePassesKeeps ==
  ASSUME IInv, NEW o \in Operations, DeadlinePasses(o)
  PROVE  CallsInv' /\ RowsInv'
<1>1. /\ UNCHANGED <<rowVars, pc, ask, mine, expired>> /\ overdue' = overdue \union {o}
      /\ state[o] \in {"PENDING_APPROVAL", "APPROVED"}
  BY DEF DeadlinePasses
<1>2. \A c \in Callers : Untouched(c)
  BY <1>1 DEF rowVars, Untouched, SameRegisters, IInv, CallsInv, CallInv, ExpiredIsOverdue
<1>3. CallsInv'
  BY <1>2, UntouchedKeeps DEF IInv, CallsInv
<1>4. RowsInv'
  BY <1>1 DEF IInv, RowsInv, rowVars, Apart, PreparingIsMine, RowsAreWhole, UniqueKeys,
              OverdueIsOpen
<1>. QED
  BY <1>3, <1>4

-----------------------------------------------------------------------------
(* The invariant.                                                          *)

LEMMA LookUpKeeps ==
  ASSUME IInv, NEW c \in Callers, LookUp(c) \/ LoseInsert(c) \/ CheckLimit(c)
  PROVE  CallsInv' /\ RowsInv'
<1>1. CASE CheckLimit(c)
  BY <1>1, RefuseSettles, GoOnKeeps, MovesKeep DEF CheckLimit
<1>2. CASE LookUp(c)
  <2>1. ASSUME NEW o \in FoundByKey(c), ReplayOf(c, o, expired[c])
        PROVE  Settling({c})
    BY <1>2, <2>1, ReplaySettles DEF LookUp, FoundByKey, Committed
  <2>. QED
    BY <1>2, <2>1, RefuseSettles, GoOnKeeps, MovesKeep DEF LookUp
<1>3. CASE LoseInsert(c)
  <2>1. Settling({c})
    BY <1>3, ReplaySettles DEF LoseInsert, FoundByKey, Committed
  <2>. QED
    BY <2>1, MovesKeep
<1>. QED
  BY <1>1, <1>2, <1>3

LEMMA NextKeepsRows ==
  ASSUME IInv, [Next]_vars
  PROVE  CallsInv' /\ RowsInv'
<1>1. ASSUME NEW c \in Callers, Call(c)
      PROVE  CallsInv' /\ RowsInv'
  <2>1. CASE RefuseRetry(c) \/ Finish(c)
    BY <2>1, RefuseRetrySettles, FinishSettles, MovesKeep
  <2>. QED
    BY <1>1, <2>1, BeginKeeps, ExpireParentKeeps, LookUpKeeps, InsertKeeps, AbortKeeps DEF Call
<1>2. ASSUME NEW o \in Operations, Settle(o) \/ Expire(o)
      PROVE  CallsInv' /\ RowsInv'
  BY <1>2, OthersSettle, MovesKeep
<1>3. CASE UNCHANGED <<rowVars, overdue, pc, ask, mine, expired>>
  <2>1. \A c \in Callers : Untouched(c)
    BY <1>3 DEF rowVars, Untouched, SameRegisters, IInv, CallsInv, CallInv, ExpiredIsOverdue
  <2>2. Settling({})
    BY <1>3, <2>1 DEF Settling, rowVars
  <2>. QED
    BY <2>2, MovesKeep
<1>. QED
  BY <1>1, <1>2, <1>3, DeadlinePassesKeeps DEF Next, Age, vars

\* What returns is well-typed.
LEMMA ReturnIsTyped ==
  ASSUME TypeOK, NEW c \in Callers, Return(c)
  PROVE  /\ pc' \in [Callers -> {"idle", "expire", "limit", "lookup", "insert", "preflight"}]
         /\ ask' \in [Callers -> Asks \union {None}]
         /\ mine' \in [Callers -> Operations \union {NoParent}]
         /\ expired' \in [Callers -> SUBSET Operations]
BY DEF TypeOK, Return

LEMMA NextKeepsTypes ==
  ASSUME IInv, [Next]_vars
  PROVE  TypeOK'
<1>. USE DEF IInv
<1>1. ASSUME NEW c \in Callers, NEW p \in Principals, NEW k \in Keys \union {NoKey},
             \/ \E a \in Arguments : BeginPrepare(c, p, k, a)
             \/ \E o \in Operations : BeginRetry(c, p, k, o)
      PROVE  TypeOK'
  <2>1. PICK a \in Arguments, o \in Operations \union {NoParent}, s \in States \union {NoState} :
          ask' = [ask EXCEPT ![c] = [principal |-> p, key |-> k, arguments |-> a, parent |-> o,
                                     observed |-> s, lost |-> FALSE]]
    BY <1>1 DEF BeginPrepare, BeginRetry, Committed, RowsInv, RowsAreWhole, TypeOK
  <2>2. ask' \in [Callers -> Asks \union {None}]
    BY <2>1 DEF TypeOK, Asks
  <2>3. pc' \in [Callers -> {"idle", "expire", "limit", "lookup", "insert", "preflight"}]
    BY <1>1 DEF BeginPrepare, BeginRetry, TypeOK
  <2>4. UNCHANGED <<rowVars, overdue, window, mine, expired>> /\ answer' = None
    BY <1>1 DEF BeginPrepare, BeginRetry
  <2>. QED
    BY <2>2, <2>3, <2>4 DEF TypeOK, rowVars
<1>2. ASSUME NEW c \in Callers, ExpireParent(c)
      PROVE  TypeOK'
  <2>1. ask[c] \in Asks /\ Matched(c) \in SUBSET Operations
    BY <1>2 DEF ExpireParent, CallsInv, CallInv, Matched, TypeOK
  <2>2. ask' \in [Callers -> Asks \union {None}]
    BY <1>2, <2>1 DEF ExpireParent, TypeOK, Asks, States
  <2>. QED
    BY <1>2, <2>1, <2>2 DEF ExpireParent, TypeOK, rowVars
<1>3. ASSUME NEW c \in Callers, NEW next \in {"lookup", "insert"}, GoOn(c, next),
             UNCHANGED <<rowVars, overdue, window, answer>>
      PROVE  TypeOK'
  BY <1>3 DEF GoOn, TypeOK, rowVars
<1>4. ASSUME NEW c \in Callers, NEW ops \in SUBSET Operations, state' = Expired(ops), Return(c),
             overdue' \subseteq overdue, UNCHANGED <<namespace, arguments, parent, overtaken, window>>,
             answer' \in (Namespaces \X Arguments \X Operations) \union {None}
      PROVE  TypeOK'
  <2>1. state' \in [Operations -> States \union {NoState}]
    BY <1>4 DEF Expired, TypeOK, States
  <2>. QED
    BY <1>4, <2>1, ReturnIsTyped DEF TypeOK
<1>5. ASSUME NEW c \in Callers, Refuse(c) \/ RefuseRetry(c)
      PROVE  TypeOK'
  <2>1. /\ Return(c) /\ overdue' \subseteq overdue
        /\ UNCHANGED <<namespace, arguments, parent, overtaken, window, answer>>
    BY <1>5 DEF Refuse, RefuseRetry
  <2>2. PICK ops \in SUBSET Operations : state' = Expired(ops)
    BY <1>5 DEF Refuse, RefuseRetry, Matched, TypeOK
  <2>3. answer' \in (Namespaces \X Arguments \X Operations) \union {None}
    BY <2>1 DEF TypeOK
  <2>. QED
    BY <1>4, <2>1, <2>2, <2>3
<1>6. ASSUME NEW c \in Callers, pc[c] # "idle", NEW o \in FoundByKey(c),
             NEW kept, kept = {} \/ kept = expired[c], ReplayOf(c, o, kept)
      PROVE  TypeOK'
  <2>1. o \in Operations /\ kept \in SUBSET Operations /\ ask[c] \in Asks
    BY <1>6 DEF FoundByKey, Committed, TypeOK, CallsInv, CallInv
  <2>2. /\ Return(c) /\ overdue' \subseteq overdue /\ answer' = Answer(c, o)
        /\ UNCHANGED <<namespace, arguments, parent, overtaken, window>>
    BY <1>6 DEF ReplayOf
  <2>3. PICK ops \in SUBSET Operations : state' = Expired(ops)
    BY <1>6, <2>1 DEF ReplayOf
  <2>. QED
    BY <1>4, <2>1, <2>2, <2>3, AnswerIsTyped
<1>7. ASSUME NEW c \in Callers, Insert(c)
      PROVE  TypeOK'
  <2>1. PICK o \in Operations : o = Handle
    BY <1>7 DEF Insert
  <2>2. ask[c] \in Asks
    BY <1>7 DEF Insert, CallsInv, CallInv
  <2>3. Namespace(c) \in Namespaces \union {None} /\ ask[c].arguments \in Arguments
        /\ ask[c].parent \in Operations \union {NoParent}
    BY <2>2, NamespaceIsTyped DEF Asks
  <2>4. /\ state' = [state EXCEPT ![o] = "PREPARING"]
        /\ namespace' = [namespace EXCEPT ![o] = Namespace(c)]
        /\ arguments' = [arguments EXCEPT ![o] = ask[c].arguments]
        /\ parent' = [parent EXCEPT ![o] = ask[c].parent]
        /\ overtaken' = IF ask[c].lost THEN overtaken \union {o} ELSE overtaken
        /\ window' = window \union {o}
        /\ mine' = [mine EXCEPT ![c] = o]
        /\ pc' = [pc EXCEPT ![c] = "preflight"]
        /\ UNCHANGED <<overdue, ask, expired, answer>>
    BY <1>7, <2>1 DEF Insert
  <2>. QED
    BY <2>3, <2>4 DEF TypeOK, States
<1>8. ASSUME NEW c \in Callers, Finish(c)
      PROVE  TypeOK'
  <2>1. mine[c] \in Operations /\ ask[c] \in Asks
    BY <1>8 DEF Finish, TypeOK, CallsInv, CallInv, InsertedIsMine
  <2>2. state' \in [Operations -> States \union {NoState}]
    BY <1>8, TransitionTable DEF Finish, Expired, TypeOK, Settled, States
  <2>3. answer' \in (Namespaces \X Arguments \X Operations) \union {None}
    BY <1>8, <2>1, AnswerIsTyped DEF Finish
  <2>. QED
    BY <1>8, <2>2, <2>3, ReturnIsTyped DEF Finish, TypeOK
<1>9. ASSUME NEW c \in Callers, Abort(c)
      PROVE  TypeOK'
  <2>1. Return(c) /\ UNCHANGED <<overdue, answer>> /\ window' \subseteq window
    BY <1>9 DEF Abort
  <2>2. /\ state' \in [Operations -> States \union {NoState}]
        /\ namespace' \in [Operations -> Namespaces \union {None}]
        /\ arguments' \in [Operations -> Arguments \union {None}]
        /\ parent' \in [Operations -> Operations \union {NoParent}]
        /\ overtaken' \subseteq Operations
    BY <1>9 DEF Abort, TypeOK
  <2>. QED
    BY <2>1, <2>2, ReturnIsTyped DEF TypeOK
<1>10. ASSUME NEW o \in Operations, Settle(o) \/ Expire(o) \/ DeadlinePasses(o)
       PROVE  TypeOK'
  <2>1. CASE Settle(o) \/ Expire(o)
    <3>1. state' \in [Operations -> States \union {NoState}]
      <4>1. CASE Expire(o)
        BY <4>1 DEF Expire, Expired, TypeOK, States
      <4>2. CASE Settle(o)
        BY <4>2, TransitionTable DEF Settle, ValidTransition, Committed, TypeOK, Settled, States
      <4>. QED
        BY <2>1, <4>1, <4>2
    <3>. QED
      BY <2>1, <3>1 DEF Settle, Expire, TypeOK
  <2>2. CASE DeadlinePasses(o)
    BY <2>2 DEF DeadlinePasses, TypeOK, rowVars
  <2>. QED
    BY <1>10, <2>1, <2>2
<1>11. CASE Age \/ UNCHANGED vars
  BY <1>11 DEF Age, vars, rowVars, TypeOK
<1>12. ASSUME NEW c \in Callers, LookUp(c) \/ LoseInsert(c) \/ CheckLimit(c)
       PROVE  TypeOK'
  BY <1>3, <1>5, <1>6, <1>12 DEF LookUp, LoseInsert, CheckLimit
<1>. QED
  BY <1>1, <1>2, <1>5, <1>7, <1>8, <1>9, <1>10, <1>11, <1>12 DEF Next, Call

LEMMA InitInvariant == Init => IInv
<1>. SUFFICES ASSUME Init PROVE IInv
  OBVIOUS
<1>1. TypeOK
  BY DEF Init, TypeOK
<1>2. CallsInv
  BY DEF Init, CallsInv, CallInv, InsertedIsMine, ExpiredIsOverdue
<1>3. RowsInv
  BY DEF Init, RowsInv, Apart, PreparingIsMine, RowsAreWhole, UniqueKeys, OverdueIsOpen, NoState
<1>. QED
  BY <1>1, <1>2, <1>3 DEF IInv

\* The inductive invariant holds in every reachable state.
THEOREM Invariance == Spec => []IInv
<1>1. IInv /\ [Next]_vars => IInv'
  BY NextKeepsTypes, NextKeepsRows DEF IInv
<1>. QED
  BY <1>1, InitInvariant, PTL DEF Spec

\* The operations, the keys, the window and the calls of IdempotentPrepare have the
\* types of TypeOK in every reachable state.
THEOREM TypeCorrect == Spec => []TypeOK
BY Invariance, PTL DEF IInv

-----------------------------------------------------------------------------
(* What is committed stays, and keys name it for good.                     *)

\* Committed rows keep what they were inserted with.
CommittedStay ==
  /\ Committed \subseteq Committed'
  /\ \A o \in Committed : /\ namespace'[o] = namespace[o]
                         /\ arguments'[o] = arguments[o]
                         /\ parent'[o] = parent[o]

\* A step that settles operations commits none but those of calls that return.
LEMMA SettlingCommits ==
  ASSUME IInv, NEW gone \in SUBSET Callers, Settling(gone)
  PROVE  /\ CommittedStay
         /\ \A o \in Committed' \ Committed : \E c \in gone : o = mine[c]
<1>1. \A o \in Operations : state[o] = NoState \/ state[o] = "PREPARING" \/ o \in Committed
  BY DEF Committed
<1>2. Committed \subseteq Committed'
  BY DEF Settling, Committed, Settled, States, NoState
<1>3. CommittedStay
  BY <1>2 DEF CommittedStay, Settling
<1>4. ASSUME NEW o \in Committed' \ Committed
      PROVE  \E c \in gone : o = mine[c]
  <2>1. o \in Operations /\ state[o] = "PREPARING" /\ state'[o] # state[o]
    BY DEF Committed, Settling
  <2>2. PICK c \in Callers : mine[c] = o
    BY <2>1 DEF IInv, RowsInv, PreparingIsMine
  <2>3. mine[c] # NoParent
    BY <2>1, <2>2 DEF Operations, NoParent
  <2>. QED
    BY <2>1, <2>2, <2>3 DEF Settling, Untouched
<1>. QED
  BY <1>3, <1>4

\* Only the end of a preflight commits a new row.
LEMMA NextCommits ==
  ASSUME IInv, [Next]_vars
  PROVE  /\ CommittedStay
         /\ (\A c \in Callers : ~Finish(c)) => Committed' = Committed
<1>. DEFINE Stays == CommittedStay /\ Committed' = Committed
<1>1. ASSUME NEW gone \in SUBSET Callers, Settling(gone), \A c \in gone : pc[c] # "preflight"
      PROVE  Stays
  <2>1. \A c \in gone : mine[c] = NoParent
    BY <1>1 DEF IInv, CallsInv, CallInv, InsertedIsMine
  <2>2. \A o \in Committed' : o # NoParent
    BY DEF Committed, Operations, NoParent
  <2>. QED
    BY <1>1, <2>1, <2>2, SettlingCommits DEF CommittedStay
<1>2. ASSUME UNCHANGED rowVars
      PROVE  Stays
  BY <1>2 DEF rowVars, CommittedStay, Committed
<1>. HIDE DEF Stays
<1>3. ASSUME NEW c \in Callers, Refuse(c), pc[c] \in {"limit", "lookup"}
      PROVE  Stays
  BY <1>1, <1>3, RefuseSettles
<1>4. ASSUME NEW c \in Callers, RefuseRetry(c)
      PROVE  Stays
  BY <1>1, <1>4, RefuseRetrySettles DEF RefuseRetry
<1>5. ASSUME NEW c \in Callers, pc[c] \in {"lookup", "insert"}, NEW o \in FoundByKey(c),
             NEW kept, kept = {} \/ kept = expired[c], ReplayOf(c, o, kept)
      PROVE  Stays
  <2>1. o \in Operations
    BY DEF FoundByKey, Committed
  <2>. QED
    BY <1>1, <1>5, <2>1, ReplaySettles
<1>6. ASSUME NEW c \in Callers, Insert(c)
      PROVE  Stays
  <2>1. PICK o \in Operations : o = Handle
    BY <1>6 DEF Insert
  <2>2. state[o] = NoState
    BY <2>1, HandleIsFresh DEF IInv
  <2>3. /\ state' = [state EXCEPT ![o] = "PREPARING"]
        /\ \A q \in Operations \ {o} : /\ namespace'[q] = namespace[q]
                                     /\ arguments'[q] = arguments[q] /\ parent'[q] = parent[q]
    BY <1>6, <2>1 DEF Insert, IInv, TypeOK
  <2>4. o \notin Committed /\ Committed' = Committed
    BY <2>2, <2>3 DEF Committed, IInv, TypeOK
  <2>. QED
    BY <2>3, <2>4 DEF CommittedStay, Committed, Stays
<1>7. ASSUME NEW c \in Callers, Abort(c)
      PROVE  Stays
  <2>1. mine[c] \in Operations => state[mine[c]] = "PREPARING"
    BY DEF IInv, CallsInv, CallInv, InsertedIsMine, Operations, NoParent
  <2>2. mine[c] \notin Committed
    BY <2>1 DEF Committed
  <2>3. \A q \in Operations \ {mine[c]} :
          /\ state'[q] = state[q] /\ namespace'[q] = namespace[q]
          /\ arguments'[q] = arguments[q] /\ parent'[q] = parent[q]
    BY <1>7 DEF Abort
  <2>4. mine[c] \in Operations => state'[mine[c]] = NoState
    BY <1>7 DEF Abort
  <2>. QED
    BY <2>2, <2>3, <2>4 DEF CommittedStay, Committed, Stays
<1>8. ASSUME NEW o \in Operations, Settle(o) \/ Expire(o)
      PROVE  Stays
  BY <1>1, <1>8, OthersSettle
<1>9. ASSUME NEW c \in Callers, LookUp(c) \/ LoseInsert(c) \/ CheckLimit(c)
      PROVE  Stays
  <2>1. CASE UNCHANGED rowVars
    BY <1>2, <2>1
  <2>2. CASE LookUp(c) /\ ~UNCHANGED rowVars
    BY <1>3, <1>5, <2>2 DEF LookUp
  <2>3. CASE LoseInsert(c)
    BY <1>5, <2>3 DEF LoseInsert
  <2>4. CASE CheckLimit(c) /\ ~UNCHANGED rowVars
    BY <1>3, <2>4 DEF CheckLimit
  <2>. QED
    BY <1>9, <2>1, <2>2, <2>3, <2>4
<1>10. ASSUME NEW c \in Callers, NEW p \in Principals, NEW k \in Keys \union {NoKey},
              \/ \E a \in Arguments : BeginPrepare(c, p, k, a)
              \/ \E o \in Operations : BeginRetry(c, p, k, o)
       PROVE  Stays
  <2>1. UNCHANGED rowVars
    BY <1>10 DEF BeginPrepare, BeginRetry
  <2>. QED
    BY <1>2, <2>1
<1>11. ASSUME NEW c \in Callers, Finish(c)
       PROVE  CommittedStay
  BY <1>11, FinishSettles, SettlingCommits
<1>12. ASSUME Age \/ UNCHANGED vars \/ \E o \in Operations : DeadlinePasses(o)
       PROVE  Stays
  BY <1>2, <1>12 DEF Age, DeadlinePasses, vars
<1>13. ASSUME NEW c \in Callers, ExpireParent(c)
       PROVE  Stays
  <2>1. UNCHANGED rowVars
    BY <1>13 DEF ExpireParent
  <2>. QED
    BY <1>2, <2>1
<1>14. Stays \/ \E c \in Callers : Finish(c)
  BY <1>4, <1>6, <1>7, <1>8, <1>9, <1>10, <1>12, <1>13 DEF Next, Call
<1>. QED
  BY <1>11, <1>14 DEF Stays

-----------------------------------------------------------------------------
(* The refinement.                                                         *)

\* A key that a committed row has names that row, and no other names anything.
LEMMA BoundIsTheRow ==
  ASSUME UniqueKeys
  PROVE  /\ \A o \in Committed, n \in Namespaces : namespace[o] = n => Bound[n] = o
         /\ \A n \in Namespaces : (\A o \in Committed : namespace[o] # n) => Bound[n] = None
<1>1. ASSUME NEW o \in Committed, NEW n \in Namespaces, namespace[o] = n
      PROVE  Bound[n] = o
  <2>1. \A p \in Committed : namespace[p] = n => p = o
    BY <1>1, NoneAssumption DEF UniqueKeys, Committed
  <2>2. (CHOOSE p \in Committed : namespace[p] = n) = o
    BY <1>1, <2>1
  <2>. QED
    BY <1>1, <2>2 DEF Bound
<1>2. \A n \in Namespaces : (\A o \in Committed : namespace[o] # n) => Bound[n] = None
  BY DEF Bound
<1>. QED
  BY <1>1, <1>2

\* The same of the next state.
LEMMA BoundIsTheRowNext ==
  ASSUME UniqueKeys'
  PROVE  /\ \A o \in Committed', n \in Namespaces : namespace'[o] = n => Bound'[n] = o
         /\ \A n \in Namespaces : (\A o \in Committed' : namespace'[o] # n) => Bound'[n] = None
<1>1. ASSUME NEW o \in Committed', NEW n \in Namespaces, namespace'[o] = n
      PROVE  Bound'[n] = o
  <2>1. \A p \in Committed' : namespace'[p] = n => p = o
    BY <1>1, NoneAssumption DEF UniqueKeys, Committed
  <2>2. (CHOOSE p \in Committed' : namespace'[p] = n) = o
    BY <1>1, <2>1
  <2>. QED
    BY <1>1, <2>2 DEF Bound
<1>2. \A n \in Namespaces : (\A o \in Committed' : namespace'[o] # n) => Bound'[n] = None
  BY DEF Bound
<1>. QED
  BY <1>1, <1>2

LEMMA BoundStays ==
  ASSUME UniqueKeys, UniqueKeys', CommittedStay, Committed' = Committed
  PROVE  Bound' = Bound
<1>1. ASSUME NEW n \in Namespaces
      PROVE  Bound'[n] = Bound[n]
  <2>1. CASE \E o \in Committed : namespace[o] = n
    BY <2>1, BoundIsTheRow, BoundIsTheRowNext DEF CommittedStay
  <2>2. CASE \A o \in Committed : namespace[o] # n
    BY <2>2, BoundIsTheRow, BoundIsTheRowNext DEF CommittedStay
  <2>. QED
    BY <2>1, <2>2
<1>2. Bound = [n \in Namespaces |-> Bound[n]] /\ Bound' = [n \in Namespaces |-> Bound'[n]]
  BY DEF Bound
<1>. QED
  BY <1>1, <1>2

\* The answer as KeyedOperations has it.
Told == IF answer = None THEN None ELSE <<answer[1], answer[3]>>

\* What a step does to the answer.
AnswerStep ==
  \/ UNCHANGED answer
  \/ answer' = None
  \/ \E c \in Callers : \E o \in FoundByKey(c) : pc[c] # "idle" /\ answer' = Answer(c, o)

LEMMA NextAnswers ==
  ASSUME [Next]_vars, \A c \in Callers : ~Finish(c)
  PROVE  AnswerStep
<1>1. ASSUME NEW c \in Callers, NEW p, NEW k,
             \/ \E a \in Arguments : BeginPrepare(c, p, k, a)
             \/ \E o \in Operations : BeginRetry(c, p, k, o)
      PROVE  answer' = None
  BY <1>1 DEF BeginPrepare, BeginRetry
<1>2. ASSUME NEW c \in Callers, LookUp(c) \/ LoseInsert(c)
      PROVE  AnswerStep
  BY <1>2 DEF LookUp, LoseInsert, ReplayOf, Refuse, AnswerStep
<1>3. ASSUME NEW c \in Callers,
             ExpireParent(c) \/ RefuseRetry(c) \/ CheckLimit(c) \/ Insert(c) \/ Abort(c)
      PROVE  UNCHANGED answer
  BY <1>3 DEF ExpireParent, RefuseRetry, CheckLimit, Refuse, Insert, Abort
<1>4. ASSUME NEW o \in Operations, Settle(o) \/ Expire(o) \/ DeadlinePasses(o)
      PROVE  UNCHANGED answer
  BY <1>4 DEF Settle, Expire, DeadlinePasses
<1>5. Age \/ UNCHANGED vars => UNCHANGED answer
  BY DEF Age, vars
<1>. QED
  BY <1>1, <1>2, <1>3, <1>4, <1>5 DEF Next, Call, AnswerStep

\* The answer for a key names the key and the operation.
LEMMA AnswerNames ==
  ASSUME NEW c \in Callers, ask[c] \in Asks, NEW o \in Operations, answer' = Answer(c, o)
  PROVE  Told' = IF Namespace(c) = None THEN None ELSE <<Namespace(c), o>>
<1>1. CASE Namespace(c) = None
  BY <1>1 DEF Answer, Told
<1>2. CASE Namespace(c) # None
  <2>1. Answer(c, o) \in Namespaces \X Arguments \X Operations
    BY <1>2, NamespaceIsTyped DEF Answer, Asks
  <2>2. Answer(c, o) # None
    BY <2>1, NoneAssumption
  <2>3. Answer(c, o)[1] = Namespace(c) /\ Answer(c, o)[3] = o
    BY <1>2 DEF Answer
  <2>. QED
    BY <1>2, <2>2, <2>3 DEF Told
<1>. QED
  BY <1>1, <1>2

LEMMA NextImplements ==
  ASSUME IInv, IInv', [Next]_vars
  PROVE  [Keyed!Next]_<<Bound, Told>>
<1>1. UniqueKeys /\ UniqueKeys' /\ CommittedStay
  BY NextCommits DEF IInv, RowsInv
<1>2. CASE \A c \in Callers : ~Finish(c)
  <2>1. Bound' = Bound
    BY <1>1, <1>2, NextCommits, BoundStays
  <2>2. CASE UNCHANGED answer
    BY <2>1, <2>2 DEF Told
  <2>3. CASE answer' = None
    <3>1. Told' = None
      BY <2>3 DEF Told
    <3>. QED
      BY <2>1, <3>1 DEF Keyed!Next, Keyed!Ask, Told
  <2>4. ASSUME NEW c \in Callers, NEW o \in FoundByKey(c), pc[c] # "idle", answer' = Answer(c, o)
        PROVE  Keyed!Next
    <3>1. /\ o \in Committed /\ o \in Operations /\ namespace[o] = Namespace(c)
          /\ Namespace(c) # None /\ ask[c] \in Asks
      BY <2>4 DEF FoundByKey, Committed, IInv, CallsInv, CallInv
    <3>2. Namespace(c) \in Namespaces
      BY <3>1, NamespaceIsTyped
    <3>3. Bound[Namespace(c)] = o /\ o # None
      BY <1>1, <3>1, <3>2, BoundIsTheRow, NoneAssumption DEF Operations
    <3>4. Told' = <<Namespace(c), o>>
      BY <2>4, <3>1, AnswerNames
    <3>. QED
      BY <2>1, <3>2, <3>3, <3>4 DEF Keyed!Next, Keyed!Replay, Told
  <2>. QED
    BY <1>2, <2>2, <2>3, <2>4, NextAnswers DEF AnswerStep
<1>3. ASSUME NEW c \in Callers, Finish(c)
      PROVE  [Keyed!Next]_<<Bound, Told>>
  <2>. DEFINE o == mine[c]
              k == Namespace(c)
  <2>1. /\ o \in Operations /\ state[o] = "PREPARING" /\ namespace[o] = k
        /\ ask[c] \in Asks
    BY <1>3 DEF Finish, IInv, TypeOK, CallsInv, CallInv, InsertedIsMine
  <2>2. \A q \in Committed' \ Committed : q = o
    <3>1. Settling({c}) /\ {c} \in SUBSET Callers
      BY <1>3, FinishSettles
    <3>2. \A q \in Committed' \ Committed : \E d \in {c} : q = mine[d]
      BY <3>1, SettlingCommits
    <3>. QED
      BY <3>2
  <2>3. namespace' = namespace /\ answer' = Answer(c, o)
    BY <1>3 DEF Finish
  <2>4. Told' = IF k = None THEN None ELSE <<k, o>>
    BY <2>1, <2>3, AnswerNames
  <2>5. o \in Committed' /\ o \notin Committed
    <3>1. state'[o] # NoState /\ state'[o] # "PREPARING"
      <4>1. Settling({c})
        BY <1>3, FinishSettles
      <4>2. o # NoParent
        BY <2>1 DEF Operations, NoParent
      <4>. QED
        BY <2>1, <4>1, <4>2 DEF Settling, Settled, States, NoState
    <3>. QED
      BY <2>1, <3>1 DEF Committed
  <2>. HIDE DEF o, k
  <2>6. \A n \in Namespaces \ {k} : Bound'[n] = Bound[n]
    <3>. SUFFICES ASSUME NEW n \in Namespaces, n # k
                  PROVE  Bound'[n] = Bound[n]
      OBVIOUS
    <3>1. CASE \E q \in Committed : namespace[q] = n
      BY <1>1, <2>3, <3>1, BoundIsTheRow, BoundIsTheRowNext DEF CommittedStay
    <3>2. CASE \A q \in Committed : namespace[q] # n
      <4>1. \A q \in Committed' : namespace'[q] # n
        BY <2>1, <2>2, <2>3, <3>2
      <4>. QED
        BY <1>1, <3>2, <4>1, BoundIsTheRow, BoundIsTheRowNext
    <3>. QED
      BY <3>1, <3>2
  <2>7. /\ Bound = [n \in Namespaces |-> Bound[n]]
        /\ Bound' = [n \in Namespaces |-> Bound'[n]]
    BY DEF Bound
  <2>8. CASE k = None
    <3>1. Bound' = Bound
      BY <2>6, <2>7, <2>8, NoneAssumption
    <3>. QED
      BY <2>4, <2>8, <3>1 DEF Keyed!Next, Keyed!Ask, Told
  <2>9. CASE k # None
    <3>1. k \in Namespaces
      BY <2>1, <2>9, NamespaceIsTyped DEF k
    <3>2. \A q \in Committed : namespace[q] # k
      BY <1>1, <2>1, <2>5, <2>9 DEF UniqueKeys, Committed
    <3>3. Bound[k] = None
      BY <1>1, <3>1, <3>2, BoundIsTheRow
    <3>4. Bound'[k] = o
      BY <1>1, <2>1, <2>3, <2>5, <3>1, BoundIsTheRowNext
    <3>5. \A n \in Namespaces : Bound[n] # o
      <4>. SUFFICES ASSUME NEW n \in Namespaces, Bound[n] = o PROVE FALSE
        OBVIOUS
      <4>1. CASE \E q \in Committed : namespace[q] = n
        BY <1>1, <2>5, <4>1, BoundIsTheRow
      <4>2. CASE \A q \in Committed : namespace[q] # n
        BY <1>1, <2>1, <4>2, BoundIsTheRow, NoneAssumption DEF Operations
      <4>. QED
        BY <4>1, <4>2
    <3>6. Bound' = [Bound EXCEPT ![k] = o]
      BY <2>6, <2>7, <3>1, <3>4
    <3>7. Told' = <<k, o>>
      BY <2>4, <2>9
    <3>. QED
      BY <2>1, <3>1, <3>3, <3>5, <3>6, <3>7 DEF Keyed!Next, Keyed!Bind, Told
  <2>. QED
    BY <2>8, <2>9
<1>. QED
  BY <1>2, <1>3

\* Whoever races, a key names one operation in its namespace, for good, and every
\* answer for it names that one: _prepare_or_retry implements KeyedOperations (I8), for
\* any number of calls and of keys.
THEOREM Refinement == Spec => ImplementsKeyedOperations
<1>1. Init => Keyed!Init
  <2>. SUFFICES ASSUME Init PROVE Keyed!Init
    OBVIOUS
  <2>1. Committed = {}
    BY DEF Init, Committed
  <2>2. Bound = [n \in Namespaces |-> None]
    BY <2>1 DEF Bound
  <2>. QED
    BY <2>2 DEF Init, Keyed!Init
<1>2. IInv /\ IInv' /\ [Next]_vars => [Keyed!Next]_<<Bound, Told>>
  BY NextImplements
<1>. QED
  BY <1>1, <1>2, Invariance, PTL DEF Spec, ImplementsKeyedOperations, Keyed!Spec, Told

-----------------------------------------------------------------------------
(* The rate limit.                                                         *)

\* The calls that have passed the limit and are not done.
PastLimit == {c \in Callers : pc[c] \in {"lookup", "insert", "preflight"}}

\* Every operation beyond the limit has used up one of the calls that could pass it.
LimitInv == Cardinality(Recent) + Cardinality(PastLimit) < RateLimit + Cardinality(Callers)

LEMMA LimitSets ==
  ASSUME TypeOK
  PROVE  /\ IsFiniteSet(Recent) /\ Cardinality(Recent) \in Nat
         /\ IsFiniteSet(PastLimit) /\ Cardinality(PastLimit) \in Nat
         /\ Cardinality(PastLimit) <= Cardinality(Callers)
         /\ Cardinality(Callers) \in Nat \ {0}
<1>1. IsFiniteSet(Operations)
  BY FS_Interval, PrepareAssumption DEF Operations
<1>2. Recent \subseteq Operations /\ PastLimit \subseteq Callers
  BY DEF Recent, Committed, PastLimit
<1>3. IsFiniteSet(Callers) /\ Callers # {}
  BY PrepareAssumption
<1>4. Cardinality(Callers) \in Nat \ {0}
  BY <1>3, FS_CardinalityType, FS_EmptySet
<1>. QED
  BY <1>1, <1>2, <1>3, <1>4, FS_Subset, FS_CardinalityType

\* The same of the next state.
LEMMA LimitSetsNext ==
  ASSUME TypeOK'
  PROVE  /\ IsFiniteSet(Recent') /\ Cardinality(Recent') \in Nat
         /\ IsFiniteSet(PastLimit') /\ Cardinality(PastLimit') \in Nat
         /\ Cardinality(PastLimit') <= Cardinality(Callers)
<1>1. IsFiniteSet(Operations)
  BY FS_Interval, PrepareAssumption DEF Operations
<1>2. Recent' \subseteq Operations /\ PastLimit' \subseteq Callers
  BY DEF Recent, Committed, PastLimit
<1>3. IsFiniteSet(Callers)
  BY PrepareAssumption
<1>. QED
  BY <1>1, <1>2, <1>3, FS_Subset, FS_CardinalityType

\* A step that commits nothing recent and lets no call past the limit.
LEMMA NobodyPasses ==
  ASSUME TypeOK, LimitInv, Recent' \subseteq Recent, PastLimit' \subseteq PastLimit
  PROVE  LimitInv'
<1>1. /\ Cardinality(Recent') \in Nat /\ Cardinality(Recent') <= Cardinality(Recent)
      /\ Cardinality(PastLimit') \in Nat /\ Cardinality(PastLimit') <= Cardinality(PastLimit)
  BY LimitSets, FS_Subset, FS_CardinalityType
<1>. QED
  BY <1>1, LimitSets, PrepareAssumption DEF LimitInv

\* A call that passes the limit finds it not reached.
LEMMA OnePasses ==
  ASSUME TypeOK, TypeOK', ~LimitReached, Recent' = Recent
  PROVE  LimitInv'
<1>1. Cardinality(Recent) < RateLimit
  BY LimitSets, PrepareAssumption DEF LimitReached
<1>. QED
  BY <1>1, LimitSets, LimitSetsNext, PrepareAssumption DEF LimitInv

\* A call that commits is done.
LEMMA OneCommits ==
  ASSUME TypeOK, LimitInv, NEW c \in PastLimit, NEW o, Recent' \subseteq Recent \union {o},
         PastLimit' = PastLimit \ {c}
  PROVE  LimitInv'
<1>1. Cardinality(PastLimit') = Cardinality(PastLimit) - 1
  BY LimitSets, FS_RemoveElement
<1>2. /\ IsFiniteSet(Recent \union {o}) /\ Cardinality(Recent \union {o}) \in Nat
      /\ Cardinality(Recent \union {o}) <= Cardinality(Recent) + 1
  <2>1. CASE o \in Recent
    BY <2>1, LimitSets, FS_AddElement
  <2>2. CASE o \notin Recent
    BY <2>2, LimitSets, FS_AddElement
  <2>. QED
    BY <2>1, <2>2
<1>3. Cardinality(Recent') \in Nat /\ Cardinality(Recent') <= Cardinality(Recent) + 1
  BY <1>2, LimitSets, FS_Subset, FS_CardinalityType
<1>. QED
  BY <1>1, <1>3, LimitSets, PrepareAssumption DEF LimitInv

\* A step lets no call past the limit, or finds it not reached.
LEMMA NextPasses ==
  ASSUME TypeOK, [Next]_vars
  PROVE  PastLimit' \subseteq PastLimit \/ (~LimitReached /\ Recent' = Recent)
<1>1. ASSUME NEW c \in Callers, Return(c)
      PROVE  PastLimit' \subseteq PastLimit
  BY <1>1 DEF Return, TypeOK, PastLimit
<1>2. ASSUME NEW c \in Callers, NEW p, NEW k, NEW a, BeginPrepare(c, p, k, a)
      PROVE  ~LimitReached /\ Recent' = Recent
  BY <1>2 DEF BeginPrepare, rowVars, Recent, Committed
<1>3. ASSUME NEW c \in Callers, NEW p, NEW k, NEW o \in Operations, BeginRetry(c, p, k, o)
      PROVE  PastLimit' \subseteq PastLimit
  BY <1>3 DEF BeginRetry, TypeOK, PastLimit
<1>4. ASSUME NEW c \in Callers, ExpireParent(c)
      PROVE  PastLimit' \subseteq PastLimit
  BY <1>4 DEF ExpireParent, TypeOK, PastLimit
<1>5. ASSUME NEW c \in Callers, CheckLimit(c), ~Return(c)
      PROVE  ~LimitReached /\ Recent' = Recent
  BY <1>5 DEF CheckLimit, Refuse, rowVars, Recent, Committed
<1>6. ASSUME NEW c \in Callers, LookUp(c), ~Return(c)
      PROVE  PastLimit' \subseteq PastLimit
  BY <1>6 DEF LookUp, Refuse, ReplayOf, GoOn, TypeOK, PastLimit
<1>7. ASSUME NEW c \in Callers, Insert(c)
      PROVE  PastLimit' \subseteq PastLimit
  BY <1>7 DEF Insert, TypeOK, PastLimit
<1>8. ASSUME NEW c \in Callers, RefuseRetry(c) \/ LoseInsert(c) \/ Finish(c) \/ Abort(c)
      PROVE  Return(c)
  BY <1>8 DEF RefuseRetry, LoseInsert, ReplayOf, Finish, Abort
<1>9. ASSUME \/ Age \/ UNCHANGED vars
             \/ \E o \in Operations : Settle(o) \/ Expire(o) \/ DeadlinePasses(o)
      PROVE  PastLimit' \subseteq PastLimit
  BY <1>9 DEF Age, vars, Settle, Expire, DeadlinePasses, PastLimit
<1>. QED
  BY <1>1, <1>2, <1>3, <1>4, <1>5, <1>6, <1>7, <1>8, <1>9 DEF Next, Call

\* Only a call's last step makes an operation recent.
LEMMA NextIsRecent ==
  ASSUME IInv, [Next]_vars, \A c \in Callers : ~Finish(c)
  PROVE  Recent' \subseteq Recent
<1>1. Committed' = Committed
  BY NextCommits
<1>2. ASSUME NEW c \in Callers, NEW p, NEW k,
             \/ \E a \in Arguments : BeginPrepare(c, p, k, a)
             \/ \E o \in Operations : BeginRetry(c, p, k, o)
      PROVE  window' = window
  BY <1>2 DEF BeginPrepare, BeginRetry
<1>3. ASSUME NEW c \in Callers, LookUp(c) \/ LoseInsert(c) \/ CheckLimit(c)
      PROVE  window' = window
  BY <1>3 DEF LookUp, LoseInsert, CheckLimit, ReplayOf, Refuse
<1>4. ASSUME NEW c \in Callers, ExpireParent(c) \/ RefuseRetry(c) \/ Abort(c)
      PROVE  window' \subseteq window
  BY <1>4 DEF ExpireParent, RefuseRetry, Abort
<1>5. ASSUME NEW c \in Callers, Insert(c)
      PROVE  window' \subseteq window \union (Operations \ Committed)
  <2>1. PICK o \in Operations : o = Handle /\ window' = window \union {o}
    BY <1>5 DEF Insert
  <2>2. Handle \in Nat /\ \A q \in Operations : state[q] # NoState => q < Handle
    BY HandleIsFresh DEF IInv
  <2>3. o \notin Committed
    BY <2>1, <2>2 DEF Committed
  <2>. QED
    BY <2>1, <2>3
<1>6. ASSUME NEW o \in Operations, Settle(o) \/ Expire(o) \/ DeadlinePasses(o)
      PROVE  window' = window
  BY <1>6 DEF Settle, Expire, DeadlinePasses
<1>7. Age \/ UNCHANGED vars => window' \subseteq window
  BY DEF Age, vars
<1>8. window' \subseteq window \union (Operations \ Committed)
  BY <1>2, <1>3, <1>4, <1>5, <1>6, <1>7 DEF Next, Call
<1>. QED
  BY <1>1, <1>8 DEF Recent

LEMMA NextKeepsLimit ==
  ASSUME IInv, IInv', LimitInv, [Next]_vars
  PROVE  LimitInv'
<1>1. TypeOK /\ TypeOK'
  BY DEF IInv
<1>2. CASE \A c \in Callers : ~Finish(c)
  BY <1>1, <1>2, NextIsRecent, NextPasses, NobodyPasses, OnePasses
<1>3. ASSUME NEW c \in Callers, Finish(c)
      PROVE  LimitInv'
  <2>1. Settling({c}) /\ {c} \in SUBSET Callers
    BY <1>3, FinishSettles
  <2>2. \A q \in Committed' \ Committed : q = mine[c]
    BY <2>1, SettlingCommits
  <2>3. Recent' \subseteq Recent \union {mine[c]}
    BY <1>3, <2>2 DEF Finish, Recent
  <2>4. c \in PastLimit /\ PastLimit' = PastLimit \ {c}
    BY <1>1, <1>3 DEF Finish, Return, TypeOK, PastLimit
  <2>. QED
    BY <1>1, <2>3, <2>4, OneCommits
<1>. QED
  BY <1>2, <1>3

\* _prepare_or_retry counts before it inserts, so concurrent calls pass
\* rate_limit_per_minute, but by fewer operations than there are calls: RATE_LIMITED
\* does bound what a workflow is asked to do in a minute.
THEOREM LimitIsPassedByFewerThanTheCalls == Spec => []OvershootIsBounded
<1>1. Init => LimitInv
  <2>. SUFFICES ASSUME Init PROVE LimitInv
    OBVIOUS
  <2>1. Recent = {} /\ PastLimit = {}
    BY DEF Init, Recent, PastLimit
  <2>2. Cardinality(Callers) \in Nat \ {0}
    BY InitInvariant, LimitSets DEF IInv
  <2>. QED
    BY <2>1, <2>2, FS_EmptySet, PrepareAssumption DEF LimitInv
<1>2. IInv /\ IInv' /\ LimitInv /\ [Next]_vars => LimitInv'
  BY NextKeepsLimit
<1>3. IInv /\ LimitInv => OvershootIsBounded
  BY LimitSets, PrepareAssumption DEF IInv, LimitInv, OvershootIsBounded
<1>. QED
  BY <1>1, <1>2, <1>3, Invariance, PTL DEF Spec

-----------------------------------------------------------------------------
(* The chain of retries.                                                   *)

\* Ancestors, of any table of parents.
Line(f, o) ==
  {q \in Operations : \A line \in SUBSET Operations :
     (\A x \in line \union {o} : f[x] \in line \union {NoParent}) => q \in line}

\* What is not on the line of an operation does not matter to it.
LEMMA LineIsLocal ==
  ASSUME NEW f, NEW g, NEW D \in SUBSET Operations, NEW o,
         \A x \in D \union {o} : f[x] \in D \union {NoParent} /\ g[x] = f[x]
  PROVE  Line(g, o) \subseteq Line(f, o)
<1>. SUFFICES ASSUME NEW q \in Line(g, o), NEW line \in SUBSET Operations,
                     \A x \in line \union {o} : f[x] \in line \union {NoParent}
              PROVE  q \in line
  BY DEF Line
<1>. DEFINE both == line \intersect D
<1>1. \A x \in both \union {o} : g[x] \in both \union {NoParent}
  OBVIOUS
<1>2. both \in SUBSET Operations
  OBVIOUS
<1>3. q \in both
  BY <1>1, <1>2 DEF Line
<1>. QED
  BY <1>3

LEMMA LineStays ==
  ASSUME NEW f, NEW g, NEW D \in SUBSET Operations, NEW o,
         \A x \in D \union {o} : f[x] \in D \union {NoParent} /\ g[x] = f[x]
  PROVE  Line(g, o) = Line(f, o)
<1>1. Line(g, o) \subseteq Line(f, o)
  BY LineIsLocal
<1>2. Line(f, o) \subseteq Line(g, o)
  BY LineIsLocal
<1>. QED
  BY <1>1, <1>2

\* A retry is one longer than its parent, at most.
LEMMA LineOfRetry ==
  ASSUME NEW f, NEW o, NEW p \in Operations, f[o] = p
  PROVE  Line(f, o) \subseteq {p} \union Line(f, p)
<1>. SUFFICES ASSUME NEW q \in Line(f, o), q # p, NEW line \in SUBSET Operations,
                     \A x \in line \union {p} : f[x] \in line \union {NoParent}
              PROVE  q \in line
  BY DEF Line
<1>1. \A x \in (line \union {p}) \union {o} : f[x] \in (line \union {p}) \union {NoParent}
  OBVIOUS
<1>2. line \union {p} \in SUBSET Operations
  OBVIOUS
<1>3. q \in line \union {p}
  BY <1>1, <1>2 DEF Line
<1>. QED
  BY <1>3

LEMMA LengthOfRetry ==
  ASSUME NEW f, NEW o, NEW p \in Operations, f[o] = p,
         ~(Cardinality(Line(f, p)) >= MAX_RETRY_CHAIN_DEPTH)
  PROVE  Cardinality(Line(f, o)) <= MAX_RETRY_CHAIN_DEPTH
<1>. DEFINE L == Line(f, p)
            M == Line(f, o)
<1>1. IsFiniteSet(Operations)
  BY FS_Interval, PrepareAssumption DEF Operations
<1>2. L \subseteq Operations /\ M \subseteq {p} \union L
  BY LineOfRetry DEF Line
<1>. HIDE DEF L, M
<1>3. IsFiniteSet(L) /\ Cardinality(L) \in Nat
  BY <1>1, <1>2, FS_Subset, FS_CardinalityType
<1>4. /\ IsFiniteSet(L \union {p}) /\ Cardinality(L \union {p}) \in Nat
      /\ Cardinality(L \union {p}) <= Cardinality(L) + 1
  <2>1. CASE p \in L
    BY <1>3, <2>1, FS_AddElement
  <2>2. CASE p \notin L
    BY <1>3, <2>2, FS_AddElement
  <2>. QED
    BY <2>1, <2>2
<1>5. Cardinality(M) \in Nat /\ Cardinality(M) <= Cardinality(L \union {p})
  BY <1>2, <1>4, FS_Subset, FS_CardinalityType
<1>6. ~(Cardinality(L) >= MAX_RETRY_CHAIN_DEPTH)
  BY DEF L
<1>7. Cardinality(M) <= MAX_RETRY_CHAIN_DEPTH
  BY <1>3, <1>4, <1>5, <1>6, PrepareAssumption
<1>. QED
  BY <1>7 DEF M

\* A call that has read a parent, with the arguments asked for.  Past its expiry the
\* parent is done, or this call expires it, or the call has lost the race for it; and
\* its chain has not grown too long for a retry.
Retries(c) == pc[c] # "idle" /\ ask[c].parent # NoParent

ReadParent(c) ==
  LET p == ask[c].parent
  IN /\ p \in Committed /\ arguments[p] = ask[c].arguments
     /\ pc[c] # "expire" =>
          /\ p \in expired[c] \/ state[p] \in RetryableStates \/ ask[c].lost
          /\ ~ChainTooDeep(p)

\* The parent of a row is committed and, once the row is too, done or passed over.
IsRetryOfDone(o) ==
  /\ parent[o] \in Committed
  /\ arguments[o] = arguments[parent[o]]
  /\ Cardinality(Ancestors(o)) <= MAX_RETRY_CHAIN_DEPTH
  /\ o \in Committed => o \in overtaken \/ state[parent[o]] \in RetryableStates

\* A row whose call has lost the race is known.
LossIsKnown(c) == mine[c] # NoParent /\ ask[c].lost => mine[c] \in overtaken

RetryInv ==
  /\ \A c \in Callers : Retries(c) => ReadParent(c)
  /\ \A c \in Callers : LossIsKnown(c)
  /\ \A o \in Operations : state[o] # NoState /\ parent[o] # NoParent => IsRetryOfDone(o)

\* An operation that is done stays done.
DoneStays == \A o \in Committed : state[o] \in RetryableStates => state'[o] \in RetryableStates

\* A row that is there after a step was there before it, as it is.
RowsWereThere ==
  \A o \in Operations : state'[o] # NoState =>
    /\ state[o] # NoState
    /\ parent'[o] = parent[o] /\ arguments'[o] = arguments[o]
    /\ o \in overtaken <=> o \in overtaken'

LEMMA ExpiredIsRetryable ==
  ASSUME TypeOK, NEW ops, state' = Expired(ops)
  PROVE  DoneStays
BY DEF TypeOK, Expired, DoneStays, Committed, RetryableStates

LEMMA NextIsDone ==
  ASSUME IInv, [Next]_vars
  PROVE  DoneStays
<1>. USE DEF IInv
<1>1. ASSUME UNCHANGED rowVars
      PROVE  DoneStays
  BY <1>1 DEF rowVars, DoneStays
<1>2. ASSUME NEW c \in Callers, Refuse(c)
      PROVE  DoneStays
  BY <1>2, ExpiredIsRetryable DEF Refuse
<1>3. ASSUME NEW c \in Callers, NEW o, NEW kept, ReplayOf(c, o, kept)
      PROVE  DoneStays
  BY <1>3, ExpiredIsRetryable DEF ReplayOf
<1>4. ASSUME NEW c \in Callers, RefuseRetry(c)
      PROVE  DoneStays
  BY <1>4, ExpiredIsRetryable DEF RefuseRetry
<1>5. ASSUME NEW c \in Callers, NEW p, NEW k,
             \/ \E a \in Arguments : BeginPrepare(c, p, k, a)
             \/ \E o \in Operations : BeginRetry(c, p, k, o)
      PROVE  UNCHANGED rowVars
  BY <1>5 DEF BeginPrepare, BeginRetry
<1>6. ASSUME NEW c \in Callers, LookUp(c) \/ LoseInsert(c) \/ CheckLimit(c) \/ ExpireParent(c)
      PROVE  DoneStays
  BY <1>1, <1>2, <1>3, <1>6 DEF LookUp, LoseInsert, CheckLimit, ExpireParent
<1>7. ASSUME NEW c \in Callers, Insert(c)
      PROVE  DoneStays
  <2>1. PICK o \in Operations : o = Handle
    BY <1>7 DEF Insert
  <2>2. state[o] = NoState
    BY <2>1, HandleIsFresh
  <2>3. o \notin Committed /\ \A q \in Operations \ {o} : state'[q] = state[q]
    BY <1>7, <2>1, <2>2 DEF Insert, Committed, TypeOK
  <2>. QED
    BY <2>3 DEF DoneStays, Committed
<1>8. ASSUME NEW c \in Callers, Finish(c) \/ Abort(c)
      PROVE  DoneStays
  <2>1. mine[c] \in Operations => state[mine[c]] = "PREPARING"
    BY DEF CallsInv, CallInv, InsertedIsMine, Operations, NoParent
  <2>2. mine[c] \notin Committed
    BY <2>1 DEF Committed
  <2>3. CASE Abort(c)
    <3>1. \A q \in Operations \ {mine[c]} : state'[q] = state[q]
      BY <2>3 DEF Abort
    <3>. QED
      BY <2>2, <3>1 DEF DoneStays, Committed
  <2>4. CASE Finish(c)
    <3>1. PICK t : state' = [Expired(expired[c]) EXCEPT ![mine[c]] = TRANSITIONS[t].to]
      BY <2>4 DEF Finish
    <3>2. \A q \in Operations \ {mine[c]} :
            state'[q] = IF q \in expired[c] THEN "EXPIRED" ELSE state[q]
      BY <3>1 DEF Expired
    <3>. QED
      BY <2>2, <3>2 DEF DoneStays, Committed, RetryableStates
  <2>. QED
    BY <1>8, <2>3, <2>4
<1>9. ASSUME NEW o \in Operations, Expire(o)
      PROVE  DoneStays
  BY <1>9, ExpiredIsRetryable DEF Expire
<1>10. ASSUME NEW o \in Operations, Settle(o)
       PROVE  DoneStays
  <2>1. PICK t \in TransitionIds : /\ TRANSITIONS[t].from = state[o]
                                   /\ state' = [state EXCEPT ![o] = TRANSITIONS[t].to]
    BY <1>10 DEF Settle, ValidTransition
  <2>2. state[o] \notin RetryableStates
    BY <2>1 DEF TransitionIds, TRANSITIONS, Edge, RetryableStates, NoState
  <2>. QED
    BY <2>1, <2>2 DEF DoneStays, Committed, TypeOK
<1>11. ASSUME NEW o \in Operations, DeadlinePasses(o)
       PROVE  DoneStays
  BY <1>1, <1>11 DEF DeadlinePasses
<1>12. Age \/ UNCHANGED vars => DoneStays
  BY <1>1 DEF Age, vars
<1>. QED
  BY <1>1, <1>4, <1>5, <1>6, <1>7, <1>8, <1>9, <1>10, <1>11, <1>12 DEF Next, Call

LEMMA NextIsThere ==
  ASSUME IInv, [Next]_vars, \A c \in Callers : ~Insert(c)
  PROVE  RowsWereThere
<1>. USE DEF IInv
<1>1. ASSUME UNCHANGED rowVars
      PROVE  RowsWereThere
  BY <1>1 DEF rowVars, RowsWereThere
<1>2. ASSUME NEW gone \in SUBSET Callers, Settling(gone)
      PROVE  RowsWereThere
  BY <1>2 DEF Settling, RowsWereThere
<1>3. ASSUME NEW c \in Callers, RefuseRetry(c) \/ Finish(c)
      PROVE  RowsWereThere
  BY <1>2, <1>3, RefuseRetrySettles, FinishSettles
<1>4. ASSUME NEW c \in Callers, NEW p, NEW k,
             \/ \E a \in Arguments : BeginPrepare(c, p, k, a)
             \/ \E o \in Operations : BeginRetry(c, p, k, o)
      PROVE  UNCHANGED rowVars
  BY <1>4 DEF BeginPrepare, BeginRetry
<1>5. ASSUME NEW c \in Callers, LookUp(c) \/ LoseInsert(c) \/ CheckLimit(c) \/ ExpireParent(c)
      PROVE  RowsWereThere
  <2>1. CASE UNCHANGED rowVars
    BY <1>1, <2>1
  <2>2. ASSUME Refuse(c), pc[c] \in {"limit", "lookup"}
        PROVE  RowsWereThere
    BY <1>2, <2>2, RefuseSettles
  <2>3. ASSUME NEW o \in FoundByKey(c), pc[c] \in {"lookup", "insert"},
               NEW kept, kept = {} \/ kept = expired[c], ReplayOf(c, o, kept)
        PROVE  RowsWereThere
    <3>1. o \in Operations
      BY DEF FoundByKey, Committed
    <3>. QED
      BY <1>2, <2>3, <3>1, ReplaySettles
  <2>. QED
    BY <1>5, <2>1, <2>2, <2>3 DEF LookUp, LoseInsert, CheckLimit, ExpireParent
<1>6. ASSUME NEW c \in Callers, Abort(c)
      PROVE  RowsWereThere
  BY <1>6 DEF Abort, RowsWereThere, TypeOK
<1>7. ASSUME NEW o \in Operations, Settle(o) \/ Expire(o)
      PROVE  RowsWereThere
  BY <1>2, <1>7, OthersSettle
<1>8. ASSUME NEW o \in Operations, DeadlinePasses(o)
      PROVE  RowsWereThere
  BY <1>1, <1>8 DEF DeadlinePasses
<1>9. Age \/ UNCHANGED vars => RowsWereThere
  BY <1>1 DEF Age, vars
<1>. QED
  BY <1>1, <1>3, <1>4, <1>5, <1>6, <1>7, <1>8, <1>9 DEF Next, Call

\* The line of a committed operation, and of a row that stays, does not change.
LEMMA AncestorsStay ==
  ASSUME IInv, RetryInv, CommittedStay, NEW o \in Operations, state[o] # NoState,
         parent'[o] = parent[o]
  PROVE  Ancestors(o)' = Ancestors(o)
<1>1. \A x \in Committed \union {o} : parent[x] \in Committed \union {NoParent}
  BY DEF RetryInv, IsRetryOfDone, Committed
<1>2. \A x \in Committed \union {o} : parent'[x] = parent[x]
  BY DEF CommittedStay
<1>3. Committed \in SUBSET Operations
  BY DEF Committed
<1>4. Line(parent', o) = Line(parent, o)
  BY <1>1, <1>2, <1>3, LineStays
<1>5. Ancestors(o)' = Line(parent', o) /\ Ancestors(o) = Line(parent, o)
  BY DEF Ancestors, Line
<1>. QED
  BY <1>4, <1>5

\* What a call has read of a parent holds while others move.
LEMMA ReadParentStays ==
  ASSUME IInv, RetryInv, CommittedStay, DoneStays, NEW c \in Callers, Retries(c),
         ask'[c] = ask[c], expired'[c] = expired[c], pc'[c] = "expire" <=> pc[c] = "expire"
  PROVE  ReadParent(c)'
<1>. DEFINE p == ask[c].parent
<1>1. ReadParent(c) /\ p \in Committed
  BY DEF RetryInv, ReadParent
<1>2. p \in Committed' /\ arguments'[p] = arguments[p]
  BY <1>1 DEF CommittedStay
<1>3. ~ChainTooDeep(p) => ~(Cardinality(Ancestors(p)') >= MAX_RETRY_CHAIN_DEPTH)
  <2>1. p \in Operations /\ state[p] # NoState /\ parent'[p] = parent[p]
    BY <1>1 DEF Committed, CommittedStay
  <2>2. Ancestors(p)' = Ancestors(p)
    BY <2>1, AncestorsStay
  <2>. QED
    BY <2>2 DEF ChainTooDeep
<1>4. state[p] \in RetryableStates => state'[p] \in RetryableStates
  BY <1>1 DEF DoneStays
<1>. QED
  BY <1>1, <1>2, <1>3, <1>4 DEF ReadParent, ChainTooDeep

\* What each step does to what its call has read.
LEMMA NextReadsParent ==
  ASSUME IInv, RetryInv, CommittedStay, DoneStays, [Next]_vars, NEW d \in Callers
  PROVE  Retries(d)' => ReadParent(d)'
<1>. USE DEF IInv
<1>1. ASSUME SameRegisters(d)
      PROVE  Retries(d)' => ReadParent(d)'
  BY <1>1, ReadParentStays DEF SameRegisters, Retries
<1>2. ASSUME NEW c \in Callers, Return(c)
      PROVE  Retries(d)' => ReadParent(d)'
  BY <1>1, <1>2, ReturnRegisters DEF Returned, Retries
<1>3. ASSUME NEW c \in Callers, NEW p, NEW k, NEW a, BeginPrepare(c, p, k, a)
      PROVE  Retries(d)' => ReadParent(d)'
  <2>1. CASE d = c
    BY <1>3, <2>1 DEF BeginPrepare, TypeOK, Retries
  <2>2. CASE d # c
    BY <1>1, <1>3, <2>2 DEF BeginPrepare, TypeOK, SameRegisters
  <2>. QED
    BY <2>1, <2>2
<1>4. ASSUME NEW c \in Callers, NEW p, NEW k, NEW o \in Operations, BeginRetry(c, p, k, o)
      PROVE  Retries(d)' => ReadParent(d)'
  <2>1. CASE d = c
    <3>1. /\ ask'[c].parent = o /\ ask'[c].arguments = arguments[o]
          /\ pc'[c] = IF o \in overdue THEN "expire" ELSE "limit"
          /\ UNCHANGED <<rowVars, expired>>
      BY <1>4 DEF BeginRetry, TypeOK
    <3>2. o \in Committed /\ (o \in overdue \/ RetryApplies(o, state[o]))
      BY <1>4 DEF BeginRetry
    <3>3. Committed' = Committed /\ Ancestors(o)' = Ancestors(o)
      BY <3>1 DEF rowVars, Committed, Ancestors
    <3>4. arguments' = arguments /\ state' = state
      BY <3>1 DEF rowVars
    <3>. QED
      BY <2>1, <3>1, <3>2, <3>3, <3>4 DEF ReadParent, RetryApplies, ChainTooDeep
  <2>2. CASE d # c
    BY <1>1, <1>4, <2>2 DEF BeginRetry, TypeOK, SameRegisters
  <2>. QED
    BY <2>1, <2>2
<1>5. ASSUME NEW c \in Callers, ExpireParent(c)
      PROVE  Retries(d)' => ReadParent(d)'
  <2>1. CASE d = c
    <3>. SUFFICES ASSUME Retries(c)' PROVE ReadParent(c)'
      BY <2>1
    <3>. DEFINE p == ask[c].parent
    <3>1. ask[c] \in Asks
      BY <1>5 DEF ExpireParent, CallsInv, CallInv
    <3>2. /\ pc[c] = "expire" /\ pc'[c] = "limit" /\ expired'[c] = Matched(c)
          /\ ask'[c] = [ask[c] EXCEPT !.observed = "EXPIRED",
                             !.lost = Matched(c) = {} /\ state[p] \notin RetryableStates]
          /\ UNCHANGED rowVars /\ RetryApplies(p, "EXPIRED")
      BY <1>5 DEF ExpireParent, TypeOK
    <3>3. /\ ask'[c].parent = p /\ ask'[c].arguments = ask[c].arguments
          /\ ask'[c].lost <=> (Matched(c) = {} /\ state[p] \notin RetryableStates)
      BY <3>1, <3>2 DEF Asks
    <3>4. ReadParent(c)
      BY <3>2, <3>3 DEF Retries, RetryInv
    <3>5. p \in Matched(c) \/ Matched(c) = {}
      BY DEF Matched
    <3>6. Committed' = Committed /\ Ancestors(p)' = Ancestors(p)
      BY <3>2 DEF rowVars, Committed, Ancestors
    <3>7. arguments' = arguments /\ state' = state
      BY <3>2 DEF rowVars
    <3>. QED
      BY <3>2, <3>3, <3>4, <3>5, <3>6, <3>7 DEF ReadParent, RetryApplies, ChainTooDeep
  <2>2. CASE d # c
    BY <1>1, <1>5, <2>2 DEF ExpireParent, TypeOK, SameRegisters
  <2>. QED
    BY <2>1, <2>2
<1>6. ASSUME NEW c \in Callers, NEW next \in {"lookup", "insert", "preflight"},
             pc[c] \in {"limit", "lookup", "insert"}, pc' = [pc EXCEPT ![c] = next],
             UNCHANGED <<ask, expired>>
      PROVE  Retries(d)' => ReadParent(d)'
  <2>. SUFFICES ASSUME Retries(d)' PROVE ReadParent(d)'
    OBVIOUS
  <2>1. Retries(d) /\ (pc'[d] = "expire" <=> pc[d] = "expire")
    BY <1>6 DEF Retries, TypeOK
  <2>. QED
    BY <1>6, <2>1, ReadParentStays
<1>7. ASSUME NEW c \in Callers, LookUp(c) \/ LoseInsert(c) \/ CheckLimit(c) \/ Insert(c)
      PROVE  Retries(d)' => ReadParent(d)'
  BY <1>2, <1>6, <1>7 DEF LookUp, LoseInsert, CheckLimit, Insert, GoOn, Refuse, ReplayOf
<1>8. ASSUME NEW c \in Callers, RefuseRetry(c) \/ Finish(c) \/ Abort(c)
      PROVE  Return(c)
  BY <1>8 DEF RefuseRetry, Finish, Abort
<1>9. ASSUME \/ Age \/ UNCHANGED vars
             \/ \E o \in Operations : Settle(o) \/ Expire(o) \/ DeadlinePasses(o)
      PROVE  SameRegisters(d)
  BY <1>9 DEF Age, vars, Settle, Expire, DeadlinePasses, SameRegisters
<1>. QED
  BY <1>1, <1>2, <1>3, <1>4, <1>5, <1>7, <1>8, <1>9 DEF Next, Call

\* A row that stays is a retry as before; when its call commits it, its parent is done.
LEMMA RowsStayRetries ==
  ASSUME IInv, RetryInv, [Next]_vars, CommittedStay, DoneStays, RowsWereThere,
         NEW o \in Operations, state'[o] # NoState, parent'[o] # NoParent
  PROVE  IsRetryOfDone(o)'
<1>. DEFINE p == parent[o]
<1>1. state[o] # NoState /\ parent'[o] = p /\ arguments'[o] = arguments[o]
  BY DEF RowsWereThere
<1>2. /\ p \in Committed /\ arguments[o] = arguments[p]
      /\ Cardinality(Ancestors(o)) <= MAX_RETRY_CHAIN_DEPTH
      /\ o \in Committed => o \in overtaken \/ state[p] \in RetryableStates
      /\ o \in overtaken => o \in overtaken'
  BY <1>1 DEF RetryInv, IsRetryOfDone, RowsWereThere
<1>3. p \in Committed' /\ arguments'[p] = arguments[p]
  BY <1>2 DEF CommittedStay
<1>4. Ancestors(o)' = Ancestors(o)
  BY <1>1, AncestorsStay
<1>5. o \in Committed' => o \in overtaken' \/ state'[p] \in RetryableStates
  <2>1. CASE o \in Committed
    BY <1>2, <2>1 DEF DoneStays
  <2>2. CASE o \notin Committed /\ o \in Committed'
    <3>1. PICK c \in Callers : Finish(c)
      BY <2>2, NextCommits
    <3>2. Settling({c}) /\ {c} \in SUBSET Callers
      BY <3>1, FinishSettles
    <3>3. o = mine[c]
      BY <2>2, <3>2, SettlingCommits
    <3>4. parent[o] = ask[c].parent /\ pc[c] = "preflight"
      BY <3>1, <3>3 DEF Finish, IInv, CallsInv, CallInv, InsertedIsMine, Operations, NoParent
    <3>5. p \in expired[c] \/ state[p] \in RetryableStates \/ o \in overtaken
      <4>1. p \in expired[c] \/ state[p] \in RetryableStates \/ ask[c].lost
        BY <1>1, <3>4 DEF RetryInv, Retries, ReadParent
      <4>2. ask[c].lost => o \in overtaken
        BY <3>3 DEF RetryInv, LossIsKnown, Operations, NoParent
      <4>. QED
        BY <4>1, <4>2
    <3>6. PICK t : state' = [Expired(expired[c]) EXCEPT ![o] = TRANSITIONS[t].to]
      BY <3>1, <3>3 DEF Finish
    <3>7. p \in expired[c] => state'[p] = "EXPIRED"
      BY <1>2, <2>2, <3>6 DEF Expired, Committed
    <3>. QED
      BY <1>2, <3>5, <3>7 DEF DoneStays, RetryableStates
  <2>. QED
    BY <2>1, <2>2
<1>. HIDE DEF p
<1>6. parent'[o] \in Committed' /\ arguments'[o] = arguments'[parent'[o]]
  BY <1>1, <1>2, <1>3
<1>7. o \in Committed' => o \in overtaken' \/ state'[parent'[o]] \in RetryableStates
  BY <1>1, <1>5
<1>. QED
  BY <1>2, <1>4, <1>6, <1>7 DEF IsRetryOfDone

\* The insert adds a retry whose parent's chain was not too deep.
LEMMA InsertedIsRetry ==
  ASSUME IInv, RetryInv, [Next]_vars, CommittedStay, NEW c \in Callers, Insert(c),
         NEW o \in Operations, state'[o] # NoState, parent'[o] # NoParent
  PROVE  IsRetryOfDone(o)'
<1>1. PICK h \in Operations : h = Handle
  BY DEF Insert
<1>2. state[h] = NoState
  BY <1>1, HandleIsFresh DEF IInv
<1>3. /\ state'[h] = "PREPARING" /\ parent'[h] = ask[c].parent /\ arguments'[h] = ask[c].arguments
      /\ \A q \in Operations \ {h} : /\ state'[q] = state[q] /\ parent'[q] = parent[q]
                                     /\ arguments'[q] = arguments[q]
      /\ overtaken \subseteq overtaken'
  BY <1>1 DEF Insert, IInv, TypeOK
<1>4. Committed' = Committed
  BY <1>2, <1>3 DEF Committed
<1>5. CASE o = h
  <2>1. Retries(c) /\ pc[c] = "insert"
    BY <1>3, <1>5 DEF Insert, Retries
  <2>2. PICK p \in Committed : /\ p = ask[c].parent /\ arguments[p] = ask[c].arguments
                              /\ ~ChainTooDeep(p)
    BY <2>1 DEF RetryInv, ReadParent
  <2>3. p \in Operations /\ state[p] # NoState /\ parent'[p] = parent[p]
        /\ arguments'[p] = arguments[p]
    BY <2>2 DEF Committed, CommittedStay
  <2>4. Ancestors(p)' = Ancestors(p)
    BY <2>3, AncestorsStay
  <2>5. Ancestors(p)' = Line(parent', p) /\ Ancestors(o)' = Line(parent', o)
    BY DEF Ancestors, Line
  <2>6. parent'[o] = p /\ arguments'[o] = arguments'[p]
    BY <1>3, <1>5, <2>2, <2>3
  <2>7. ~(Cardinality(Line(parent', p)) >= MAX_RETRY_CHAIN_DEPTH)
    BY <2>2, <2>4, <2>5 DEF ChainTooDeep
  <2>8. Cardinality(Line(parent', o)) <= MAX_RETRY_CHAIN_DEPTH
    BY <2>3, <2>6, <2>7, LengthOfRetry
  <2>9. o \notin Committed'
    BY <1>2, <1>4, <1>5 DEF Committed
  <2>. QED
    BY <1>4, <2>2, <2>5, <2>6, <2>8, <2>9 DEF IsRetryOfDone
<1>6. CASE o # h
  <2>. DEFINE p == parent[o]
  <2>1. state[o] # NoState /\ parent'[o] = p /\ arguments'[o] = arguments[o]
    BY <1>3, <1>6
  <2>2. IsRetryOfDone(o)
    BY <2>1 DEF RetryInv
  <2>3. p \in Committed /\ p \in Operations \ {h}
    BY <1>2, <2>2 DEF IsRetryOfDone, Committed
  <2>4. Ancestors(o)' = Ancestors(o)
    BY <2>1, AncestorsStay
  <2>5. state'[p] = state[p] /\ arguments'[p] = arguments[p]
    BY <1>3, <2>3
  <2>. QED
    BY <1>3, <1>4, <2>1, <2>2, <2>3, <2>4, <2>5 DEF IsRetryOfDone
<1>. QED
  BY <1>5, <1>6

\* What a call inserts after it has lost the race is known, whatever follows.
LEMMA NextKnowsLosses ==
  ASSUME IInv, RetryInv, [Next]_vars, NEW d \in Callers
  PROVE  LossIsKnown(d)'
<1>. USE DEF IInv
<1>1. ASSUME mine'[d] = mine[d], ask'[d] = ask[d],
             mine[d] # NoParent => (mine[d] \in overtaken => mine[d] \in overtaken')
      PROVE  LossIsKnown(d)'
  BY <1>1 DEF RetryInv, LossIsKnown
<1>2. ASSUME mine'[d] = NoParent
      PROVE  LossIsKnown(d)'
  BY <1>2 DEF LossIsKnown
<1>3. ASSUME NEW c \in Callers, Return(c), UNCHANGED overtaken \/ overtaken' = overtaken \ {mine[c]}
      PROVE  LossIsKnown(d)'
  <2>1. Returned(c) /\ \A e \in Callers \ {c} : SameRegisters(e)
    BY <1>3, ReturnRegisters
  <2>2. d # c => (mine[d] # NoParent => mine[d] # mine[c])
    BY DEF RowsInv, Apart
  <2>. QED
    BY <1>1, <1>2, <1>3, <2>1, <2>2 DEF Returned, SameRegisters
<1>4. ASSUME NEW c \in Callers, pc[c] # "preflight", UNCHANGED <<mine, overtaken>>,
             \A e \in Callers \ {c} : ask'[e] = ask[e]
      PROVE  LossIsKnown(d)'
  <2>1. mine[c] = NoParent
    BY <1>4 DEF CallsInv, CallInv, InsertedIsMine
  <2>. QED
    BY <1>1, <1>2, <1>4, <2>1
<1>5. ASSUME NEW c \in Callers, NEW p, NEW k,
             \/ \E a \in Arguments : BeginPrepare(c, p, k, a)
             \/ \E o \in Operations : BeginRetry(c, p, k, o)
      PROVE  LossIsKnown(d)'
  BY <1>4, <1>5 DEF BeginPrepare, BeginRetry, rowVars, TypeOK
<1>6. ASSUME NEW c \in Callers, ExpireParent(c)
      PROVE  LossIsKnown(d)'
  BY <1>4, <1>6 DEF ExpireParent, rowVars, TypeOK
<1>7. ASSUME NEW c \in Callers, LookUp(c) \/ LoseInsert(c) \/ CheckLimit(c)
      PROVE  LossIsKnown(d)'
  BY <1>1, <1>3, <1>7 DEF LookUp, LoseInsert, CheckLimit, GoOn, Refuse, ReplayOf, rowVars
<1>8. ASSUME NEW c \in Callers, Insert(c)
      PROVE  LossIsKnown(d)'
  <2>1. PICK o \in Operations : o = Handle
    BY <1>8 DEF Insert
  <2>2. /\ mine' = [mine EXCEPT ![c] = o] /\ ask' = ask
        /\ overtaken' = IF ask[c].lost THEN overtaken \union {o} ELSE overtaken
    BY <1>8, <2>1 DEF Insert
  <2>3. CASE d = c
    BY <2>2, <2>3 DEF LossIsKnown, TypeOK
  <2>4. CASE d # c
    BY <1>1, <2>2, <2>4 DEF TypeOK
  <2>. QED
    BY <2>3, <2>4
<1>9. ASSUME NEW c \in Callers, RefuseRetry(c) \/ Finish(c) \/ Abort(c)
      PROVE  LossIsKnown(d)'
  BY <1>3, <1>9 DEF RefuseRetry, Finish, Abort
<1>10. ASSUME \/ Age \/ UNCHANGED vars
              \/ \E o \in Operations : Settle(o) \/ Expire(o) \/ DeadlinePasses(o)
       PROVE  LossIsKnown(d)'
  BY <1>1, <1>10 DEF Age, vars, rowVars, Settle, Expire, DeadlinePasses
<1>. QED
  BY <1>5, <1>6, <1>7, <1>8, <1>9, <1>10 DEF Next, Call

LEMMA NextKeepsRetries ==
  ASSUME IInv, RetryInv, [Next]_vars
  PROVE  RetryInv'
<1>1. CommittedStay /\ DoneStays
  BY NextCommits, NextIsDone
<1>2. \A c \in Callers : (Retries(c)' => ReadParent(c)') /\ LossIsKnown(c)'
  BY <1>1, NextReadsParent, NextKnowsLosses
<1>3. ASSUME NEW o \in Operations, state'[o] # NoState, parent'[o] # NoParent
      PROVE  IsRetryOfDone(o)'
  BY <1>1, <1>3, NextIsThere, RowsStayRetries, InsertedIsRetry
<1>. QED
  BY <1>2, <1>3 DEF RetryInv

\* A retry is of an operation that ended without its effect, with its arguments and a
\* chain no deeper than MAX_RETRY_CHAIN_DEPTH, whoever else moves the parent (AC-50):
\* all but the retries whose call lost the expiry of their parent to a transaction that
\* moved the parent on, and no other.
THEOREM RetriesAreOfFinishedParents == Spec => []RetryHasFinishedParent
<1>1. Init => RetryInv
  BY DEF Init, RetryInv, Retries, LossIsKnown, NoState
<1>2. IInv /\ RetryInv /\ [Next]_vars => RetryInv'
  BY NextKeepsRetries
<1>3. RetryInv => RetryHasFinishedParent
  BY DEF RetryInv, IsRetryOfDone, RetryHasFinishedParent, Committed
<1>. QED
  BY <1>1, <1>2, <1>3, Invariance, PTL DEF Spec
=============================================================================
