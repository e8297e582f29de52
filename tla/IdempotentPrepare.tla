-------------------------- MODULE IdempotentPrepare --------------------------
(***************************************************************************)
(* prepare_operation and retry_operation of one workflow: the rate limit,  *)
(* the idempotency key and the chain of retries, under concurrent calls on *)
(* one database.                                                           *)
(*                                                                         *)
(* Both share _prepare_or_retry: count recent operations, look the key up, *)
(* insert a row, ask n8n for a preflight with the row uncommitted, commit. *)
(* Nothing holds between the first three but the unique constraint over    *)
(* (principal, environment, workflow, key).  A retry first reads its       *)
(* parent, whose deadline may have passed, takes its arguments from it and *)
(* folds its id into the key.                                              *)
(***************************************************************************)
EXTENDS StateMachine, FiniteSetsExt

CONSTANTS
  Callers,         \* concurrent calls
  Principals,
  Keys, NoKey,     \* idempotency keys; NoKey: the caller gave none
  Arguments,       \* argument sets, one value per canonical fingerprint
  None,
  RateLimit,       \* limits.rate_limit_per_minute
  MAX_RETRY_CHAIN_DEPTH,
  SingleWriter,    \* TRUE: SQLite, one write transaction; FALSE: PostgreSQL
  Moves,           \* the transitions of the table that an instance lets happen
  MaxOperations    \* bound on the operations there are at one time

ASSUME PrepareAssumption ==
  /\ RateLimit \in Nat /\ MaxOperations \in Nat /\ MAX_RETRY_CHAIN_DEPTH \in Nat \ {0}
  /\ SingleWriter \in BOOLEAN
  /\ NoKey \notin Keys /\ Moves \subseteq TransitionIds
  /\ None \notin Arguments \union Principals
  /\ IsFiniteSet(Callers) /\ Callers # {}

\* Handles are ULIDs, so they are ordered by the time of their minting; 0 is no
\* operation.
Operations == 1 .. MaxOperations
NoParent == 0

\* The stored key: the namespace's principal, and the caller's key with the
\* parent's id folded in.  Environment and workflow are the same for all.
Namespaces == Principals \X (Operations \union {NoParent}) \X Keys

\* None is a value of its own.
ASSUME NoneAssumption ==
  None \notin Nat \union Namespaces \union (Namespaces \X Arguments \X Operations)

VARIABLES
  \* The operations table.  A row that is PREPARING is not committed.
  state, namespace, arguments, parent,
  overtaken, \* history: the retries whose call lost the expiry of their parent to a
             \* transaction that moved the parent on
  overdue,   \* operations whose deadline has passed and has not been applied
  window,    \* operations inserted in the last minute
  \* One call per caller: where it is, what it was asked, the row it inserted,
  \* the operations its transaction has expired.
  pc, ask, mine, expired,
  answer     \* namespace, arguments and operation of the last answer for a key

rowVars == <<state, namespace, arguments, parent, overtaken>>
vars == <<rowVars, overdue, window, pc, ask, mine, expired, answer>>

\* What a call was asked; of a retry, the parent's state as its copy of the row says,
\* and whether the parent had gone on to something else when it was to expire.
Asks == [principal : Principals, key : Keys \union {NoKey},
         arguments : Arguments, parent : Operations \union {NoParent},
         observed : States \union {NoState}, lost : BOOLEAN]

TypeOK ==
  /\ state \in [Operations -> States \union {NoState}]
  /\ namespace \in [Operations -> Namespaces \union {None}]
  /\ arguments \in [Operations -> Arguments \union {None}]
  /\ parent \in [Operations -> Operations \union {NoParent}]
  /\ overtaken \subseteq Operations
  /\ overdue \subseteq Operations
  /\ window \subseteq Operations
  /\ pc \in [Callers -> {"idle", "expire", "limit", "lookup", "insert", "preflight"}]
  /\ ask \in [Callers -> Asks \union {None}]
  /\ mine \in [Callers -> Operations \union {NoParent}]
  /\ expired \in [Callers -> SUBSET Operations]
  /\ answer \in (Namespaces \X Arguments \X Operations) \union {None}

Init ==
  /\ state = [o \in Operations |-> NoState]
  /\ namespace = [o \in Operations |-> None]
  /\ arguments = [o \in Operations |-> None]
  /\ parent = [o \in Operations |-> NoParent]
  /\ overtaken = {}
  /\ overdue = {}
  /\ window = {}
  /\ pc = [c \in Callers |-> "idle"]
  /\ ask = [c \in Callers |-> None]
  /\ mine = [c \in Callers |-> NoParent]
  /\ expired = [c \in Callers |-> {}]
  /\ answer = None

-----------------------------------------------------------------------------
(* Transactions.                                                           *)

Committed == {o \in Operations : state[o] \notin {NoState, "PREPARING"}}

\* SQLite's write lock, from a transaction's first write to its end.
Writing(c) == mine[c] # NoParent \/ expired[c] # {}
MayWrite(c) == SingleWriter => \A d \in Callers \ {c} : ~Writing(d)

\* A row that another transaction has changed cannot be changed before that ends.
MayMove(c, o) == MayWrite(c) /\ \A d \in Callers \ {c} : o \notin expired[d]

Return(c) ==
  /\ pc' = [pc EXCEPT ![c] = "idle"]
  /\ ask' = [ask EXCEPT ![c] = None]
  /\ mine' = [mine EXCEPT ![c] = NoParent]
  /\ expired' = [expired EXCEPT ![c] = {}]

GoOn(c, next) ==
  /\ pc' = [pc EXCEPT ![c] = next]
  /\ UNCHANGED <<ask, mine, expired>>

\* The states once the expiry of `ops` is committed.
Expired(ops) == [o \in Operations |-> IF o \in ops THEN "EXPIRED" ELSE state[o]]

\* A refusal.  The handler answers it inside its session_scope, which commits.
Refuse(c) ==
  /\ state' = Expired(expired[c])
  /\ overdue' = overdue \ expired[c]
  /\ Return(c)
  /\ UNCHANGED <<namespace, arguments, parent, overtaken, window, answer>>

\* Mutant: the parent is not folded into the key of a retry.
Namespace_Unscoped(c) ==
  IF ask[c].key = NoKey THEN None ELSE <<ask[c].principal, ask[c].key>>

Namespace(c) ==
  IF ask[c].key = NoKey THEN None
  ELSE <<ask[c].principal, ask[c].parent, ask[c].key>>

Answer(c, o) ==
  IF Namespace(c) = None THEN None ELSE <<Namespace(c), ask[c].arguments, o>>

\* find_by_idempotency sees what is committed.
FoundByKey(c) ==
  IF Namespace(c) = None THEN {} ELSE {o \in Committed : namespace[o] = Namespace(c)}

-----------------------------------------------------------------------------
(* The rate limit.                                                         *)

Recent == window \intersect Committed

\* Mutant: one operation more than the limit.
LimitReached_OffByOne == Cardinality(Recent) > RateLimit

LimitReached == Cardinality(Recent) >= RateLimit

\* What a prepare reads first is the limit; its refusal would change nothing.
BeginPrepare(c, principal, key, args) ==
  /\ pc[c] = "idle"
  /\ ~LimitReached
  /\ ask' = [ask EXCEPT ![c] = [principal |-> principal, key |-> key,
                                arguments |-> args, parent |-> NoParent,
                                observed |-> NoState, lost |-> FALSE]]
  /\ pc' = [pc EXCEPT ![c] = "lookup"]
  /\ answer' = None
  /\ UNCHANGED <<rowVars, overdue, window, mine, expired>>

-----------------------------------------------------------------------------
(* The parent of a retry.                                                  *)

RetryableStates == {"FAILED", "UNKNOWN", "BLOCKED", "EXPIRED", "REJECTED"}

\* The parent of an operation, its parent's parent and so on: the least set that
\* has the parent of the operation and of each of its members.
Ancestors(o) ==
  {q \in Operations : \A line \in SUBSET Operations :
     (\A x \in line \union {o} : parent[x] \in line \union {NoParent}) => q \in line}

ChainTooDeep(p) == Cardinality(Ancestors(p)) >= MAX_RETRY_CHAIN_DEPTH

\* Mutant: whatever has left PREPARING may be retried.
RetryApplies_Anything(p, observed) == ~ChainTooDeep(p)

\* retry_operation's checks, on the parent's state as this call sees it.
RetryApplies(p, observed) == observed \in RetryableStates /\ ~ChainTooDeep(p)

\* The parent is read; when it is overdue its expiry comes first, in this transaction.
BeginRetry(c, principal, key, p) ==
  /\ pc[c] = "idle"
  /\ p \in Committed
  /\ p \in overdue \/ RetryApplies(p, state[p])
  /\ ask' = [ask EXCEPT ![c] = [principal |-> principal, key |-> key,
                                arguments |-> arguments[p], parent |-> p,
                                observed |-> state[p], lost |-> FALSE]]
  /\ pc' = [pc EXCEPT ![c] = IF p \in overdue THEN "expire" ELSE "limit"]
  /\ answer' = None
  /\ UNCHANGED <<rowVars, overdue, window, mine, expired>>

\* The UPDATE of _apply_lazy_expiry compares the version, which moves with the state:
\* it matches the parent while its state is the one that the call read.
Matched(c) == {ask[c].parent} \intersect {o \in overdue : state[o] = ask[c].observed}

\* _apply_lazy_expiry of the parent.  The UPDATE leaves EXPIRED in the ORM's copy of
\* the row even when it matched nothing because the row had moved, so either way the
\* call goes on with an expired parent.
ExpireParent(c) ==
  LET p == ask[c].parent
  IN /\ pc[c] = "expire"
     /\ MayMove(c, p)
     /\ RetryApplies(p, "EXPIRED")
     /\ expired' = [expired EXCEPT ![c] = Matched(c)]
     /\ ask' = [ask EXCEPT ![c].observed = "EXPIRED",
                           ![c].lost = Matched(c) = {} /\ state[p] \notin RetryableStates]
     /\ pc' = [pc EXCEPT ![c] = "limit"]
     /\ UNCHANGED <<rowVars, overdue, window, mine, answer>>

\* RETRY_NOT_APPLICABLE for the depth of the chain.  The handler commits the expiry.
RefuseRetry(c) ==
  LET p == ask[c].parent
  IN /\ pc[c] = "expire"
     /\ MayMove(c, p)
     /\ ~RetryApplies(p, "EXPIRED")
     /\ state' = Expired(Matched(c))
     /\ overdue' = overdue \ Matched(c)
     /\ Return(c)
     /\ UNCHANGED <<namespace, arguments, parent, overtaken, window, answer>>

-----------------------------------------------------------------------------
(* _prepare_or_retry.                                                      *)

\* The limit of a retry.  (Arguments that are too large are refused here, in both
\* tools, in the same way.)
CheckLimit(c) ==
  /\ pc[c] = "limit"
  /\ \/ /\ ~LimitReached
        /\ GoOn(c, "lookup")
        /\ UNCHANGED <<rowVars, overdue, window, answer>>
     \/ LimitReached /\ Refuse(c)

\* The answer is an operation that is there, expired first when it is overdue.  The
\* IntegrityError path comes here after a rollback, which `kept` says.
ReplayOf(c, o, kept) ==
  /\ o \in overdue => MayMove(c, o)
  /\ state' = Expired(({o} \intersect overdue) \union kept)
  /\ overdue' = overdue \ ({o} \union kept)
  /\ answer' = Answer(c, o)
  /\ Return(c)
  /\ UNCHANGED <<namespace, arguments, parent, overtaken, window>>

\* resolve_idempotency: NEW, REPLAY (an overdue operation expires first) or
\* IDEMPOTENCY_CONFLICT.
LookUp(c) ==
  /\ pc[c] = "lookup"
  /\ \/ /\ FoundByKey(c) = {}
        /\ GoOn(c, "insert")
        /\ UNCHANGED <<rowVars, overdue, window, answer>>
     \/ \E o \in FoundByKey(c) :
          /\ arguments[o] = ask[c].arguments
          /\ ReplayOf(c, o, expired[c])
     \/ \E o \in FoundByKey(c) : arguments[o] # ask[c].arguments /\ Refuse(c)

\* Mutant: no unique constraint.
KeyIsTaken_Never(c) == FALSE

\* Two rows with one key cannot both be there: an INSERT waits for the transaction
\* that holds an uncommitted one (on SQLite for any writer), and fails if it commits.
KeyIsTaken(c) == FoundByKey(c) # {}

KeyIsPending(c) ==
  /\ Namespace(c) # None
  /\ \E d \in Callers \ {c} : mine[d] # NoParent /\ namespace[mine[d]] = Namespace(c)

\* A new handle is younger than every other.
Handle == 1 + Max({NoParent} \union {o \in Operations : state[o] # NoState})

\* T01, not committed.
Insert(c) ==
  LET o == Handle
  IN /\ pc[c] = "insert"
     /\ MayWrite(c) /\ ~KeyIsPending(c) /\ ~KeyIsTaken(c)
     /\ o \in Operations
     /\ state' = [state EXCEPT ![o] = "PREPARING"]
     /\ namespace' = [namespace EXCEPT ![o] = Namespace(c)]
     /\ arguments' = [arguments EXCEPT ![o] = ask[c].arguments]
     /\ parent' = [parent EXCEPT ![o] = ask[c].parent]
     /\ overtaken' = IF ask[c].lost THEN overtaken \union {o} ELSE overtaken
     /\ window' = window \union {o}
     /\ mine' = [mine EXCEPT ![c] = o]
     /\ pc' = [pc EXCEPT ![c] = "preflight"]
     /\ UNCHANGED <<overdue, ask, expired, answer>>

\* The IntegrityError path: roll back, look the key up again and replay what won.
LoseInsert(c) ==
  /\ pc[c] = "insert"
  /\ MayWrite(c) /\ ~KeyIsPending(c)
  /\ \E o \in FoundByKey(c) : ReplayOf(c, o, {})

\* T02 to T05, by what validation and preflight say, and the commit.
Finish(c) ==
  /\ pc[c] = "preflight"
  /\ \E t \in Moves \intersect {"T02", "T03", "T04", "T05"} :
       state' = [Expired(expired[c]) EXCEPT ![mine[c]] = TRANSITIONS[t].to]
  /\ overdue' = overdue \ expired[c]
  /\ answer' = Answer(c, mine[c])
  /\ Return(c)
  /\ UNCHANGED <<namespace, arguments, parent, overtaken, window>>

\* A crash, or an error that is not the service's own: the transaction is lost.
Abort(c) ==
  /\ pc[c] # "idle"
  /\ state' = [o \in Operations |-> IF o = mine[c] THEN NoState ELSE state[o]]
  /\ namespace' = [o \in Operations |-> IF o = mine[c] THEN None ELSE namespace[o]]
  /\ arguments' = [o \in Operations |-> IF o = mine[c] THEN None ELSE arguments[o]]
  /\ parent' = [o \in Operations |-> IF o = mine[c] THEN NoParent ELSE parent[o]]
  /\ overtaken' = overtaken \ {mine[c]}
  /\ window' = window \ {mine[c]}
  /\ Return(c)
  /\ UNCHANGED <<overdue, answer>>

-----------------------------------------------------------------------------
(* What others do to the operations meanwhile (module OperationLifecycle).  *)

Others(o) == \A c \in Callers : o \notin expired[c] /\ (SingleWriter => ~Writing(c))

\* Decisions, cancellation, T10 and what follows it.  They compare the version and not
\* the deadline, so a call that read an operation in time may move it when it is overdue.
Settle(o) ==
  /\ o \in Committed /\ Others(o)
  /\ \E t \in Moves \ {"T08", "T11"} :
       /\ ValidTransition(t, state[o])
       /\ state' = [state EXCEPT ![o] = TRANSITIONS[t].to]
  /\ overdue' = overdue \ {o}
  /\ UNCHANGED <<namespace, arguments, parent, overtaken, window>>
  /\ UNCHANGED <<pc, ask, mine, expired, answer>>

\* A read or the sweep applies the deadline, in a transaction of its own; so does the
\* look that retry_operation's handler takes at the parent before it calls the service.
Expire(o) ==
  /\ o \in overdue /\ Others(o)
  /\ state' = Expired({o})
  /\ overdue' = overdue \ {o}
  /\ UNCHANGED <<namespace, arguments, parent, overtaken, window>>
  /\ UNCHANGED <<pc, ask, mine, expired, answer>>

DeadlinePasses(o) ==
  /\ state[o] \in {"PENDING_APPROVAL", "APPROVED"}
  /\ o \notin overdue
  /\ overdue' = overdue \union {o}
  /\ UNCHANGED <<rowVars, window, pc, ask, mine, expired, answer>>

\* A minute has passed since the oldest of the window was created.
Age ==
  /\ window # {}
  /\ window' = window \ {Min(window)}
  /\ UNCHANGED <<rowVars, overdue, pc, ask, mine, expired, answer>>

-----------------------------------------------------------------------------
Call(c) ==
  \/ \E p \in Principals, k \in Keys \union {NoKey} :
       \/ \E a \in Arguments : BeginPrepare(c, p, k, a)
       \/ \E o \in Operations : BeginRetry(c, p, k, o)
  \/ ExpireParent(c) \/ RefuseRetry(c)
  \/ CheckLimit(c) \/ LookUp(c)
  \/ Insert(c) \/ LoseInsert(c) \/ Finish(c) \/ Abort(c)

Next ==
  \/ \E c \in Callers : Call(c)
  \/ \E o \in Operations : Settle(o) \/ Expire(o) \/ DeadlinePasses(o)
  \/ Age

Spec == Init /\ [][Next]_vars

-----------------------------------------------------------------------------
(* Properties.                                                             *)

\* A key names one operation in its namespace, whoever races, and every answer for
\* it names that one: the unique constraint, the lookup and the IntegrityError path of
\* _prepare_or_retry together implement KeyedOperations.
Bound == [n \in Namespaces |->
            IF \E o \in Committed : namespace[o] = n
            THEN CHOOSE o \in Committed : namespace[o] = n ELSE None]

Keyed == INSTANCE KeyedOperations WITH
           bound <- Bound,
           answer <- IF answer = None THEN None ELSE <<answer[1], answer[3]>>

ImplementsKeyedOperations == Keyed!Spec

\* Whoever decides, starts, ends or expires the parent while a retry of it is under way,
\* the parent of a committed retry is in a state from which nothing runs (AC-50), with
\* one exception: a retry whose call found the parent overdue and lost its expiry to a
\* transaction that had moved the parent on to what may not be retried.  A retry has its
\* parent's arguments, and its chain is not deeper than the limit.
RetryHasFinishedParent ==
  \A o \in Committed : parent[o] # NoParent =>
    /\ o \in overtaken \/ state[parent[o]] \in RetryableStates
    /\ arguments[o] = arguments[parent[o]]
    /\ Cardinality(Ancestors(o)) <= MAX_RETRY_CHAIN_DEPTH

\* AC-50 as it is written, with no exception: the parent of a retry is FAILED, UNKNOWN,
\* BLOCKED, EXPIRED or REJECTED.  The code breaks it.
RetryOnlyOfFinished ==
  \A o \in Committed : parent[o] # NoParent => state[parent[o]] \in RetryableStates

\* The limit is read before the insert, so it can be passed, but by no more than the
\* other calls that are under way at the time.
OvershootIsBounded ==
  Cardinality(Recent) < RateLimit + Cardinality(Callers)

\* An idempotent replay answers with an operation that has the arguments the caller
\* asked for (AC-11).
ReplayHasTheArguments ==
  answer # None => arguments[answer[3]] = answer[2]
=============================================================================
