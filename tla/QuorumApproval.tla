---------------------------- MODULE QuorumApproval ----------------------------
(***************************************************************************)
(* The v2 approval quorum of one operation (core/service.py, ADR-017): who *)
(* may decide is frozen when the operation enters PENDING_APPROVAL, every  *)
(* approver has a slot (a row of approvals) minted when it is first routed *)
(* to or when they decide, and T06 takes Quorum approvals.                 *)
(*                                                                         *)
(* A decision is three steps: the human is SHOWN the operation (by the CLI *)
(* prompt or the approval page), the use case OPENS it (reads the row and  *)
(* the approver's slot), it records the vote and TALLIES, and it commits.  *)
(* On PostgreSQL the open locks the operation's row (SELECT FOR UPDATE) to *)
(* the commit; on SQLite it locks nothing, and recording the vote takes    *)
(* the one write lock.  Routing locks neither.                             *)
(***************************************************************************)
EXTENDS StateMachine, FiniteSets

CONSTANTS
  Approvers,      \* principals that hold an approving role at some time
  Requester,      \* the principal that prepared the operation
  Quorum,         \* limits.quorum_count
  Sessions,       \* concurrent calls
  None,
  SingleWriter,   \* TRUE: SQLite; FALSE: PostgreSQL
  MaxSlots        \* bound on the rows of approvals

ASSUME QuorumAssumption ==
  /\ Quorum \in Nat \ {0} /\ MaxSlots \in Nat
  /\ SingleWriter \in BOOLEAN
  /\ None \notin Approvers \union {Requester} \union Sessions
  /\ IsFiniteSet(Approvers)

VARIABLES
  state, version,   \* of the operation's row
  snapshot,         \* approval_policy_snapshot.eligible_approvers
  members,          \* the organization's approvers at present
  overdue,          \* has approval_expires_at passed?
  slots,            \* the rows of approvals: [id, approver, decision]
  lock,             \* the session that holds the operation's row, or on SQLite the write lock
  pc, kind, who,    \* one call per session: where it is, what it does, for whom
  seen, late, mine, \* what it read: version, overdue, ids of the approver's slots
  reached           \* what it tallied: is the quorum there?

rowVars == <<state, version, snapshot, members, overdue, slots>>
callVars == <<pc, kind, who, seen, late, mine, reached>>
vars == <<rowVars, lock, callVars>>

SlotIds == 1 .. MaxSlots
Principals == Approvers \union {Requester}
Slots == [id : SlotIds, approver : Principals, decision : {"none", "approved", "rejected"}]

TypeOK ==
  /\ state \in States \union {NoState}
  /\ version \in Nat
  /\ snapshot \subseteq Approvers
  /\ members \subseteq Principals
  /\ overdue \in BOOLEAN
  /\ slots \subseteq Slots
  /\ lock \in Sessions \union {None}
  /\ pc \in [Sessions -> {"idle", "shown", "open", "tallied", "routing"}]
  /\ kind \in [Sessions -> {"approved", "rejected", "route"}]
  /\ who \in [Sessions -> Principals \union {None}]
  /\ seen \in [Sessions -> Nat]
  /\ late \in [Sessions -> BOOLEAN]
  /\ mine \in [Sessions -> SUBSET SlotIds]
  /\ reached \in [Sessions -> BOOLEAN]

Init ==
  /\ state = NoState
  /\ version = 0
  /\ snapshot = {}
  /\ members \in SUBSET Principals
  /\ overdue = FALSE
  /\ slots = {}
  /\ lock = None
  /\ pc = [s \in Sessions |-> "idle"]
  /\ kind = [s \in Sessions |-> "route"]
  /\ who = [s \in Sessions |-> None]
  /\ seen = [s \in Sessions |-> 0]
  /\ late = [s \in Sessions |-> FALSE]
  /\ mine = [s \in Sessions |-> {}]
  /\ reached = [s \in Sessions |-> FALSE]

-----------------------------------------------------------------------------
(* Helpers.                                                                *)

\* get_by_operation_and_decider, before one_or_none is applied to it.
SlotsOf(a) == {sl.id : sl \in {x \in slots : x.approver = a}}

\* The approvers that have approved (or rejected) among these rows.
Deciders(rows, d) == {sl.approver : sl \in {x \in rows : x.decision = d}}

Registers(s, p, k, a, v, l, m) ==
  /\ pc' = [pc EXCEPT ![s] = p]
  /\ kind' = [kind EXCEPT ![s] = k]
  /\ who' = [who EXCEPT ![s] = a]
  /\ seen' = [seen EXCEPT ![s] = v]
  /\ late' = [late EXCEPT ![s] = l]
  /\ mine' = [mine EXCEPT ![s] = m]
  /\ reached' = [reached EXCEPT ![s] = FALSE]

\* The call returns, and its transaction ends.
Return(s) ==
  /\ Registers(s, "idle", "route", None, 0, FALSE, {})
  /\ lock' = IF lock = s THEN None ELSE lock

MoveTo(t) == state' = TRANSITIONS[t].to /\ version' = version + 1

-----------------------------------------------------------------------------
(* The operation's own life, as far as a decision can meet it.             *)

\* _compute_eligible_approvers: structurally without the requester.
EligibleApprovers == members \ {Requester}

\* prepare_operation up to T04 freezes the policy; in v2 it mints no slot.
Prepare ==
  /\ state = NoState
  /\ state' = TRANSITIONS["T04"].to
  /\ version' = 2
  /\ snapshot' = EligibleApprovers
  /\ UNCHANGED <<members, overdue, slots, lock, callVars>>

\* cancel_operation (T09, T12), which waits for the row lock.
Cancel ==
  /\ state \in {"PENDING_APPROVAL", "APPROVED"}
  /\ lock = None
  /\ MoveTo(IF state = "APPROVED" THEN "T12" ELSE "T09")
  /\ UNCHANGED <<snapshot, members, overdue, slots, lock, callVars>>

\* T08 by a sweep or any other read of the operation.
Expire ==
  /\ state = "PENDING_APPROVAL" /\ overdue
  /\ lock = None
  /\ MoveTo("T08")
  /\ UNCHANGED <<snapshot, members, overdue, slots, lock, callVars>>

DeadlinePasses ==
  /\ state = "PENDING_APPROVAL" /\ ~overdue
  /\ overdue' = TRUE
  /\ UNCHANGED <<state, version, snapshot, members, slots, lock, callVars>>

\* identity commands: a role is granted or a membership removed at any time.
ChangeMembership(a) ==
  /\ members' = IF a \in members THEN members \ {a} ELSE members \union {a}
  /\ UNCHANGED <<state, version, snapshot, overdue, slots, lock, callVars>>

-----------------------------------------------------------------------------
(* request_approval, for one approver.                                     *)

\* The operation is pending, the approver is in the snapshot, has not decided,
\* and the call looks for a slot to reuse.
BeginRoute(s, a) ==
  /\ pc[s] = "idle"
  /\ state = "PENDING_APPROVAL" /\ ~overdue
  /\ a \in snapshot
  /\ a \notin Deciders(slots, "approved") \union Deciders(slots, "rejected")
  /\ Registers(s, "routing", "route", a, version, FALSE, SlotsOf(a))
  /\ UNCHANGED <<rowVars, lock>>

\* It mints the slot it did not find.  More than one is MultipleResultsFound.  The
\* new row's foreign key waits for a row lock on the operation.
Route(s) ==
  /\ pc[s] = "routing"
  /\ \/ /\ mine[s] = {}
        /\ Cardinality(slots) < MaxSlots
        /\ lock = None
        /\ slots' = slots \union
             {[id |-> Cardinality(slots) + 1, approver |-> who[s], decision |-> "none"]}
     \/ mine[s] # {} /\ UNCHANGED slots
  /\ Return(s)
  /\ UNCHANGED <<state, version, snapshot, members, overdue>>

-----------------------------------------------------------------------------
(* approve_operation and reject_operation.                                 *)

\* The CLI shows the operation to its owner and to the present members of the
\* organization; the page shows it to whoever holds the link of an open slot.
Show(s, a, k) ==
  /\ pc[s] = "idle"
  /\ state = "PENDING_APPROVAL" /\ ~overdue
  /\ \/ a \in members \union {Requester}
     \/ \E sl \in slots : sl.approver = a /\ sl.decision = "none"
  /\ Registers(s, "shown", k, a, 0, FALSE, {})
  /\ UNCHANGED <<rowVars, lock>>

\* Mutant: an open that takes no row lock on PostgreSQL either.
OpenLock_Missing(s) == UNCHANGED lock

\* get_operation_row_for_update: a lock on PostgreSQL, nothing on SQLite.
OpenLock(s) ==
  IF SingleWriter THEN UNCHANGED lock ELSE lock = None /\ lock' = s

\* The frozen snapshot decides who may decide, and never the requester.
MayDecide(a) == a # Requester /\ a \in snapshot

\* The read, which does not ask for the state.  An outsider, an approver that has
\* decided and one with two slots (one_or_none raises) are turned away.
Open(s) ==
  /\ pc[s] = "shown"
  /\ LET a == who[s]
         open == {sl \in slots : sl.approver = a /\ sl.decision = "none"} IN
     \/ /\ MayDecide(a)
        /\ SlotsOf(a) = {} \/ (Cardinality(SlotsOf(a)) = 1 /\ open # {})
        /\ OpenLock(s)
        /\ Registers(s, "open", kind[s], a, version, overdue, SlotsOf(a))
     \/ /\ ~MayDecide(a) \/ Cardinality(SlotsOf(a)) > 1 \/ (SlotsOf(a) # {} /\ open = {})
        /\ Return(s)
  /\ UNCHANGED rowVars

\* The approvals after the call has recorded its decision in its own slot, which
\* it mints if it found none.
Recorded(s) ==
  LET id == IF mine[s] = {} THEN Cardinality(slots) + 1 ELSE CHOOSE i \in mine[s] : TRUE IN
  {sl \in slots : sl.id # id}
    \union {[id |-> id, approver |-> who[s], decision |-> kind[s]]}

\* uq_approvals_operation_decided_by: no second decided row of one approver.
Unique(rows) ==
  \A x, y \in rows : x.decision # "none" /\ y.decision # "none" /\ x.approver = y.approver
                     => x = y

\* Mutant: a tally that is satisfied one approval too early.
QuorumReached_OneEarly(s) ==
  Cardinality(Deciders(Recorded(s), "approved")) + 1 >= Quorum

QuorumReached(s) == Cardinality(Deciders(Recorded(s), "approved")) >= Quorum

\* T06 and T07 apply to the row as it was read: pending, in time and unmoved.
Applies(s) == state = "PENDING_APPROVAL" /\ version = seen[s] /\ ~late[s]

\* Mutant: an overdue row expires, whatever has become of it.
LazyExpiry_AnyState(s) == IF late[s] THEN MoveTo("T08") ELSE UNCHANGED <<state, version>>

\* The lazy expiry of the open, where the row was overdue and nobody moved it.
LazyExpiry(s) ==
  IF late[s] /\ state = "PENDING_APPROVAL" /\ version = seen[s]
  THEN MoveTo("T08") ELSE UNCHANGED <<state, version>>

\* record_decision and the tally, which sees what others have committed.
Tally(s) ==
  /\ pc[s] = "open"
  /\ lock \in {s, None}
  /\ lock' = IF SingleWriter THEN s ELSE lock
  /\ pc' = [pc EXCEPT ![s] = "tallied"]
  /\ reached' = [reached EXCEPT ![s] = kind[s] = "approved" /\ QuorumReached(s)]
  /\ UNCHANGED <<rowVars, kind, who, seen, late, mine>>

\* A vote short of the quorum is recorded, whatever the operation's state is.
VoteShort(s) ==
  /\ kind[s] = "approved" /\ ~reached[s]
  /\ slots' = Recorded(s)
  /\ LazyExpiry(s)

\* The vote that settles the operation: T06 with the quorum, T07 by one rejection.
VoteSettles(s) ==
  /\ kind[s] = "approved" => reached[s]
  /\ Applies(s)
  /\ slots' = Recorded(s)
  /\ MoveTo(IF kind[s] = "approved" THEN "T06" ELSE "T07")

\* Mutant: a decision that stays when its transition is refused.
VoteTooLate_Kept(s) ==
  /\ kind[s] = "approved" => reached[s]
  /\ ~Applies(s)
  /\ slots' = Recorded(s)
  /\ UNCHANGED <<state, version>>

\* One that comes too late to settle it raises, and takes the whole transaction
\* back, the recorded decision included.
VoteTooLate(s) ==
  /\ kind[s] = "approved" => reached[s]
  /\ ~Applies(s)
  /\ UNCHANGED <<slots, state, version>>

\* The transition, if the vote calls for one, and the commit.
CommitVote(s) ==
  /\ pc[s] = "tallied"
  /\ \/ /\ Unique(Recorded(s))
        /\ Cardinality(Recorded(s)) <= MaxSlots
        /\ VoteShort(s) \/ VoteSettles(s) \/ VoteTooLate(s)
     \/ ~Unique(Recorded(s)) /\ UNCHANGED <<slots, state, version>>
  /\ Return(s)
  /\ UNCHANGED <<snapshot, members, overdue>>

\* The human answers no, or the call dies, before anything is committed.
Abandon(s) ==
  /\ pc[s] # "idle"
  /\ Return(s)
  /\ UNCHANGED rowVars

Next ==
  \/ Prepare \/ Cancel \/ Expire \/ DeadlinePasses
  \/ \E a \in Principals : ChangeMembership(a)
  \/ \E s \in Sessions :
       \/ \E a \in Principals : BeginRoute(s, a)
       \/ \E a \in Principals, k \in {"approved", "rejected"} : Show(s, a, k)
       \/ Route(s) \/ Open(s) \/ Tally(s) \/ CommitVote(s) \/ Abandon(s)

Spec == Init /\ [][Next]_vars

-----------------------------------------------------------------------------
(* Properties.                                                             *)

\* An approved operation has the approvals of Quorum different members of its
\* frozen snapshot, none of them its requester, and no rejection (ADR-017 s. 1, 2).
ApprovalNeedsQuorum ==
  state = "APPROVED" =>
    /\ Cardinality(Deciders(slots, "approved")) >= Quorum
    /\ Deciders(slots, "approved") \subseteq snapshot \ {Requester}
    /\ Deciders(slots, "rejected") = {}

\* Two votes that complete the quorum together do not miss one another: a pending
\* operation never holds enough approvals (get_for_update's docstring).
NoStrandedQuorum ==
  state = "PENDING_APPROVAL" => Cardinality(Deciders(slots, "approved")) < Quorum

\* One rejection is final: a recorded rejection and REJECTED go together.
RejectionIsFinal ==
  state = "REJECTED" <=> Deciders(slots, "rejected") # {}

\* A decision is cast once: a decided slot is never decided again or the other way
\* (ADR-017 s. 3), on PostgreSQL, where a decision locks the operation.
DecisionsStand ==
  [][\A sl \in slots : sl.decision # "none" => sl \in slots']_vars

\* How the ballot on the operation stands.
Outcome ==
  CASE state = NoState            -> "none"
    [] state = "PENDING_APPROVAL" -> "open"
    [] state = "APPROVED"         -> "approved"
    [] state = "REJECTED"         -> "rejected"
    [] OTHER                      -> "closed"

Vote == INSTANCE Ballot WITH electorate <- snapshot, outcome <- Outcome,
                             approvals <- Deciders(slots, "approved"),
                             rejections <- Deciders(slots, "rejected")

\* On PostgreSQL concurrent decisions, with all the steps of a call, amount to votes
\* that are cast in one step each (ADR-017: the approver's slot, the tally and the
\* transition are one unit): none is lost, doubled, changed or counted late.
ImplementsBallot == Vote!Spec

\* request_approval's docstring: an approver's slot is reused on a second call, not
\* minted again, so nobody has two.
OneSlotPerApprover ==
  \A x, y \in slots : x.approver = y.approver => x = y
=============================================================================
