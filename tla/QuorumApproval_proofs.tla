------------------------ MODULE QuorumApproval_proofs ------------------------
(***************************************************************************)
(* For every set of approvers, every quorum and any number of calls.  On   *)
(* either database an approval has its quorum, a quorum is not missed, and *)
(* a rejection leaves nothing but REJECTED.  On PostgreSQL a rejection is  *)
(* final too, no decision is taken back, and concurrent decisions amount   *)
(* to votes of one step each.                                              *)
(*                                                                         *)
(* The argument is the lock.  From its tally to its commit a call holds    *)
(* the operation's row or SQLite's write lock, so that what it has tallied *)
(* is still so when it commits.  On PostgreSQL it holds the row from the   *)
(* moment it opens the operation, and what it has read then (the row's     *)
(* version, the approver's slot) is still so as well; on SQLite all that   *)
(* remains of it is that the slot is its approver's.  Routing locks        *)
(* nothing, but it mints a slot only while nobody holds the row, and never *)
(* a decided one.                                                          *)
(***************************************************************************)
EXTENDS QuorumApproval, FiniteSetTheorems, TLAPS

\* PostgreSQL, where a row can be locked.
RowLocks == ~SingleWriter

Deciding(s) == pc[s] \in {"open", "tallied"}

\* From here on a call has the lock: from its tally, or already from its opening.
Holds(s) == pc[s] = "tallied" \/ (RowLocks /\ pc[s] = "open")

\* The rows of approvals are numbered from 1, each with a number of its own.
Numbered(rows) ==
  /\ IsFiniteSet(rows)
  /\ \A sl \in rows : sl.id <= Cardinality(rows)
  /\ \A x, y \in rows : x.id = y.id => x = y

\* Only members of the frozen snapshot have slots, and the requester is none.
EligibleOnly ==
  /\ Requester \notin snapshot
  /\ \A sl \in slots : sl.approver \in snapshot

NothingBefore == state = NoState => slots = {} /\ \A s \in Sessions : pc[s] = "idle"

RowIsHeld == \A s \in Sessions : Holds(s) => lock = s

\* A slot that a call has found is its approver's only one, and still open.
SlotIsOpen(s) ==
  mine[s] # {} => \E sl \in slots : mine[s] = {sl.id} /\ sl.decision = "none"

\* What a call has read or tallied is still so.
CallInv(s) ==
  /\ pc[s] \in {"shown", "open", "tallied"} => kind[s] \in {"approved", "rejected"}
  /\ pc[s] = "routing" => who[s] \in snapshot
  /\ Deciding(s) => who[s] \in snapshot /\ mine[s] \subseteq SlotsOf(who[s])
  /\ RowLocks /\ Deciding(s) => /\ seen[s] = version
                                /\ mine[s] = SlotsOf(who[s])
                                /\ SlotIsOpen(s)
  /\ pc[s] = "tallied" => (reached[s] <=> kind[s] = "approved" /\ QuorumReached(s))

CallsInv == \A s \in Sessions : CallInv(s)

\* What a rejection that is recorded means on either database.
RejectionSettles == Deciders(slots, "rejected") # {} => state = "REJECTED"

VotesInv ==
  /\ ApprovalNeedsQuorum /\ NoStrandedQuorum /\ RejectionSettles
  /\ RowLocks => RejectionIsFinal

IInv ==
  /\ TypeOK
  /\ Numbered(slots)
  /\ EligibleOnly
  /\ NothingBefore
  /\ RowIsHeld
  /\ CallsInv
  /\ VotesInv

-----------------------------------------------------------------------------
(* Facts about the table, the calls and the rows.                          *)

\* The rows of the table that the actions use.
LEMMA TransitionTable ==
  /\ TRANSITIONS["T04"].to = "PENDING_APPROVAL"
  /\ TRANSITIONS["T06"].to = "APPROVED"
  /\ TRANSITIONS["T07"].to = "REJECTED"
  /\ TRANSITIONS["T08"].to = "EXPIRED"
  /\ TRANSITIONS["T09"].to = "CANCELED"
  /\ TRANSITIONS["T12"].to = "CANCELED"
BY DEF TRANSITIONS, Edge

\* Only members of the snapshot have decided, so the deciders can be counted.
LEMMA DecidersFinite ==
  ASSUME TypeOK, NEW rows, \A sl \in rows : sl.approver \in snapshot, NEW d
  PROVE  /\ Deciders(rows, d) \subseteq snapshot
         /\ IsFiniteSet(Deciders(rows, d))
         /\ Cardinality(Deciders(rows, d)) \in Nat
<1>1. Deciders(rows, d) \subseteq snapshot
  BY DEF Deciders
<1>2. Deciders(rows, d) \in SUBSET Approvers /\ IsFiniteSet(Approvers)
  BY <1>1, QuorumAssumption DEF TypeOK
<1>3. IsFiniteSet(Deciders(rows, d))
  BY <1>2, FS_Subset
<1>. QED
  BY <1>1, <1>3, FS_CardinalityType

\* More deciders are counted as no fewer.
LEMMA DecidersGrow ==
  ASSUME TypeOK, NEW rows, NEW more, \A sl \in more : sl.approver \in snapshot, NEW d,
         Deciders(rows, d) \subseteq Deciders(more, d)
  PROVE  /\ Cardinality(Deciders(rows, d)) \in Nat
         /\ Cardinality(Deciders(rows, d)) <= Cardinality(Deciders(more, d))
<1>1. IsFiniteSet(Deciders(more, d)) /\ Cardinality(Deciders(more, d)) \in Nat
  BY DecidersFinite
<1>2. Deciders(rows, d) \in SUBSET Deciders(more, d)
  OBVIOUS
<1>3. IsFiniteSet(Deciders(rows, d))
  BY <1>1, <1>2, FS_Subset
<1>. QED
  BY <1>1, <1>2, <1>3, FS_Subset, FS_CardinalityType

\* What recording the decision of a call makes of the rows.
LEMMA RecordedRows ==
  ASSUME IInv, NEW s \in Sessions, Deciding(s)
  PROVE  /\ Numbered(Recorded(s))
         /\ Cardinality(Recorded(s)) <= MaxSlots => Recorded(s) \subseteq Slots
         /\ \A sl \in Recorded(s) : sl.approver \in snapshot
         /\ \A sl \in slots : sl \in Recorded(s) \/ sl.approver = who[s]
         /\ \A sl \in slots : \E kept \in Recorded(s) : kept.id = sl.id /\ kept.approver = sl.approver
         /\ RowLocks => \A sl \in slots : sl.decision # "none" => sl \in Recorded(s)
         /\ \A sl \in Recorded(s) :
              sl \in slots \/ (sl.approver = who[s] /\ sl.decision = kind[s])
         /\ \E sl \in Recorded(s) : sl.approver = who[s] /\ sl.decision = kind[s]
<1>. DEFINE id == IF mine[s] = {} THEN Cardinality(slots) + 1 ELSE CHOOSE i \in mine[s] : TRUE
            new == [id |-> id, approver |-> who[s], decision |-> kind[s]]
            rest == {sl \in slots : sl.id # id}
<1>1. /\ IsFiniteSet(slots) /\ Cardinality(slots) \in Nat
      /\ \A sl \in slots : sl.id \in Nat /\ sl.id <= Cardinality(slots)
      /\ \A x, y \in slots : x.id = y.id => x = y
  BY FS_CardinalityType DEF IInv, Numbered, TypeOK, Slots, SlotIds
<1>2. /\ kind[s] \in {"approved", "rejected"} /\ who[s] \in snapshot
      /\ mine[s] \subseteq SlotsOf(who[s]) /\ (RowLocks => SlotIsOpen(s))
  BY DEF IInv, CallsInv, CallInv, Deciding
<1>3. /\ Recorded(s) = rest \union {new} /\ rest \subseteq slots
      /\ new.id = id /\ new.approver = who[s] /\ new.decision = kind[s]
      /\ \A sl \in slots : sl \in rest <=> sl.id # id
      /\ id = IF mine[s] = {} THEN Cardinality(slots) + 1 ELSE CHOOSE i \in mine[s] : TRUE
      /\ id \in SlotIds => new \in [id : SlotIds, approver : {who[s]}, decision : {kind[s]}]
  BY DEF Recorded
<1>. HIDE DEF id, new, rest
<1>4. /\ id \in Nat /\ id >= 1
      /\ IsFiniteSet(Recorded(s)) /\ Cardinality(Recorded(s)) \in Nat
      /\ Cardinality(slots) <= Cardinality(Recorded(s)) /\ id <= Cardinality(Recorded(s))
      /\ \A sl \in slots : sl.id = id => sl.approver = who[s]
      /\ RowLocks => \A sl \in slots : sl.decision # "none" => sl.id # id
  <2>1. CASE mine[s] = {}
    <3>1. id = Cardinality(slots) + 1
      BY <1>3, <2>1
    <3>2. \A sl \in slots : sl.id # id
      BY <1>1, <3>1
    <3>3. Recorded(s) = slots \union {new} /\ new \notin slots
      BY <1>3, <3>2
    <3>4. IsFiniteSet(Recorded(s)) /\ Cardinality(Recorded(s)) = Cardinality(slots) + 1
      BY <1>1, <3>3, FS_AddElement
    <3>. QED
      BY <1>1, <3>1, <3>2, <3>4
  <2>2. CASE mine[s] # {}
    <3>1. id \in mine[s]
      BY <1>3, <2>2
    <3>2. PICK old \in slots : old.id = id /\ old.approver = who[s]
      BY <1>2, <3>1 DEF SlotsOf
    <3>3. rest = slots \ {old}
      BY <1>1, <1>3, <3>2
    <3>4. IsFiniteSet(rest) /\ Cardinality(rest) = Cardinality(slots) - 1
      BY <1>1, <3>3, FS_RemoveElement
    <3>5. new \notin rest
      BY <1>3
    <3>6. IsFiniteSet(Recorded(s)) /\ Cardinality(Recorded(s)) = Cardinality(rest) + 1
      BY <1>3, <3>4, <3>5, FS_AddElement
    <3>7. old.id \in Nat /\ old.id >= 1
      BY DEF IInv, TypeOK, Slots, SlotIds
    <3>8. \A sl \in slots : sl.id = id => sl = old
      BY <1>1, <3>2
    <3>9. RowLocks => old.decision = "none"
      BY <1>2, <2>2, <3>1, <3>8 DEF SlotIsOpen
    <3>. QED
      BY <1>1, <3>2, <3>4, <3>6, <3>7, <3>8, <3>9
  <2>. QED
    BY <2>1, <2>2
<1>5. Numbered(Recorded(s))
  <2>1. \A sl \in Recorded(s) : sl.id <= Cardinality(Recorded(s))
    BY <1>1, <1>3, <1>4
  <2>2. \A x, y \in Recorded(s) : x.id = y.id => x = y
    BY <1>1, <1>3
  <2>. QED
    BY <1>4, <2>1, <2>2 DEF Numbered
<1>6. Cardinality(Recorded(s)) <= MaxSlots => new \in Slots
  BY <1>2, <1>3, <1>4, QuorumAssumption DEF Slots, SlotIds, Principals, IInv, TypeOK
<1>7. slots \subseteq Slots
  BY DEF IInv, TypeOK
<1>8. \A sl \in slots : sl.approver \in snapshot
  BY DEF IInv, EligibleOnly
<1>. QED
  BY <1>2, <1>3, <1>4, <1>5, <1>6, <1>7, <1>8

\* So a decision adds its approver to those that decided in that way.
LEMMA RecordedDeciders ==
  ASSUME IInv, NEW s \in Sessions, Deciding(s)
  PROVE  /\ Deciders(Recorded(s), kind[s]) = Deciders(slots, kind[s]) \union {who[s]}
         /\ \A d \in {"approved", "rejected"} : d # kind[s] =>
              /\ Deciders(Recorded(s), d) \subseteq Deciders(slots, d)
              /\ RowLocks => Deciders(Recorded(s), d) = Deciders(slots, d)
<1>1. kind[s] \in {"approved", "rejected"}
  BY DEF IInv, CallsInv, CallInv, Deciding
<1>. QED
  BY <1>1, RecordedRows DEF Deciders

-----------------------------------------------------------------------------
(* Calls.                                                                  *)

SameRegisters(s) ==
  /\ pc'[s] = pc[s] /\ kind'[s] = kind[s] /\ who'[s] = who[s] /\ seen'[s] = seen[s]
  /\ late'[s] = late[s] /\ mine'[s] = mine[s] /\ reached'[s] = reached[s]

LEMMA RegistersOfOne ==
  ASSUME TypeOK, NEW s \in Sessions, NEW p, NEW k, NEW a, NEW v, NEW l, NEW m,
         Registers(s, p, k, a, v, l, m)
  PROVE  /\ \A d \in Sessions \ {s} : SameRegisters(d)
         /\ pc'[s] = p /\ kind'[s] = k /\ who'[s] = a /\ seen'[s] = v
         /\ late'[s] = l /\ mine'[s] = m /\ reached'[s] = FALSE
BY DEF TypeOK, Registers, SameRegisters

\* A slot stays its approver's.
SlotsStay == \A sl \in slots : \E kept \in slots' : kept.id = sl.id /\ kept.approver = sl.approver

\* A call keeps what is true of it, if what it relies on has not changed.
LEMMA CallKeeps ==
  ASSUME NEW s \in Sessions, CallInv(s), SameRegisters(s), UNCHANGED snapshot, SlotsStay,
         Holds(s) => UNCHANGED <<version, slots>>
  PROVE  CallInv(s)'
<1>1. SlotsOf(who[s]) \subseteq SlotsOf(who[s])'
  BY DEF SlotsOf, SlotsStay, SameRegisters
<1>2. CASE Holds(s)
  <2>1. SlotsOf(who[s])' = SlotsOf(who[s]) /\ SlotIsOpen(s)' = SlotIsOpen(s)
        /\ QuorumReached(s)' = QuorumReached(s)
    BY <1>2 DEF SlotsOf, SlotIsOpen, QuorumReached, Recorded, Deciders, SameRegisters
  <2>. QED
    BY <1>2, <2>1 DEF CallInv, SameRegisters, Deciding
<1>3. CASE ~Holds(s)
  BY <1>1, <1>3 DEF CallInv, SameRegisters, Deciding, Holds, RowLocks
<1>. QED
  BY <1>2, <1>3

\* A step that leaves the calls, the lock and the approvals alone, and moves the row
\* only while nobody holds it.
LEMMA CallsKeep ==
  ASSUME IInv, UNCHANGED <<snapshot, slots, callVars, lock>>,
         lock = None \/ UNCHANGED version
  PROVE  RowIsHeld' /\ CallsInv'
<1>1. SlotsStay
  BY DEF SlotsStay
<1>2. ASSUME NEW s \in Sessions
      PROVE  (Holds(s) => lock = s)' /\ CallInv(s)'
  <2>1. CallInv(s) /\ SameRegisters(s) /\ (Holds(s) => lock = s) /\ (Holds(s)' <=> Holds(s))
    BY DEF IInv, CallsInv, RowIsHeld, SameRegisters, callVars, Holds, RowLocks
  <2>2. Holds(s) => lock # None
    BY <2>1, QuorumAssumption
  <2>. QED
    BY <1>1, <2>1, <2>2, CallKeeps
<1>. QED
  BY <1>2 DEF RowIsHeld, CallsInv

\* The same where one call goes on: it takes the lock, keeps it or gives it back, and
\* changes rows only while nobody else holds the operation's.
LEMMA OneCallMoves ==
  ASSUME IInv, NEW s \in Sessions, UNCHANGED snapshot, SlotsStay,
         \A d \in Sessions \ {s} : SameRegisters(d),
         UNCHANGED <<version, slots>> \/ lock \in {s, None},
         lock' = lock \/ lock = None \/ (lock = s /\ lock' = None),
         Holds(s)' => lock' = s,
         CallInv(s)'
  PROVE  RowIsHeld' /\ CallsInv'
<1>1. ASSUME NEW d \in Sessions \ {s}
      PROVE  (Holds(d) => lock = d)' /\ CallInv(d)'
  <2>1. CallInv(d) /\ SameRegisters(d) /\ (Holds(d) => lock = d) /\ (Holds(d)' <=> Holds(d))
    BY DEF IInv, CallsInv, RowIsHeld, SameRegisters, Holds, RowLocks
  <2>2. Holds(d) => lock \notin {s, None}
    BY <2>1, QuorumAssumption
  <2>. QED
    BY <2>1, <2>2, CallKeeps
<1>. QED
  BY <1>1 DEF RowIsHeld, CallsInv

-----------------------------------------------------------------------------
(* Steps that cast no decision.                                            *)

\* What they may do to the rows of approvals: mint an open slot for a member.
NoVote ==
  /\ \A sl \in slots : sl \in slots'
  /\ \A sl \in slots' : sl \in slots \/ (sl.decision = "none" /\ sl.approver \in snapshot)

LEMMA NoVoteKeepsDeciders ==
  ASSUME NoVote
  PROVE  \A d \in {"approved", "rejected"} : Deciders(slots', d) = Deciders(slots, d)
BY DEF NoVote, Deciders

\* Without a vote the votes stay in order, as long as the state is not moved to one of
\* those that mean a decision.
LEMMA NoVoteKeepsVotes ==
  ASSUME VotesInv, NoVote, UNCHANGED snapshot,
         \/ state' = state
         \/ state # "REJECTED" /\ state' \notin {"PENDING_APPROVAL", "APPROVED", "REJECTED"}
  PROVE  VotesInv'
<1>1. Deciders(slots, "approved")' = Deciders(slots, "approved")
      /\ Deciders(slots, "rejected")' = Deciders(slots, "rejected")
  BY NoVoteKeepsDeciders DEF Deciders
<1>. QED
  BY <1>1 DEF VotesInv, ApprovalNeedsQuorum, NoStrandedQuorum, RejectionSettles, RejectionIsFinal

RowsInv == Numbered(slots) /\ EligibleOnly /\ NothingBefore

LEMMA PreparePreserves ==
  ASSUME IInv, Prepare
  PROVE  IInv'
<1>1. slots = {} /\ (\A s \in Sessions : pc[s] = "idle") /\ slots' = {} /\ pc' = pc
      /\ state' = "PENDING_APPROVAL"
  BY TransitionTable DEF IInv, Prepare, NothingBefore, callVars
<1>2. TypeOK'
  BY <1>1 DEF IInv, TypeOK, Prepare, callVars, EligibleApprovers, Principals, States
<1>3. RowsInv'
  BY <1>1, FS_EmptySet DEF RowsInv, Numbered, EligibleOnly, NothingBefore, Prepare,
                           EligibleApprovers, NoState
<1>4. RowIsHeld' /\ CallsInv'
  BY <1>1 DEF RowIsHeld, CallsInv, CallInv, Deciding, Holds
<1>5. VotesInv'
  <2>1. Deciders(slots', "approved") = {} /\ Deciders(slots', "rejected") = {}
    BY <1>1 DEF Deciders
  <2>2. Cardinality(Deciders(slots', "approved")) < Quorum
    BY <2>1, FS_EmptySet, QuorumAssumption
  <2>. QED
    BY <1>1, <2>1, <2>2 DEF VotesInv, ApprovalNeedsQuorum, NoStrandedQuorum, RejectionSettles, RejectionIsFinal,
                            Deciders
<1>. QED
  BY <1>2, <1>3, <1>4, <1>5 DEF IInv, RowsInv

\* The operation is moved by others only while nobody holds its row.
LEMMA OperationMovesPreserve ==
  ASSUME IInv, Cancel \/ Expire \/ DeadlinePasses \/ \E a \in Principals : ChangeMembership(a)
  PROVE  IInv'
<1>1. /\ UNCHANGED <<snapshot, slots, callVars, lock>>
      /\ lock = None \/ UNCHANGED version
      /\ \/ UNCHANGED <<state, version>>
         \/ /\ state \in {"PENDING_APPROVAL", "APPROVED"} /\ state' \in {"CANCELED", "EXPIRED"}
            /\ version' = version + 1
  BY TransitionTable DEF Cancel, Expire, DeadlinePasses, ChangeMembership, MoveTo
<1>2. members' \subseteq Principals /\ overdue' \in BOOLEAN
  BY DEF IInv, TypeOK, Cancel, Expire, DeadlinePasses, ChangeMembership
<1>3. TypeOK'
  BY <1>1, <1>2 DEF IInv, TypeOK, callVars, States
<1>4. RowsInv'
  BY <1>1 DEF IInv, RowsInv, Numbered, EligibleOnly, NothingBefore, callVars, NoState
<1>5. RowIsHeld' /\ CallsInv'
  BY <1>1, CallsKeep
<1>6. VotesInv'
  BY <1>1, NoVoteKeepsVotes DEF IInv, NoVote
<1>. QED
  BY <1>3, <1>4, <1>5, <1>6 DEF IInv, RowsInv

\* A step of a call that leaves the operation and its approvals alone.
LEMMA QuietCallPreserves ==
  ASSUME IInv, NEW s \in Sessions, UNCHANGED rowVars,
         \A d \in Sessions \ {s} : SameRegisters(d),
         lock' = lock \/ lock = None \/ (lock = s /\ lock' = None),
         Holds(s)' => lock' = s,
         CallInv(s)',
         state = NoState => pc'[s] = "idle",
         TypeOK'
  PROVE  IInv'
<1>1. SlotsStay
  BY DEF SlotsStay, rowVars
<1>2. RowIsHeld' /\ CallsInv'
  BY <1>1, OneCallMoves DEF rowVars
<1>3. RowsInv'
  BY DEF IInv, RowsInv, Numbered, EligibleOnly, NothingBefore, rowVars, SameRegisters
<1>4. VotesInv'
  BY NoVoteKeepsVotes DEF IInv, NoVote, rowVars
<1>. QED
  BY <1>2, <1>3, <1>4 DEF IInv, RowsInv

LEMMA BeginRoutePreserves ==
  ASSUME IInv, NEW s \in Sessions, NEW a \in Principals, BeginRoute(s, a)
  PROVE  IInv'
<1>1. Registers(s, "routing", "route", a, version, FALSE, SlotsOf(a))
      /\ UNCHANGED rowVars /\ UNCHANGED lock /\ a \in snapshot /\ state # NoState
  BY DEF BeginRoute, NoState
<1>2. pc'[s] = "routing" /\ who'[s] = a /\ \A d \in Sessions \ {s} : SameRegisters(d)
  BY <1>1, RegistersOfOne DEF IInv
<1>3. CallInv(s)' /\ ~Holds(s)'
  BY <1>1, <1>2 DEF CallInv, Deciding, Holds, rowVars
<1>4. SlotsOf(a) \in SUBSET SlotIds
  BY DEF SlotsOf, IInv, TypeOK, Slots
<1>5. TypeOK'
  BY <1>1, <1>4 DEF IInv, TypeOK, Registers, rowVars
<1>. QED
  BY <1>1, <1>2, <1>3, <1>5, QuietCallPreserves

LEMMA ShowPreserves ==
  ASSUME IInv, NEW s \in Sessions, NEW a \in Principals, NEW k \in {"approved", "rejected"},
         Show(s, a, k)
  PROVE  IInv'
<1>1. Registers(s, "shown", k, a, 0, FALSE, {}) /\ UNCHANGED rowVars /\ UNCHANGED lock
      /\ state # NoState
  BY DEF Show, NoState
<1>2. pc'[s] = "shown" /\ kind'[s] = k /\ \A d \in Sessions \ {s} : SameRegisters(d)
  BY <1>1, RegistersOfOne DEF IInv
<1>3. CallInv(s)' /\ ~Holds(s)'
  BY <1>2 DEF CallInv, Deciding, Holds
<1>4. TypeOK'
  BY <1>1 DEF IInv, TypeOK, Registers, rowVars
<1>. QED
  BY <1>1, <1>2, <1>3, <1>4, QuietCallPreserves

\* A call that returns without a vote.
LEMMA ReturnPreserves ==
  ASSUME IInv, NEW s \in Sessions, Return(s), UNCHANGED rowVars
  PROVE  IInv'
<1>1. pc'[s] = "idle" /\ \A d \in Sessions \ {s} : SameRegisters(d)
  BY RegistersOfOne DEF IInv, Return
<1>2. CallInv(s)' /\ ~Holds(s)'
  BY <1>1 DEF CallInv, Deciding, Holds
<1>3. TypeOK'
  BY DEF IInv, TypeOK, Return, Registers, rowVars
<1>4. lock' = lock \/ (lock = s /\ lock' = None)
  BY DEF Return
<1>. QED
  BY <1>1, <1>2, <1>3, <1>4, QuietCallPreserves

LEMMA OpenPreserves ==
  ASSUME IInv, NEW s \in Sessions, Open(s)
  PROVE  IInv'
<1>. DEFINE a == who[s]
<1>0. UNCHANGED rowVars
  BY DEF Open
<1>1. CASE Return(s)
  BY <1>0, <1>1, ReturnPreserves
<1>2. CASE /\ MayDecide(a)
           /\ \/ SlotsOf(a) = {}
              \/ /\ Cardinality(SlotsOf(a)) = 1
                 /\ {sl \in slots : sl.approver = a /\ sl.decision = "none"} # {}
           /\ OpenLock(s)
           /\ Registers(s, "open", kind[s], a, version, overdue, SlotsOf(a))
  <2>1. /\ \A d \in Sessions \ {s} : SameRegisters(d)
        /\ pc'[s] = "open" /\ kind'[s] = kind[s] /\ who'[s] = a /\ seen'[s] = version
        /\ mine'[s] = SlotsOf(a)
    <3>1. TypeOK
      BY DEF IInv
    <3>2. Registers(s, "open", kind[s], a, version, overdue, SlotsOf(a))
      BY <1>2
    <3>. HIDE DEF a
    <3>. QED
      BY <3>1, <3>2, RegistersOfOne
  <2>2. /\ lock' = lock \/ (lock = None /\ lock' = s)
        /\ Holds(s)' => lock' = s
    BY <1>2, <2>1 DEF OpenLock, Holds, RowLocks
  <2>3. a \in snapshot /\ kind[s] \in {"approved", "rejected"} /\ pc[s] = "shown"
    BY <1>2 DEF MayDecide, IInv, CallsInv, CallInv, Open
  <2>4. SlotsOf(a) # {} => \E sl \in slots : SlotsOf(a) = {sl.id} /\ sl.decision = "none"
    <3>. SUFFICES ASSUME SlotsOf(a) # {}
                  PROVE  \E sl \in slots : SlotsOf(a) = {sl.id} /\ sl.decision = "none"
      OBVIOUS
    <3>1. PICK sl \in slots : sl.approver = a /\ sl.decision = "none"
      BY <1>2
    <3>2. sl.id \in SlotsOf(a)
      BY <3>1 DEF SlotsOf
    <3>3. IsFiniteSet(SlotsOf(a))
      <4>1. SlotsOf(a) \in SUBSET (1 .. MaxSlots)
        BY DEF SlotsOf, IInv, TypeOK, Slots, SlotIds
      <4>2. IsFiniteSet(1 .. MaxSlots)
        BY FS_Interval, QuorumAssumption
      <4>. QED
        BY <4>1, <4>2, FS_Subset
    <3>4. \E i : SlotsOf(a) = {i}
      BY <1>2, <3>3, FS_Singleton
    <3>. QED
      BY <3>1, <3>2, <3>4
  <2>5. CallInv(s)'
    <3>1. SlotsOf(a)' = SlotsOf(a) /\ slots' = slots /\ snapshot' = snapshot /\ version' = version
      BY <1>0, <2>1 DEF rowVars, SlotsOf
    <3>2. SlotIsOpen(s)'
      BY <2>1, <2>4, <3>1 DEF SlotIsOpen
    <3>. QED
      BY <2>1, <2>3, <3>1, <3>2 DEF CallInv, Deciding, SlotsOf
  <2>6. TypeOK'
    <3>1. SlotsOf(a) \in SUBSET SlotIds
      BY DEF SlotsOf, IInv, TypeOK, Slots
    <3>. QED
      BY <1>0, <1>2, <2>2, <3>1 DEF IInv, TypeOK, Registers, rowVars
  <2>7. state # NoState
    BY <2>3 DEF IInv, NothingBefore
  <2>. QED
    BY <1>0, <2>1, <2>2, <2>5, <2>6, <2>7, QuietCallPreserves
<1>. QED
  BY <1>1, <1>2 DEF Open

LEMMA TallyPreserves ==
  ASSUME IInv, NEW s \in Sessions, Tally(s)
  PROVE  IInv'
<1>1. /\ pc[s] = "open" /\ pc' = [pc EXCEPT ![s] = "tallied"]
      /\ reached' = [reached EXCEPT ![s] = (kind[s] = "approved" /\ QuorumReached(s))]
      /\ lock \in {s, None} /\ UNCHANGED <<rowVars, kind, who, seen, late, mine>>
      /\ lock' = IF SingleWriter THEN s ELSE lock
  BY DEF Tally
<1>2. lock' = s /\ CallInv(s) /\ state # NoState
  BY <1>1 DEF IInv, RowIsHeld, CallsInv, Deciding, NothingBefore, Holds, RowLocks
<1>3. /\ \A d \in Sessions \ {s} : SameRegisters(d)
      /\ pc'[s] = "tallied" /\ (reached'[s] <=> kind[s] = "approved" /\ QuorumReached(s))
  BY <1>1 DEF IInv, TypeOK, SameRegisters
<1>4. CallInv(s)'
  <2>1. SlotsOf(who[s])' = SlotsOf(who[s]) /\ SlotIsOpen(s)' = SlotIsOpen(s)
        /\ QuorumReached(s)' = QuorumReached(s)
    BY <1>1 DEF SlotsOf, SlotIsOpen, QuorumReached, Recorded, Deciders, rowVars
  <2>. QED
    BY <1>1, <1>2, <1>3, <2>1 DEF CallInv, Deciding, rowVars
<1>5. TypeOK'
  BY <1>1, <1>2 DEF IInv, TypeOK, rowVars
<1>. QED
  BY <1>1, <1>2, <1>3, <1>4, <1>5, QuietCallPreserves

LEMMA RoutePreserves ==
  ASSUME IInv, NEW s \in Sessions, Route(s)
  PROVE  IInv'
<1>1. CASE UNCHANGED slots
  BY <1>1, ReturnPreserves DEF Route, rowVars
<1>2. CASE /\ Cardinality(slots) < MaxSlots
           /\ lock = None
           /\ slots' = slots \union
                {[id |-> Cardinality(slots) + 1, approver |-> who[s], decision |-> "none"]}
  <2>. DEFINE new == [id |-> Cardinality(slots) + 1, approver |-> who[s], decision |-> "none"]
  <2>1. /\ Return(s) /\ UNCHANGED <<state, version, snapshot, members, overdue>>
        /\ who[s] \in snapshot /\ pc[s] = "routing"
    BY DEF Route, IInv, CallsInv, CallInv
  <2>2. pc'[s] = "idle" /\ (\A d \in Sessions \ {s} : SameRegisters(d)) /\ lock' = lock
    BY <1>2, <2>1, RegistersOfOne DEF IInv, Return
  <2>3. CallInv(s)' /\ ~Holds(s)'
    BY <2>2 DEF CallInv, Deciding, Holds
  <2>4. RowIsHeld' /\ CallsInv'
    <3>1. SlotsStay
      BY <1>2 DEF SlotsStay
    <3>. QED
      BY <1>2, <2>1, <2>2, <2>3, <3>1, OneCallMoves
  <2>5. /\ slots' = slots \union {new} /\ new.id = Cardinality(slots) + 1
        /\ new.approver = who[s] /\ new.decision = "none"
    BY <1>2
  <2>6. IsFiniteSet(slots) /\ Cardinality(slots) \in Nat /\ \A sl \in slots : sl.id \in Nat
    BY FS_CardinalityType DEF IInv, Numbered, TypeOK, Slots, SlotIds
  <2>7. new \in Slots
    BY <1>2, <2>1, <2>6, QuorumAssumption DEF Slots, SlotIds, Principals, IInv, TypeOK
  <2>. HIDE DEF new
  <2>8. \A sl \in slots : sl.id < new.id
    BY <2>5, <2>6 DEF IInv, Numbered
  <2>9. IsFiniteSet(slots') /\ Cardinality(slots') = Cardinality(slots) + 1
    BY <2>5, <2>6, <2>8, FS_AddElement
  <2>10. Numbered(slots)'
    BY <2>5, <2>6, <2>8, <2>9 DEF IInv, Numbered
  <2>11. EligibleOnly' /\ NothingBefore'
    BY <2>1, <2>5 DEF IInv, EligibleOnly, NothingBefore
  <2>12. VotesInv'
    BY <2>1, <2>5, NoVoteKeepsVotes DEF IInv, NoVote
  <2>13. TypeOK'
    BY <2>1, <2>5, <2>7 DEF IInv, TypeOK, Return, Registers
  <2>. QED
    BY <2>4, <2>10, <2>11, <2>12, <2>13 DEF IInv
<1>. QED
  BY <1>1, <1>2 DEF Route

-----------------------------------------------------------------------------
(* The commit of a decision.                                               *)

\* A commit by the holder of the row, of whatever keeps the votes in order.
LEMMA CommitKeepsCalls ==
  ASSUME IInv, NEW s \in Sessions, pc[s] = "tallied", Return(s), UNCHANGED snapshot, SlotsStay
  PROVE  RowIsHeld' /\ CallsInv' /\ lock = s
<1>1. pc'[s] = "idle" /\ (\A d \in Sessions \ {s} : SameRegisters(d))
  BY RegistersOfOne DEF IInv, Return
<1>2. lock = s /\ lock' = None
  BY DEF IInv, RowIsHeld, Holds, Return
<1>3. CallInv(s)' /\ ~Holds(s)'
  BY <1>1 DEF CallInv, Deciding, Holds
<1>. QED
  BY <1>1, <1>2, <1>3, OneCallMoves

\* Votes with the row's new state: a vote short of the quorum, ...
LEMMA VoteShortKeepsVotes ==
  ASSUME IInv, NEW s \in Sessions, pc[s] = "tallied", UNCHANGED snapshot, VoteShort(s)
  PROVE  /\ VotesInv'
         /\ UNCHANGED <<state, version>> \/ (state' = "EXPIRED" /\ version' = version + 1)
<1>. DEFINE before == Cardinality(Deciders(slots, "approved"))
            after == Cardinality(Deciders(Recorded(s), "approved"))
<1>1. kind[s] = "approved" /\ ~QuorumReached(s) /\ slots' = Recorded(s) /\ Deciding(s)
  BY DEF IInv, CallsInv, CallInv, VoteShort, Deciding
<1>2. \A sl \in Recorded(s) : sl.approver \in snapshot
  BY <1>1, RecordedRows
<1>3. /\ Deciders(slots, "approved") \subseteq Deciders(Recorded(s), "approved")
      /\ Deciders(slots', "rejected") \subseteq Deciders(slots, "rejected")
      /\ RowLocks => Deciders(slots', "rejected") = Deciders(slots, "rejected")
  BY <1>1, RecordedDeciders
<1>4. before \in Nat /\ before <= after /\ after \in Nat /\ Quorum \in Nat
  BY <1>2, <1>3, DecidersGrow, DecidersFinite, QuorumAssumption DEF IInv
<1>5. after < Quorum /\ before < Quorum
  BY <1>1, <1>4 DEF QuorumReached
<1>6. state # "APPROVED"
  BY <1>4, <1>5 DEF IInv, VotesInv, ApprovalNeedsQuorum
<1>7. \/ UNCHANGED <<state, version>>
      \/ state = "PENDING_APPROVAL" /\ state' = "EXPIRED" /\ version' = version + 1
  BY TransitionTable DEF VoteShort, LazyExpiry, MoveTo
<1>8. NoStrandedQuorum'
  BY <1>1, <1>5 DEF NoStrandedQuorum, Deciders
<1>9. RejectionSettles' /\ (RowLocks => RejectionIsFinal')
  BY <1>3, <1>7 DEF IInv, VotesInv, RejectionSettles, RejectionIsFinal, Deciders
<1>. QED
  BY <1>6, <1>7, <1>8, <1>9 DEF VotesInv, ApprovalNeedsQuorum

\* ... and the vote that settles the operation.
LEMMA VoteSettlesKeepsVotes ==
  ASSUME IInv, NEW s \in Sessions, pc[s] = "tallied", UNCHANGED snapshot, VoteSettles(s)
  PROVE  VotesInv' /\ state' \in {"APPROVED", "REJECTED"} /\ version' = version + 1
<1>1. /\ kind[s] \in {"approved", "rejected"} /\ Deciding(s) /\ slots' = Recorded(s)
      /\ kind[s] = "approved" => QuorumReached(s)
      /\ state = "PENDING_APPROVAL"
      /\ state' = IF kind[s] = "approved" THEN "APPROVED" ELSE "REJECTED"
      /\ version' = version + 1
  BY TransitionTable DEF IInv, CallsInv, CallInv, VoteSettles, Deciding, Applies, MoveTo
<1>2. Deciders(slots, "rejected") = {}
  BY <1>1 DEF IInv, VotesInv, RejectionSettles
<1>3. CASE kind[s] = "approved"
  <2>1. Deciders(slots', "rejected") = {}
    BY <1>1, <1>2, <1>3, RecordedDeciders
  <2>2. Deciders(slots', "approved") \subseteq snapshot
    BY <1>1, RecordedRows, DecidersFinite DEF IInv
  <2>3. Requester \notin snapshot
    BY DEF IInv, EligibleOnly
  <2>4. Cardinality(Deciders(slots', "approved")) >= Quorum
    BY <1>1, <1>3 DEF QuorumReached
  <2>. QED
    BY <1>1, <1>3, <2>1, <2>2, <2>3, <2>4
       DEF VotesInv, ApprovalNeedsQuorum, NoStrandedQuorum, RejectionSettles, RejectionIsFinal, Deciders
<1>4. CASE kind[s] = "rejected"
  <2>1. Deciders(slots', "rejected") # {}
    BY <1>1, <1>4, RecordedDeciders
  <2>. QED
    BY <1>1, <1>4, <2>1
       DEF VotesInv, ApprovalNeedsQuorum, NoStrandedQuorum, RejectionSettles, RejectionIsFinal, Deciders
<1>. QED
  BY <1>1, <1>3, <1>4

LEMMA CommitVotePreserves ==
  ASSUME IInv, NEW s \in Sessions, CommitVote(s)
  PROVE  IInv'
<1>1. pc[s] = "tallied" /\ Return(s) /\ UNCHANGED <<snapshot, members, overdue>>
  BY DEF CommitVote
<1>2. CASE UNCHANGED <<slots, state, version>>
  BY <1>1, <1>2, ReturnPreserves DEF rowVars
<1>3. CASE Cardinality(Recorded(s)) <= MaxSlots /\ (VoteShort(s) \/ VoteSettles(s))
  <2>1. slots' = Recorded(s) /\ Deciding(s) /\ state # NoState
    BY <1>1, <1>3 DEF VoteShort, VoteSettles, Deciding, IInv, NothingBefore
  <2>2. /\ VotesInv'
        /\ state' \in {state, "EXPIRED", "APPROVED", "REJECTED"}
        /\ version' \in {version, version + 1}
    BY <1>1, <1>3, VoteShortKeepsVotes, VoteSettlesKeepsVotes
  <2>3. RowIsHeld' /\ CallsInv'
    <3>1. SlotsStay
      BY <2>1, RecordedRows DEF SlotsStay
    <3>. QED
      BY <1>1, <3>1, CommitKeepsCalls
  <2>4. Numbered(slots)' /\ slots' \subseteq Slots /\ \A sl \in slots' : sl.approver \in snapshot
    BY <1>3, <2>1, RecordedRows DEF Numbered
  <2>5. TypeOK'
    BY <1>1, <2>2, <2>4 DEF IInv, TypeOK, Return, Registers, States
  <2>6. EligibleOnly' /\ NothingBefore'
    BY <1>1, <2>1, <2>2, <2>4 DEF IInv, EligibleOnly, NothingBefore, NoState
  <2>. QED
    BY <2>2, <2>3, <2>4, <2>5, <2>6 DEF IInv
<1>. QED
  BY <1>2, <1>3 DEF CommitVote, VoteTooLate

-----------------------------------------------------------------------------
(* The theorems.                                                           *)

LEMMA InitInvariant == Init => IInv
<1>. SUFFICES ASSUME Init PROVE IInv
  OBVIOUS
<1>1. TypeOK
  BY DEF Init, TypeOK, Principals
<1>2. Numbered(slots)
  BY FS_EmptySet DEF Init, Numbered
<1>3. EligibleOnly /\ NothingBefore
  BY DEF Init, EligibleOnly, NothingBefore
<1>4. \A s \in Sessions : pc[s] = "idle" /\ mine[s] = {}
  BY DEF Init
<1>5. RowIsHeld /\ CallsInv
  BY <1>4 DEF RowIsHeld, CallsInv, CallInv, Deciding, Holds
<1>6. state = NoState /\ Deciders(slots, "rejected") = {}
  BY DEF Init, Deciders
<1>7. VotesInv
  BY <1>6 DEF VotesInv, ApprovalNeedsQuorum, NoStrandedQuorum, RejectionSettles, RejectionIsFinal, NoState
<1>. QED
  BY <1>1, <1>2, <1>3, <1>5, <1>7 DEF IInv

LEMMA NextPreserves ==
  ASSUME IInv, [Next]_vars
  PROVE  IInv'
<1>1. CASE UNCHANGED vars
  <2>1. UNCHANGED <<snapshot, callVars, lock, version, slots, state>>
    BY <1>1 DEF vars, rowVars
  <2>2. RowIsHeld' /\ CallsInv'
    BY <2>1, CallsKeep
  <2>3. VotesInv'
    BY <2>1, NoVoteKeepsVotes DEF IInv, NoVote
  <2>4. RowsInv' /\ TypeOK'
    BY <1>1
    DEF IInv, RowsInv, Numbered, EligibleOnly, NothingBefore, TypeOK, vars, rowVars, callVars
  <2>. QED
    BY <2>2, <2>3, <2>4 DEF IInv, RowsInv
<1>2. ASSUME NEW s \in Sessions, Abandon(s)
      PROVE  IInv'
  BY <1>2, ReturnPreserves DEF Abandon
<1>. QED
  BY <1>1, <1>2, PreparePreserves, OperationMovesPreserve, BeginRoutePreserves, ShowPreserves,
     RoutePreserves, OpenPreserves, TallyPreserves, CommitVotePreserves DEF Next

\* The inductive invariant holds in every reachable state.
THEOREM Invariance == Spec => []IInv
<1>1. IInv /\ [Next]_vars => IInv'
  BY NextPreserves
<1>. QED
  BY <1>1, InitInvariant, PTL DEF Spec

\* An approved operation has the approvals of Quorum different members of its frozen
\* snapshot, none of them its requester, and no rejection (ADR-017 s. 1, 2), for every
\* set of approvers, every quorum and any number of concurrent calls, on either database.
THEOREM QuorumBeforeApproval == Spec => []ApprovalNeedsQuorum
<1>1. IInv => ApprovalNeedsQuorum
  BY DEF IInv, VotesInv
<1>. QED
  BY <1>1, Invariance, PTL

\* Votes that complete the quorum together do not miss one another
\* (get_for_update's docstring), on either database.
THEOREM NoQuorumIsMissed == Spec => []NoStrandedQuorum
<1>1. IInv => NoStrandedQuorum
  BY DEF IInv, VotesInv
<1>. QED
  BY <1>1, Invariance, PTL

\* One rejection is final: a recorded rejection and REJECTED go together, on PostgreSQL.
THEOREM OneRejectionDecides == RowLocks => (Spec => []RejectionIsFinal)
<1>. SUFFICES ASSUME RowLocks PROVE Spec => []RejectionIsFinal
  OBVIOUS
<1>1. IInv => RejectionIsFinal
  BY DEF IInv, VotesInv
<1>. QED
  BY <1>1, Invariance, PTL

\* A decision that is recorded is never changed or removed (ADR-017 s. 3), on
\* PostgreSQL.
THEOREM DecisionsAreKept == RowLocks => (Spec => DecisionsStand)
<1>. SUFFICES ASSUME RowLocks PROVE Spec => DecisionsStand
  OBVIOUS
<1>1. IInv /\ [Next]_vars => [\A sl \in slots : sl.decision # "none" => sl \in slots']_vars
  <2>. SUFFICES ASSUME IInv, Next
                PROVE  \A sl \in slots : sl.decision # "none" => sl \in slots'
    OBVIOUS
  <2>1. CASE UNCHANGED slots
    BY <2>1
  <2>2. ASSUME NEW s \in Sessions, Route(s)
        PROVE  \A sl \in slots : sl \in slots'
    BY <2>2 DEF Route
  <2>3. ASSUME NEW s \in Sessions, CommitVote(s)
        PROVE  \A sl \in slots : sl.decision # "none" => sl \in slots'
    <3>1. slots' = slots \/ slots' = Recorded(s)
      BY <2>3 DEF CommitVote, VoteShort, VoteSettles, VoteTooLate
    <3>2. Deciding(s)
      BY <2>3 DEF CommitVote, Deciding
    <3>. QED
      BY <3>1, <3>2, RecordedRows
  <2>4. ASSUME \A s \in Sessions : ~Route(s) /\ ~CommitVote(s)
        PROVE  UNCHANGED slots
    BY <2>4 DEF Next, Prepare, Cancel, Expire, DeadlinePasses, ChangeMembership, BeginRoute, Show,
                Open, Tally, Abandon, rowVars
  <2>. QED
    BY <2>1, <2>2, <2>3, <2>4
<1>. QED
  BY <1>1, Invariance, PTL DEF Spec, DecisionsStand
-----------------------------------------------------------------------------
(* On PostgreSQL the calls implement a ballot.                             *)

\* Whoever is deciding has not decided yet.
LEMMA NotYetDecided ==
  ASSUME IInv, RowLocks, NEW s \in Sessions, Deciding(s)
  PROVE  who[s] \in snapshot \ (Deciders(slots, "approved") \union Deciders(slots, "rejected"))
<1>1. /\ who[s] \in snapshot /\ mine[s] = SlotsOf(who[s]) /\ SlotIsOpen(s)
      /\ \A x, y \in slots : x.id = y.id => x = y
  BY DEF IInv, CallsInv, CallInv, Numbered
<1>2. ASSUME NEW sl \in slots, sl.approver = who[s]
      PROVE  sl.decision = "none"
  <2>1. sl.id \in mine[s]
    BY <1>1, <1>2 DEF SlotsOf
  <2>. QED
    BY <1>1, <2>1 DEF SlotIsOpen
<1>. QED
  BY <1>1, <1>2 DEF Deciders

\* What the ballot sees of a step without a vote is the state alone.
LEMMA NoVoteOnTheBallot ==
  ASSUME NoVote
  PROVE  /\ Deciders(slots, "approved")' = Deciders(slots, "approved")
         /\ Deciders(slots, "rejected")' = Deciders(slots, "rejected")
BY NoVoteKeepsDeciders DEF Deciders

\* The ballot counts as the model does.
LEMMA BallotCounts ==
  ASSUME NEW S
  PROVE  Vote!Cardinality(S) = Cardinality(S)
BY DEF Vote!Cardinality, Cardinality

\* A commit casts the vote of its approver, or none.
LEMMA CommitIsAVote ==
  ASSUME IInv, RowLocks, NEW s \in Sessions, CommitVote(s)
  PROVE  Vote!Approve(who[s]) \/ Vote!Reject(who[s]) \/ UNCHANGED Vote!ballotVars
<1>. DEFINE approvals == Deciders(slots, "approved")
            rejections == Deciders(slots, "rejected")
<1>1. pc[s] = "tallied" /\ Deciding(s) /\ UNCHANGED snapshot
  BY DEF CommitVote, Deciding
<1>2. who[s] \in snapshot \ (approvals \union rejections)
  BY <1>1, NotYetDecided
<1>3. CASE UNCHANGED <<slots, state, version>>
  BY <1>1, <1>3 DEF Vote!ballotVars, Deciders, Outcome
<1>4. CASE VoteShort(s)
  <2>1. kind[s] = "approved" /\ slots' = Recorded(s) /\ ~QuorumReached(s)
    BY <1>1, <1>4 DEF VoteShort, IInv, CallsInv, CallInv
  <2>2. approvals' = approvals \union {who[s]} /\ rejections' = rejections
    BY <1>1, <2>1, RecordedDeciders DEF Deciders
  <2>3. Cardinality(approvals') < Quorum
    <3>1. approvals' = Deciders(Recorded(s), "approved")
      BY <2>1 DEF Deciders
    <3>2. Cardinality(Deciders(Recorded(s), "approved")) \in Nat
      BY <1>1, RecordedRows, DecidersFinite DEF IInv
    <3>. QED
      BY <2>1, <3>1, <3>2, QuorumAssumption DEF QuorumReached
  <2>4. Outcome' = Outcome \/ (Outcome = "open" /\ Outcome' = "closed")
    BY <1>4, TransitionTable DEF VoteShort, LazyExpiry, MoveTo, Outcome, NoState
  <2>. QED
    BY <1>1, <1>2, <2>2, <2>3, <2>4, BallotCounts DEF Vote!Approve
<1>5. CASE VoteSettles(s)
  <2>1. /\ kind[s] \in {"approved", "rejected"} /\ slots' = Recorded(s)
        /\ kind[s] = "approved" => QuorumReached(s)
        /\ Outcome = "open"
        /\ Outcome' = kind[s]
    BY <1>1, <1>5, TransitionTable
       DEF VoteSettles, Applies, MoveTo, Outcome, NoState, IInv, CallsInv, CallInv
  <2>2. approvals' = Deciders(Recorded(s), "approved")
        /\ rejections' = Deciders(Recorded(s), "rejected")
    BY <2>1 DEF Deciders
  <2>3. CASE kind[s] = "approved"
    <3>1. approvals' = approvals \union {who[s]} /\ rejections' = rejections
      BY <1>1, <2>2, <2>3, RecordedDeciders
    <3>2. Cardinality(approvals') >= Quorum
      BY <2>1, <2>2, <2>3 DEF QuorumReached
    <3>. QED
      BY <1>1, <1>2, <2>1, <2>3, <3>1, <3>2, BallotCounts DEF Vote!Approve
  <2>4. CASE kind[s] = "rejected"
    <3>1. rejections' = rejections \union {who[s]} /\ approvals' = approvals
      BY <1>1, <2>2, <2>4, RecordedDeciders
    <3>. QED
      BY <1>1, <1>2, <2>1, <2>4, <3>1 DEF Vote!Reject
  <2>. QED
    BY <2>1, <2>3, <2>4
<1>. QED
  BY <1>3, <1>4, <1>5 DEF CommitVote, VoteTooLate

LEMMA InitIsABallot == Init => Vote!Init
<1>. SUFFICES ASSUME Init PROVE Vote!Init
  OBVIOUS
<1>1. Deciders(slots, "approved") = {} /\ Deciders(slots, "rejected") = {}
  BY DEF Init, Deciders
<1>2. Outcome = "none" /\ snapshot = {}
  BY DEF Init, Outcome, NoState
<1>. QED
  BY <1>1, <1>2 DEF Vote!Init

LEMMA NextIsABallotStep ==
  ASSUME RowLocks, IInv, IInv', [Next]_vars
  PROVE  [Vote!Next]_(Vote!ballotVars)
<1>1. CASE UNCHANGED <<state, snapshot>> /\ NoVote
  BY <1>1, NoVoteOnTheBallot DEF Vote!ballotVars, Outcome
<1>2. CASE Prepare
  <2>1. Outcome = "none" /\ Outcome' = "open" /\ UNCHANGED slots
    BY <1>2, TransitionTable DEF Prepare, Outcome, NoState
  <2>2. snapshot' \in SUBSET Approvers
    BY DEF IInv, TypeOK
  <2>3. UNCHANGED <<Deciders(slots, "approved"), Deciders(slots, "rejected")>>
    BY <2>1 DEF Deciders
  <2>. QED
    BY <2>1, <2>2, <2>3 DEF Vote!Next, Vote!Open
<1>3. CASE Cancel \/ Expire
  <2>1. Outcome \in {"open", "approved"} /\ Outcome' = "closed" /\ UNCHANGED <<snapshot, slots>>
    BY <1>3, TransitionTable DEF Cancel, Expire, MoveTo, Outcome, NoState
  <2>2. UNCHANGED <<Deciders(slots, "approved"), Deciders(slots, "rejected")>>
    BY <2>1 DEF Deciders
  <2>. QED
    BY <2>1, <2>2 DEF Vote!Next, Vote!Close
<1>4. ASSUME NEW s \in Sessions, CommitVote(s)
      PROVE  [Vote!Next]_(Vote!ballotVars)
  <2>1. who[s] \in Approvers
    BY <1>4, NotYetDecided DEF CommitVote, Deciding, IInv, TypeOK
  <2>. QED
    BY <1>4, <2>1, CommitIsAVote DEF Vote!Next
<1>5. ASSUME NEW s \in Sessions, Route(s)
      PROVE  UNCHANGED <<state, snapshot>> /\ NoVote
  <2>1. who[s] \in snapshot
    BY <1>5 DEF Route, IInv, CallsInv, CallInv
  <2>. QED
    BY <1>5, <2>1 DEF Route, NoVote
<1>6. ASSUME \/ UNCHANGED vars \/ DeadlinePasses
             \/ \E a \in Principals : ChangeMembership(a)
             \/ \E s \in Sessions :
                  \/ \E a \in Principals : BeginRoute(s, a)
                  \/ \E a \in Principals, k \in {"approved", "rejected"} : Show(s, a, k)
                  \/ Open(s) \/ Tally(s) \/ Abandon(s)
      PROVE  UNCHANGED <<state, snapshot>> /\ NoVote
  <2>1. UNCHANGED <<state, snapshot, slots>>
    BY <1>6 DEF vars, rowVars, DeadlinePasses, ChangeMembership, BeginRoute, Show, Open, Tally,
                Abandon
  <2>. QED
    BY <2>1 DEF NoVote
<1>. QED
  BY <1>1, <1>2, <1>3, <1>4, <1>5, <1>6 DEF Next

\* The refinement: on PostgreSQL concurrent decisions, each of several steps, amount to
\* votes that are cast in one step each (ADR-017: the approver's slot, the tally and the
\* transition are one unit).  None is lost, doubled, changed or counted late.
THEOREM VotesAreABallot == RowLocks => (Spec => ImplementsBallot)
<1>. SUFFICES ASSUME RowLocks PROVE Spec => ImplementsBallot
  OBVIOUS
<1>1. IInv /\ IInv' /\ [Next]_vars => [Vote!Next]_(Vote!ballotVars)
  BY NextIsABallotStep
<1>. QED
  BY <1>1, InitIsABallot, Invariance, PTL DEF Spec, ImplementsBallot, Vote!Spec
=============================================================================
