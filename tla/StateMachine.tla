---------------------------- MODULE StateMachine ----------------------------
(***************************************************************************)
(* The operation state machine of core/state_machine.py: twelve states and *)
(* fifteen transitions, held as one table.  Every other module moves an    *)
(* operation only through this table.                                      *)
(***************************************************************************)
EXTENDS Naturals

\* The value of "no row yet": from_state is None in T01.
NoState == "NONE"

States == {"PREPARING", "INVALID", "BLOCKED", "PENDING_APPROVAL", "APPROVED",
           "REJECTED", "EXPIRED", "CANCELED", "EXECUTING", "SUCCEEDED",
           "FAILED", "UNKNOWN"}

Edge(source, target) == [from |-> source, to |-> target]

\* TRANSITIONS_BY_ID: the table, indexed by transition id.
TRANSITIONS ==
  [ T01 |-> Edge(NoState,            "PREPARING"),
    T02 |-> Edge("PREPARING",        "INVALID"),
    T03 |-> Edge("PREPARING",        "BLOCKED"),
    T04 |-> Edge("PREPARING",        "PENDING_APPROVAL"),
    T05 |-> Edge("PREPARING",        "APPROVED"),
    T06 |-> Edge("PENDING_APPROVAL", "APPROVED"),
    T07 |-> Edge("PENDING_APPROVAL", "REJECTED"),
    T08 |-> Edge("PENDING_APPROVAL", "EXPIRED"),
    T09 |-> Edge("PENDING_APPROVAL", "CANCELED"),
    T10 |-> Edge("APPROVED",         "EXECUTING"),
    T11 |-> Edge("APPROVED",         "EXPIRED"),
    T12 |-> Edge("APPROVED",         "CANCELED"),
    T13 |-> Edge("EXECUTING",        "SUCCEEDED"),
    T14 |-> Edge("EXECUTING",        "FAILED"),
    T15 |-> Edge("EXECUTING",        "UNKNOWN") ]

TransitionIds == DOMAIN TRANSITIONS

\* A state is terminal iff no transition leaves it: computed, never listed.
TERMINAL_STATES == States \ {TRANSITIONS[t].from : t \in TransitionIds}

\* validate_transition: the edge exists and starts in the state at hand.
ValidTransition(t, fromState) ==
  /\ t \in TransitionIds
  /\ TRANSITIONS[t].from = fromState

\* Mutant: an execution still running at its deadline expires.
OverdueExpiry_WhileExecuting(opState, now, approvalExpiresAt, executionDeadline) ==
  \/ opState = "PENDING_APPROVAL" /\ now > approvalExpiresAt
  \/ opState \in {"APPROVED", "EXECUTING"} /\ now > executionDeadline

\* overdue_expiry_transition: a deadline has passed only strictly after it.
OverdueExpiry(opState, now, approvalExpiresAt, executionDeadline) ==
  \/ opState = "PENDING_APPROVAL" /\ now > approvalExpiresAt
  \/ opState = "APPROVED" /\ now > executionDeadline

\* The transition an overdue operation takes, by the state it is in.
ExpiryTransition(opState) == IF opState = "PENDING_APPROVAL" THEN "T08" ELSE "T11"
=============================================================================
