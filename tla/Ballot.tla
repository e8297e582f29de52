-------------------------------- MODULE Ballot --------------------------------
(***************************************************************************)
(* What a vote by quorum promises, whatever calls are going on at once:    *)
(* every member of a frozen electorate votes at most once, every vote      *)
(* counts from the moment it is recorded, the one that completes the       *)
(* quorum approves and the first rejection rejects, and nothing is taken   *)
(* back.                                                                   *)
(***************************************************************************)
EXTENDS Naturals, FiniteSets

CONSTANTS Approvers, Quorum

VARIABLES
  electorate,   \* who may vote
  approvals, rejections,
  outcome       \* "none" before there is a ballot, "open", and how it ended

ballotVars == <<electorate, approvals, rejections, outcome>>

Init ==
  /\ outcome = "none"
  /\ electorate = {} /\ approvals = {} /\ rejections = {}

Open ==
  /\ outcome = "none" /\ outcome' = "open"
  /\ electorate' \in SUBSET Approvers
  /\ UNCHANGED <<approvals, rejections>>

\* A vote that is short of the quorum is recorded even when the ballot is over, and
\* may be what finds it overdue.
Approve(a) ==
  /\ a \in electorate \ (approvals \union rejections)
  /\ approvals' = approvals \union {a}
  /\ \/ Cardinality(approvals') >= Quorum /\ outcome = "open" /\ outcome' = "approved"
     \/ /\ Cardinality(approvals') < Quorum
        /\ outcome' = outcome \/ (outcome = "open" /\ outcome' = "closed")
  /\ UNCHANGED <<electorate, rejections>>

Reject(a) ==
  /\ a \in electorate \ (approvals \union rejections)
  /\ outcome = "open" /\ outcome' = "rejected"
  /\ rejections' = rejections \union {a}
  /\ UNCHANGED <<electorate, approvals>>

\* The operation is canceled or expires.
Close ==
  /\ outcome \in {"open", "approved"} /\ outcome' = "closed"
  /\ UNCHANGED <<electorate, approvals, rejections>>

Next == Open \/ Close \/ \E a \in Approvers : Approve(a) \/ Reject(a)

Spec == Init /\ [][Next]_ballotVars
=============================================================================
