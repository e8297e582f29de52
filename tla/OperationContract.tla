-------------------------- MODULE OperationContract --------------------------
(***************************************************************************)
(* What the control plane promises about an operation, and nothing of how: *)
(* an operation moves only along the table of StateMachine, n8n is asked   *)
(* to run it at most once and only while it is EXECUTING, and a definite   *)
(* outcome is reported only for a request that n8n received.               *)
(***************************************************************************)
EXTENDS StateMachine

CONSTANT Operations

VARIABLES phase,   \* the state of each operation, NoState before it exists
          runs     \* how often n8n has received the operation's dispatch

contractVars == <<phase, runs>>

Init ==
  /\ phase = [o \in Operations |-> NoState]
  /\ runs = [o \in Operations |-> 0]

\* prepare_operation or retry_operation: PREPARING is never visible, because
\* T01 and its successor are committed together.
Create(o) ==
  /\ phase[o] = NoState
  /\ \E t \in {"T02", "T03", "T04", "T05"} :
       phase' = [phase EXCEPT ![o] = TRANSITIONS[t].to]
  /\ UNCHANGED runs

\* A human decision, a cancellation, or the start of an execution.
Move(o) ==
  /\ \E t \in {"T06", "T07", "T09", "T10", "T12"} :
       /\ ValidTransition(t, phase[o])
       /\ phase' = [phase EXCEPT ![o] = TRANSITIONS[t].to]
  /\ UNCHANGED runs

\* Deadlines fire, for several operations at once when it is a sweep.
Expire ==
  /\ \E overdue \in SUBSET {o \in Operations : phase[o] \in {"PENDING_APPROVAL", "APPROVED"}} :
       phase' = [o \in Operations |-> IF o \in overdue THEN "EXPIRED" ELSE phase[o]]
  /\ UNCHANGED runs

\* n8n receives the dispatch: once, and only for an operation being executed.
Run(o) ==
  /\ phase[o] = "EXECUTING"
  /\ runs[o] = 0
  /\ runs' = [runs EXCEPT ![o] = 1]
  /\ UNCHANGED phase

\* The outcome becomes known.  Success and failure are what n8n answered to a
\* dispatch it received; UNKNOWN claims nothing.
Resolve(o) ==
  /\ phase[o] = "EXECUTING"
  /\ \/ runs[o] = 1 /\ phase' = [phase EXCEPT ![o] = "SUCCEEDED"]
     \/ runs[o] = 1 /\ phase' = [phase EXCEPT ![o] = "FAILED"]
     \/ phase' = [phase EXCEPT ![o] = "UNKNOWN"]
  /\ UNCHANGED runs

Next ==
  \/ \E o \in Operations : Create(o) \/ Move(o) \/ Run(o) \/ Resolve(o)
  \/ Expire

Spec == Init /\ [][Next]_contractVars
=============================================================================
