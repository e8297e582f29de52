--------------------------- MODULE KeyedOperations ---------------------------
(***************************************************************************)
(* What idempotency keys promise (invariant I8): a key names at most one   *)
(* operation in its namespace, for good, and whoever uses it is told about *)
(* that one.                                                               *)
(***************************************************************************)
CONSTANTS Namespaces, Operations, None

VARIABLES
  bound,    \* the operation a namespaced key names, None before there is one
  answer    \* <<namespace, operation>> of the last answer, None while one is asked for

Init ==
  /\ bound = [n \in Namespaces |-> None]
  /\ answer = None

Ask == answer' = None /\ UNCHANGED bound

Bind(n, o) ==
  /\ bound[n] = None
  /\ \A other \in Namespaces : bound[other] # o
  /\ bound' = [bound EXCEPT ![n] = o]
  /\ answer' = <<n, o>>

Replay(n) ==
  /\ bound[n] # None
  /\ answer' = <<n, bound[n]>>
  /\ UNCHANGED bound

Next ==
  \/ Ask
  \/ \E n \in Namespaces : Replay(n) \/ \E o \in Operations : Bind(n, o)

Spec == Init /\ [][Next]_<<bound, answer>>
=============================================================================
