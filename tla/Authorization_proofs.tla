------------------------- MODULE Authorization_proofs -------------------------
(***************************************************************************)
(* For every set of users, organizations, environments, workflows and      *)
(* sessions: an operation was authorized by one grant, the n8n instance    *)
(* that was asked is its environment's, and what the listings tell a       *)
(* member of one organization about can be read by its id.                 *)
(*                                                                         *)
(* The first two are about a committed operation, which says nothing of    *)
(* the call that made it.  IInv says of an open call what the commit       *)
(* needs: what the call has seen includes whatever is granted now, so that *)
(* the grant found by its check is among what it has seen; and the         *)
(* environment it resolved to first is still the one it would resolve to,  *)
(* unless it was omitted and the caller's live environments have changed.  *)
(* The third is about one state.  It holds in every state with finitely    *)
(* many memberships, because one membership then gives both the            *)
(* environments a caller sees and the patterns a listing is restricted to. *)
(***************************************************************************)
EXTENDS Authorization, FiniteSetTheorems, TLAPS

\* Every membership there can be.
AdminRow(p, org) ==
  [principal |-> p, organization |-> org, roles |-> {"admin"},
   workflow_scope |-> Workflows, environment_scope |-> {"*"}]

Grantable ==
  MembershipRows \union {DevMembership} \union
  {AdminRow(p, org) : p \in Users, org \in Organizations}

Named == Environments \union {Omitted}

OpenCalls ==
  [pc : {"authenticated", "resolved", "authorized"}, principal : Principals, workflow : Workflows,
   named : Named, instance : Named, environment : Named, seen : SUBSET Grantable, moved : BOOLEAN]

TypeInv ==
  /\ memberships \subseteq Grantable
  /\ calls \in [Sessions -> OpenCalls \union {Idle}]

\* Whatever is granted to the caller now, the call has seen.
SeesGrants(c) == ActiveFor(c.principal) \subseteq c.seen

\* The environment the instance was picked for is the one that would be resolved now.
InstanceStands(c) ==
  IF c.named # Omitted THEN c.instance = c.named
  ELSE c.moved \/ LiveFor(c.principal) = {c.instance}

\* An authorized call has seen the one grant that authorizes it.
OneGrant(c) == \E g \in c.seen : Evaluate({g}, "prepare_operation", c.workflow, c.environment)

\* The instance serves the environment.
Serves(c) == c.instance = c.environment \/ (c.named = Omitted /\ c.moved)

CallInv(c) ==
  /\ SeesGrants(c)
  /\ c.pc = "resolved" => InstanceStands(c)
  /\ c.pc = "authorized" => OneGrant(c) /\ Serves(c)

CallsInv == \A s \in Sessions : calls[s] # Idle => CallInv(calls[s])

IInv == TypeInv /\ CallsInv /\ AuthorizedByOneGrant /\ InstanceServesEnvironment

-----------------------------------------------------------------------------
(* Records and sets.                                                       *)

LEMMA OpenIsNotIdle == \A c \in OpenCalls : c # Idle
BY DEF OpenCalls, Idle

\* Membership rows are evaluated one by one.
LEMMA OneIsEnough ==
  ASSUME NEW rows, NEW tool, NEW w, NEW e, Evaluate(rows, tool, w, e)
  PROVE  \E g \in rows : Evaluate({g}, tool, w, e)
BY DEF Evaluate

\* A call that omits its environment resolves to its one live environment.
LEMMA ResolveOmitted ==
  ASSUME NEW p, NEW e \in Resolve(p, Omitted)
  PROVE  LiveFor(p) = {e}
<1>1. IsFiniteSet(LiveFor(p))
  BY AuthorizationAssumption, FS_Subset DEF LiveFor, LiveIn, VisibleIn
<1>2. Cardinality(LiveFor(p)) = 1 /\ e \in LiveFor(p)
  BY DEF Resolve
<1>. QED
  BY <1>1, <1>2, FS_Singleton

\* A call that names its environment resolves to that one.
LEMMA ResolveNamed ==
  ASSUME NEW p, NEW named, named # Omitted, NEW e \in Resolve(p, named)
  PROVE  e = named
BY DEF Resolve

LEMMA ResolvesToEnvironment ==
  ASSUME NEW p, NEW named, NEW e \in Resolve(p, named)
  PROVE  e \in Environments
BY DEF Resolve, LiveFor, LiveIn, VisibleEnvironments, VisibleIn

-----------------------------------------------------------------------------
(* Shapes of steps: what one call does, and what a change does to all.      *)

\* One call moves, and what is granted and live stays as it is.
CallStep(s, d) ==
  /\ calls' = [calls EXCEPT ![s] = d]
  /\ UNCHANGED <<memberships, environments>>

LEMMA CallStepPreserves ==
  ASSUME TypeInv, CallsInv, NEW s \in Sessions, NEW d \in OpenCalls \union {Idle},
         d # Idle => CallInv(d), CallStep(s, d)
  PROVE  TypeInv' /\ CallsInv'
<1>1. TypeInv'
  BY DEF TypeInv, CallStep
<1>2. \A x \in Sessions : calls'[x] = (IF x = s THEN d ELSE calls[x])
  BY DEF TypeInv, CallStep
<1>3. \A x \in Sessions : calls'[x] # Idle => CallInv(calls'[x])
  BY <1>2 DEF CallsInv
<1>. QED
  BY <1>1, <1>3 DEF CallsInv, CallInv, CallStep, SeesGrants, InstanceStands, ActiveFor, ActiveIn,
         LiveFor, LiveIn, VisibleIn, OneGrant, Serves

\* What an administrator's change makes of a call.
Observing(c, rows, envs) ==
  [c EXCEPT !.seen = @ \union ActiveIn(rows, c.principal),
            !.moved = @ \/ LiveIn(rows, envs, c.principal) # LiveFor(c.principal)]

LEMMA ObservingCall ==
  ASSUME NEW c \in OpenCalls, NEW rows \in SUBSET Grantable, NEW envs
  PROVE  LET d == Observing(c, rows, envs) IN
         /\ d \in OpenCalls
         /\ d.pc = c.pc /\ d.principal = c.principal /\ d.workflow = c.workflow
         /\ d.named = c.named /\ d.instance = c.instance /\ d.environment = c.environment
         /\ d.seen = c.seen \union ActiveIn(rows, c.principal)
         /\ d.moved = (c.moved \/ LiveIn(rows, envs, c.principal) # LiveFor(c.principal))
<1>. DEFINE more == ActiveIn(rows, c.principal)
            shifted == LiveIn(rows, envs, c.principal) # LiveFor(c.principal)
<1>1. more \in SUBSET Grantable /\ shifted \in BOOLEAN
  BY DEF ActiveIn
<1>. HIDE DEF more, shifted
<1>2. LET d == [c EXCEPT !.seen = @ \union more, !.moved = @ \/ shifted] IN
         /\ d \in OpenCalls
         /\ d.pc = c.pc /\ d.principal = c.principal /\ d.workflow = c.workflow
         /\ d.named = c.named /\ d.instance = c.instance /\ d.environment = c.environment
         /\ d.seen = c.seen \union more
         /\ d.moved = (c.moved \/ shifted)
  BY <1>1 DEF OpenCalls
<1>. QED
  BY <1>2 DEF Observing, more, shifted

LEMMA ChangePreserves ==
  ASSUME TypeInv, CallsInv, NEW rows \in SUBSET Grantable, NEW envs, Change(rows, envs)
  PROVE  TypeInv' /\ CallsInv'
<1>1. /\ memberships' = rows
      /\ environments' = envs
      /\ calls' = [s \in Sessions |-> IF calls[s] = Idle THEN calls[s]
                                     ELSE Observing(calls[s], rows, envs)]
  BY Zenon DEF Change, Observing
<1>2. \A s \in Sessions : calls[s] = Idle \/ calls[s] \in OpenCalls
  BY DEF TypeInv
<1>3. TypeInv'
  BY <1>1, <1>2, ObservingCall DEF TypeInv
<1>4. ASSUME NEW s \in Sessions, calls[s] \in OpenCalls, calls[s] # Idle
      PROVE  CallInv(calls[s])'
  <2>. DEFINE c == calls[s]
              d == Observing(c, rows, envs)
  <2>1. calls'[s] = d
    BY <1>1, <1>4
  <2>2. CallInv(c)
    BY <1>4 DEF CallsInv
  <2>3. /\ d.pc = c.pc /\ d.principal = c.principal /\ d.workflow = c.workflow
        /\ d.named = c.named /\ d.instance = c.instance /\ d.environment = c.environment
        /\ d.seen = c.seen \union ActiveIn(rows, c.principal)
        /\ d.moved = (c.moved \/ LiveIn(rows, envs, c.principal) # LiveFor(c.principal))
    BY <1>4, ObservingCall
  <2>. HIDE DEF c, d
  <2>4. SeesGrants(calls[s])'
    BY <1>1, <2>1, <2>3 DEF SeesGrants, ActiveFor
  <2>5. (c.pc = "resolved" => InstanceStands(c))
        => (calls[s].pc = "resolved" => InstanceStands(calls[s]))'
    BY <1>1, <2>1, <2>3, Zenon DEF InstanceStands, LiveFor
  <2>6. (c.pc = "authorized" => OneGrant(c)) => (calls[s].pc = "authorized" => OneGrant(calls[s]))'
    BY <2>1, <2>3 DEF OneGrant
  <2>7. (c.pc = "authorized" => Serves(c)) => (calls[s].pc = "authorized" => Serves(calls[s]))'
    BY <2>1, <2>3, Zenon DEF Serves
  <2>. QED
    BY <2>2, <2>4, <2>5, <2>6, <2>7 DEF CallInv
<1>5. \A s \in Sessions : calls'[s] # Idle => calls[s] \in OpenCalls /\ calls[s] # Idle
  BY <1>1, <1>2
<1>6. CallsInv'
  BY <1>4, <1>5 DEF CallsInv
<1>. QED
  BY <1>3, <1>6

-----------------------------------------------------------------------------
(* The actions.                                                            *)

LEMMA InitHolds == Init => IInv
<1>. SUFFICES ASSUME Init PROVE IInv
  OBVIOUS
<1>1. TypeInv
  BY DEF Init, TypeInv, Grantable
<1>2. CallsInv
  BY DEF Init, CallsInv
<1>. QED
  BY <1>1, <1>2 DEF Init, IInv, AuthorizedByOneGrant, InstanceServesEnvironment

\* Operations that stay as they are keep their properties.
LEMMA OperationsStay ==
  ASSUME AuthorizedByOneGrant, InstanceServesEnvironment, UNCHANGED operations
  PROVE  AuthorizedByOneGrant' /\ InstanceServesEnvironment'
BY DEF AuthorizedByOneGrant, InstanceServesEnvironment

\* A change of rows or environments is a Change to grants that there can be; every
\* other step of an administrator leaves alone what the invariant is about.
LEMMA AdministerChanges ==
  ASSUME TypeInv, Administer
  PROVE  \/ \E rows \in SUBSET Grantable : \E envs : Change(rows, envs)
         \/ UNCHANGED <<memberships, environments, operations, calls>>
<1>0. /\ memberships \subseteq Grantable /\ MembershipRows \subseteq Grantable
      /\ DevMembership \in Grantable
  BY DEF TypeInv, Grantable
<1>1. CASE EnsureDev
  <2>1. memberships \union {DevMembership} \in SUBSET Grantable
    BY <1>0
  <2>. QED
    BY <1>1, <2>1 DEF EnsureDev
<1>2. ASSUME NEW org \in Organizations, CreateOrganization(org)
      PROVE  UNCHANGED <<memberships, environments, operations, calls>>
  BY <1>2 DEF CreateOrganization
<1>3. ASSUME NEW org \in Organizations, NEW p \in Users, Bootstrap(p, org)
      PROVE  \E rows \in SUBSET Grantable : \E envs : Change(rows, envs)
  <2>1. AdminRow(p, org) \in Grantable
    BY DEF Grantable
  <2>2. memberships \union {AdminRow(p, org)} \in SUBSET Grantable
    BY <1>0, <2>1
  <2>3. Change(memberships \union {AdminRow(p, org)}, environments)
    BY <1>3 DEF Bootstrap, AdminRow
  <2>. QED
    BY <2>2, <2>3
<1>4. ASSUME NEW g \in MembershipRows, AddMembership(g)
      PROVE  \E rows \in SUBSET Grantable : \E envs : Change(rows, envs)
  <2>1. memberships \union {g} \in SUBSET Grantable
    BY <1>0
  <2>. QED
    BY <1>4, <2>1 DEF AddMembership
<1>5. ASSUME NEW g \in memberships, RemoveMembership(g)
      PROVE  \E rows \in SUBSET Grantable : \E envs : Change(rows, envs)
  <2>1. memberships \ {g} \in SUBSET Grantable
    BY <1>0
  <2>. QED
    BY <1>5, <2>1 DEF RemoveMembership
<1>6. ASSUME NEW p \in Users, DisablePrincipal(p) \/ EnablePrincipal(p)
      PROVE  UNCHANGED <<memberships, environments, operations, calls>>
  BY <1>6 DEF DisablePrincipal, EnablePrincipal
<1>7. ASSUME NEW e \in Environments, CreateEnvironment(e) \/ ArchiveEnvironment(e)
      PROVE  \E rows \in SUBSET Grantable : \E envs : Change(rows, envs)
  BY <1>0, <1>7 DEF CreateEnvironment, ArchiveEnvironment
<1>. QED
  BY <1>1, <1>2, <1>3, <1>4, <1>5, <1>6, <1>7 DEF Administer

LEMMA AdministerPreserves == IInv /\ Administer => IInv'
<1>. SUFFICES ASSUME IInv, Administer PROVE IInv'
  OBVIOUS
<1>. USE DEF IInv
<1>1. CASE \E rows \in SUBSET Grantable : \E envs : Change(rows, envs)
  <2>1. PICK rows \in SUBSET Grantable : \E envs : Change(rows, envs)
    BY <1>1
  <2>2. PICK envs : Change(rows, envs)
    BY <2>1
  <2>3. UNCHANGED operations
    BY <2>2 DEF Change
  <2>4. TypeInv' /\ CallsInv'
    BY <2>2, ChangePreserves
  <2>. QED
    BY <2>3, <2>4, OperationsStay
<1>2. CASE UNCHANGED <<memberships, environments, operations, calls>>
  <2>1. TypeInv' /\ CallsInv'
    BY <1>2 DEF TypeInv, CallsInv, CallInv, SeesGrants, InstanceStands, ActiveFor, ActiveIn,
                LiveFor, LiveIn, VisibleIn, OneGrant, Serves
  <2>. QED
    BY <1>2, <2>1, OperationsStay
<1>. QED
  BY <1>1, <1>2, AdministerChanges

\* What a call's own steps make of the invariant, but for the operations.
LEMMA CallMoves ==
  ASSUME IInv, NEW s \in Sessions, NEW d \in OpenCalls \union {Idle},
         d # Idle => CallInv(d), CallStep(s, d), UNCHANGED operations
  PROVE  IInv'
BY CallStepPreserves, OperationsStay DEF IInv

LEMMA BeginPreserves ==
  ASSUME IInv, NEW s \in Sessions, NEW p \in Principals, NEW workflow \in Workflows,
         NEW named \in Named, Begin(s, p, workflow, named)
  PROVE  IInv'
<1>. DEFINE d == [pc |-> "authenticated", principal |-> p, workflow |-> workflow,
                  named |-> named, instance |-> Omitted, environment |-> Omitted,
                  seen |-> ActiveFor(p), moved |-> FALSE]
<1>1. ActiveFor(p) \in SUBSET Grantable
  BY DEF IInv, TypeInv, ActiveFor, ActiveIn
<1>2. d \in OpenCalls
  BY <1>1 DEF OpenCalls, Named
<1>3. CallInv(d)
  BY DEF CallInv, SeesGrants
<1>4. CallStep(s, d) /\ UNCHANGED operations
  BY DEF Begin, CallStep
<1>. QED
  BY <1>2, <1>3, <1>4, CallMoves

\* A call that is not idle is open, and the invariant holds of it.
LEMMA OpenCall ==
  ASSUME IInv, NEW s \in Sessions, calls[s].pc \in {"authenticated", "resolved", "authorized"}
  PROVE  calls[s] \in OpenCalls /\ CallInv(calls[s])
BY OpenIsNotIdle DEF IInv, TypeInv, CallsInv, Idle

LEMMA PickInstancePreserves ==
  ASSUME IInv, NEW s \in Sessions, PickInstance(s)
  PROVE  IInv'
<1>. DEFINE c == calls[s]
<1>1. c \in OpenCalls /\ CallInv(c)
  BY OpenCall DEF PickInstance
<1>2. CASE Continue(s, Idle)
  <2>1. CallStep(s, Idle) /\ UNCHANGED operations
    BY <1>2 DEF Continue, CallStep
  <2>. QED
    BY <2>1, CallMoves
<1>3. ASSUME NEW e \in InstanceFor(c), Continue(s, [c EXCEPT !.pc = "resolved", !.instance = e])
      PROVE  IInv'
  <2>. DEFINE d == [c EXCEPT !.pc = "resolved", !.instance = e]
  <2>1. e \in Resolve(c.principal, c.named) /\ e \in Named
    BY <1>3, ResolvesToEnvironment DEF InstanceFor, Named
  <2>2. d \in OpenCalls
    BY <1>1, <2>1 DEF OpenCalls
  <2>3. /\ d.pc = "resolved" /\ d.instance = e
        /\ d.principal = c.principal /\ d.named = c.named /\ d.seen = c.seen
    BY <1>1, <2>1 DEF OpenCalls
  <2>. HIDE DEF c, d
  <2>4. SeesGrants(d)
    BY <1>1, <2>3 DEF CallInv, SeesGrants
  <2>5. InstanceStands(d)
    BY <2>1, <2>3, ResolveNamed, ResolveOmitted DEF InstanceStands
  <2>6. CallInv(d)
    BY <2>3, <2>4, <2>5 DEF CallInv
  <2>7. CallStep(s, d) /\ UNCHANGED operations
    BY <1>3 DEF Continue, CallStep, c, d
  <2>. QED
    BY <2>2, <2>6, <2>7, CallMoves
<1>. QED
  BY <1>2, <1>3 DEF PickInstance

LEMMA AuthorizePreserves ==
  ASSUME IInv, NEW s \in Sessions, Authorize(s)
  PROVE  IInv'
<1>. DEFINE c == calls[s]
<1>1. c \in OpenCalls /\ CallInv(c) /\ c.pc = "resolved"
  BY OpenCall DEF Authorize
<1>2. CASE Continue(s, Idle)
  <2>1. CallStep(s, Idle) /\ UNCHANGED operations
    BY <1>2 DEF Continue, CallStep
  <2>. QED
    BY <2>1, CallMoves
<1>3. ASSUME NEW e \in Targets(c), Continue(s, [c EXCEPT !.pc = "authorized", !.environment = e])
      PROVE  IInv'
  <2>. DEFINE d == [c EXCEPT !.pc = "authorized", !.environment = e]
  <2>1. /\ e \in Resolve(c.principal, c.named) /\ e \in Named
        /\ Evaluate(ActiveFor(c.principal), "prepare_operation", c.workflow, e)
    BY <1>3, ResolvesToEnvironment DEF Targets, Named
  <2>2. d \in OpenCalls
    BY <1>1, <2>1 DEF OpenCalls
  <2>3. /\ d.pc = "authorized" /\ d.environment = e
        /\ d.principal = c.principal /\ d.workflow = c.workflow /\ d.named = c.named
        /\ d.instance = c.instance /\ d.seen = c.seen /\ d.moved = c.moved
    BY <1>1, <2>1 DEF OpenCalls
  <2>. HIDE DEF c, d
  <2>4. SeesGrants(d)
    BY <1>1, <2>3 DEF CallInv, SeesGrants
  <2>5. OneGrant(d)
    <3>1. PICK g \in ActiveFor(c.principal) : Evaluate({g}, "prepare_operation", c.workflow, e)
      BY <2>1, OneIsEnough
    <3>2. g \in d.seen
      BY <1>1, <2>3, <3>1 DEF CallInv, SeesGrants
    <3>. QED
      BY <2>3, <3>1, <3>2 DEF OneGrant
  <2>6. InstanceStands(c)
    BY <1>1 DEF CallInv
  <2>7. Serves(d)
    <3>1. CASE c.named # Omitted
      BY <2>1, <2>3, <2>6, <3>1, ResolveNamed DEF InstanceStands, Serves
    <3>2. CASE c.named = Omitted /\ ~c.moved
      <4>1. LiveFor(c.principal) = {e} /\ LiveFor(c.principal) = {c.instance}
        BY <2>1, <2>6, <3>2, ResolveOmitted DEF InstanceStands
      <4>. QED
        BY <2>3, <4>1 DEF Serves
    <3>3. CASE c.named = Omitted /\ c.moved
      BY <2>3, <3>3 DEF Serves
    <3>. QED
      BY <3>1, <3>2, <3>3
  <2>8. CallInv(d)
    BY <2>3, <2>4, <2>5, <2>7 DEF CallInv
  <2>9. CallStep(s, d) /\ UNCHANGED operations
    BY <1>3 DEF Continue, CallStep, c, d
  <2>. QED
    BY <2>2, <2>8, <2>9, CallMoves
<1>. QED
  BY <1>2, <1>3 DEF Authorize

\* The operation takes over what the call has.
LEMMA CommitPreserves ==
  ASSUME IInv, NEW s \in Sessions, Commit(s)
  PROVE  IInv'
<1>. DEFINE c == calls[s]
            op == [principal |-> c.principal, workflow |-> c.workflow,
                   environment |-> c.environment, instance |-> c.instance,
                   named |-> c.named, seen |-> c.seen, moved |-> c.moved]
<1>1. OneGrant(c) /\ Serves(c)
  BY OpenCall DEF Commit, CallInv
<1>2. operations' = operations \union {op} /\ CallStep(s, Idle)
  BY DEF Commit, CallStep
<1>3. TypeInv' /\ CallsInv'
  BY <1>2, CallStepPreserves DEF IInv
<1>4. /\ op.workflow = c.workflow /\ op.environment = c.environment
      /\ op.instance = c.instance /\ op.named = c.named
      /\ op.seen = c.seen /\ op.moved = c.moved
  OBVIOUS
<1>. HIDE DEF c, op
<1>5. \E g \in op.seen : Evaluate({g}, "prepare_operation", op.workflow, op.environment)
  BY <1>1, <1>4 DEF OneGrant
<1>6. op.instance = op.environment \/ (op.named = Omitted /\ op.moved)
  BY <1>1, <1>4 DEF Serves
<1>7. AuthorizedByOneGrant'
  BY <1>2, <1>5 DEF IInv, AuthorizedByOneGrant
<1>8. InstanceServesEnvironment'
  BY <1>2, <1>6 DEF IInv, InstanceServesEnvironment
<1>. QED
  BY <1>3, <1>7, <1>8 DEF IInv

\* A call that ends without an operation.
LEMMA AbortPreserves ==
  ASSUME IInv, NEW s \in Sessions, Abort(s) \/ Deny(s)
  PROVE  IInv'
<1>1. CallStep(s, Idle) /\ UNCHANGED operations
  BY DEF Abort, Deny, Continue, CallStep
<1>. QED
  BY <1>1, CallMoves

LEMMA StutterPreserves == IInv /\ UNCHANGED vars => IInv'
<1>. SUFFICES ASSUME IInv, UNCHANGED vars PROVE IInv'
  OBVIOUS
<1>1. TypeInv' /\ CallsInv'
  BY DEF IInv, vars, TypeInv, CallsInv, CallInv, SeesGrants, InstanceStands, ActiveFor, ActiveIn,
         LiveFor, LiveIn, VisibleIn, OneGrant, Serves
<1>. QED
  BY <1>1, OperationsStay DEF IInv, vars

-----------------------------------------------------------------------------
(* The theorems.                                                           *)

\* IInv holds throughout: every step of an administrator, of a call, and every
\* stutter keeps it.
THEOREM Invariance == Spec => []IInv
<1>1. Init => IInv
  BY InitHolds
<1>2. IInv /\ [Next]_vars => IInv'
  <2>. SUFFICES ASSUME IInv, [Next]_vars PROVE IInv'
    OBVIOUS
  <2>1. CASE Administer
    BY <2>1, AdministerPreserves
  <2>2. ASSUME NEW s \in Sessions, NEW p \in Principals, NEW w \in Workflows,
               NEW named \in Environments \union {Omitted}, Begin(s, p, w, named)
        PROVE  IInv'
    BY <2>2, BeginPreserves DEF Named
  <2>3. ASSUME NEW s \in Sessions,
               PickInstance(s) \/ Authorize(s) \/ Commit(s) \/ Deny(s) \/ Abort(s)
        PROVE  IInv'
    BY <2>3, PickInstancePreserves, AuthorizePreserves, CommitPreserves, AbortPreserves
  <2>4. CASE UNCHANGED vars
    BY <2>4, StutterPreserves
  <2>. QED
    BY <2>1, <2>2, <2>3, <2>4 DEF Next
<1>. QED
  BY <1>1, <1>2, PTL DEF Spec

\* Every operation was prepared under one membership of its requester that was active
\* at some moment of the call (service._authorize, authorization.evaluate).
THEOREM OneGrantAuthorizes == Spec => []AuthorizedByOneGrant
<1>1. IInv => AuthorizedByOneGrant
  BY DEF IInv
<1>. QED
  BY <1>1, Invariance, PTL

\* The n8n instance that was asked is the one of the operation's environment, but for
\* an omitted environment that could resolve to two in the course of the call
\* (tools._resolved_environment_id, service._apply_environment).
THEOREM InstanceIsTheEnvironments == Spec => []InstanceServesEnvironment
<1>1. IInv => InstanceServesEnvironment
  BY DEF IInv
<1>. QED
  BY <1>1, Invariance, PTL
-----------------------------------------------------------------------------
(* What is listed can be read.                                             *)

\* Memberships are granted one at a time.
THEOREM FinitelyManyMemberships == Spec => []IsFiniteSet(memberships)
<1>1. Init => IsFiniteSet(memberships)
  <2>1. IsFiniteSet({DevMembership})
    BY FS_Singleton
  <2>2. Init => memberships = {DevMembership}
    BY DEF Init
  <2>. QED
    BY <2>1, <2>2
<1>2. IsFiniteSet(memberships) /\ [Next]_vars => IsFiniteSet(memberships)'
  <2>. SUFFICES ASSUME IsFiniteSet(memberships), [Next]_vars PROVE IsFiniteSet(memberships')
    OBVIOUS
  <2>1. \A g : IsFiniteSet(memberships \union {g}) /\ IsFiniteSet(memberships \ {g})
    BY FS_AddElement, FS_RemoveElement
  <2>2. \/ \E g : memberships' = memberships \union {g} \/ memberships' = memberships \ {g}
        \/ memberships' = memberships
    <3>1. CASE Administer
      <4>1. CASE \E org \in Organizations : \E p \in Users : Bootstrap(p, org)
        BY <4>1, Zenon DEF Bootstrap, Change
      <4>2. CASE EnsureDev
        BY <4>2, Zenon DEF EnsureDev, Change
      <4>3. CASE \E g \in MembershipRows : AddMembership(g)
        BY <4>3, Zenon DEF AddMembership, Change
      <4>4. CASE \E g \in memberships : RemoveMembership(g)
        BY <4>4, Zenon DEF RemoveMembership, Change
      <4>. QED
        BY <3>1, <4>1, <4>2, <4>3, <4>4
        DEF Administer, CreateOrganization, DisablePrincipal, EnablePrincipal,
            CreateEnvironment, ArchiveEnvironment, Change
    <3>2. ASSUME NEW s \in Sessions,
                 \/ \E p \in Principals, w \in Workflows, named \in Environments \union {Omitted} :
                      Begin(s, p, w, named)
                 \/ PickInstance(s) \/ Authorize(s) \/ Commit(s) \/ Deny(s) \/ Abort(s)
          PROVE  memberships' = memberships
      BY <3>2 DEF Begin, PickInstance, Authorize, Commit, Deny, Abort, Continue
    <3>. QED
      BY <3>1, <3>2 DEF Next, vars
  <2>. QED
    BY <2>1, <2>2
<1>. QED
  BY <1>1, <1>2, PTL DEF Spec

\* Every role that may use one of the read-only tools may use them all.
LEMMA ReadersReadAll ==
  ASSUME NEW g, NEW tool \in ReadOnlyTools, Grants(g, tool), NEW other \in ReadOnlyTools
  PROVE  Grants(g, other)
<1>1. PICK role \in g.roles : tool \in Capabilities(role)
  BY DEF Grants
<1>2. role \in {"viewer", "operator", "approver", "admin"}
  BY <1>1 DEF Capabilities
<1>3. other \in Capabilities(role)
  BY <1>2 DEF Capabilities
<1>. QED
  BY <1>1, <1>3 DEF Grants

\* An environment a call resolves to belongs to an organization of the caller.
LEMMA ResolvesToOwn ==
  ASSUME NEW p, NEW named, NEW e \in Resolve(p, named)
  PROVE  \E g \in ActiveFor(p) : g.organization = OrganizationOf[e]
BY DEF Resolve, LiveFor, LiveIn, VisibleEnvironments, VisibleIn, ActiveFor

\* What a member of one organization finds in the scope of a listing, it may read.
LEMMA InScopeIsReachable ==
  ASSUME NEW p, NEW named, Cardinality(ActiveFor(p)) = 1, IsFiniteSet(memberships),
         NEW tool \in ReadOnlyTools, NEW e \in Resolve(p, named),
         NEW op \in InScope(ScopeFor(p, tool), e)
  PROVE  Reaches(p, op, "get_operation")
<1>1. PICK g : ActiveFor(p) = {g}
  BY FS_Subset, FS_Singleton DEF ActiveFor, ActiveIn
<1>2. g.organization = OrganizationOf[e]
  BY <1>1, ResolvesToOwn
<1>3. op.workflow \in ScopeFor(p, tool) /\ op.environment = e
  BY DEF InScope
<1>4. Grants(g, tool) /\ op.workflow \in g.workflow_scope /\ g.environment_scope = {"*"}
  BY <1>1, <1>3 DEF ScopeFor, UnscopedEnvironments
<1>5. Grants(g, "get_operation")
  BY <1>4, ReadersReadAll DEF ReadOnlyTools
<1>. QED
  BY <1>1, <1>2, <1>3, <1>4, <1>5
  DEF Reaches, Evaluate, MatchesWorkflow, EnvironmentScopeSatisfied

\* A listing of one workflow is within the scope of a listing of all.
LEMMA ListedIsInScope ==
  ASSUME NEW p, NEW named, NEW w, NEW op \in ListedFor(p, named, w)
  PROVE  \E e \in Resolve(p, named) : op \in InScope(ScopeFor(p, "list_operations"), e)
<1>1. PICK e \in Resolve(p, named) :
        op \in IF w = Omitted THEN InScope(ScopeFor(p, "list_operations"), e)
              ELSE IF MayList(p, w) THEN InScope({w}, e) ELSE {}
  BY DEF ListedFor
<1>2. CASE w = Omitted
  BY <1>1, <1>2
<1>3. CASE w # Omitted
  <2>1. MayList(p, w) /\ op \in InScope({w}, e)
    BY <1>1, <1>3
  <2>2. w \in ScopeFor(p, "list_operations")
    BY <2>1 DEF MayList, ScopeFor, MatchesWorkflow
  <2>. QED
    BY <2>1, <2>2 DEF InScope
<1>. QED
  BY <1>2, <1>3

\* Both kinds of entries that audit events show by a workflow are within the scope.
LEMMA AuditedIsInScope ==
  ASSUME NEW p, NEW named, NEW w
  PROVE  /\ \A op \in Audited(p, named, w).operation :
              \E e \in Resolve(p, named) : op \in InScope(ScopeFor(p, "list_audit_events"), e)
         /\ \A d \in Audited(p, named, w).workflow :
              Resolve(p, named) # {} /\ d.workflow \in ScopeFor(p, "list_audit_events")
<1>. DEFINE scope == ScopeFor(p, "list_audit_events") \intersect
                       (IF w = Omitted THEN Workflows ELSE {w})
<1>1. /\ Audited(p, named, w).operation = UNION {InScope(scope, e) : e \in Resolve(p, named)}
      /\ Audited(p, named, w).workflow =
           {d \in denied : Resolve(p, named) # {} /\ d.workflow \in scope}
  BY DEF Audited
<1>2. scope \subseteq ScopeFor(p, "list_audit_events")
  OBVIOUS
<1>. HIDE DEF scope
<1>. QED
  BY <1>1, <1>2 DEF InScope

\* A workflow in the scope of a listing can be described to a member of one organization.
LEMMA ScopeCanBeDescribed ==
  ASSUME NEW p, NEW named, Cardinality(ActiveFor(p)) = 1, IsFiniteSet(memberships),
         NEW tool \in ReadOnlyTools, NEW w \in ScopeFor(p, tool), Resolve(p, named) # {}
  PROVE  MayDescribe(p, w, named)
<1>1. PICK g : ActiveFor(p) = {g}
  BY FS_Subset, FS_Singleton DEF ActiveFor, ActiveIn
<1>2. PICK e \in Resolve(p, named) : TRUE
  OBVIOUS
<1>3. g.organization = OrganizationOf[e]
  BY <1>1, ResolvesToOwn
<1>4. Grants(g, tool) /\ w \in g.workflow_scope /\ g.environment_scope = {"*"}
  BY <1>1 DEF ScopeFor, UnscopedEnvironments
<1>5. Grants(g, "describe_workflow")
  BY <1>4, ReadersReadAll DEF ReadOnlyTools
<1>. QED
  BY <1>1, <1>3, <1>4, <1>5
  DEF MayDescribe, Evaluate, MatchesWorkflow, EnvironmentScopeSatisfied

\* Of what the listings, the metrics and the audit events tell a member of one
\* organization about, it can read the operations by their ids and the workflows of the
\* denied prepares; a workflow that is listed can be described and an environment that
\* is listed can be named (service.list_operations, _resolve_scope,
\* OperationRepository.list, AuditLogRepository.list_page).
THEOREM WhatIsListedCanBeRead == Spec => []ListedIsReachable
<1>1. IsFiniteSet(memberships) => ListedIsReachable
  <2>. SUFFICES ASSUME IsFiniteSet(memberships),
                       NEW p \in Principals, NEW named \in Environments \union {Omitted}
                PROVE  /\ Cardinality(ActiveFor(p)) = 1 =>
                            /\ \A w \in Workflows \union {Omitted} :
                                 /\ \A op \in ListedFor(p, named, w) \union
                                             Audited(p, named, w).operation :
                                      Reaches(p, op, "get_operation")
                                 /\ \A d \in Audited(p, named, w).workflow :
                                      MayDescribe(p, d.workflow, named)
                            /\ \A op \in Measured(p, named) : Reaches(p, op, "get_operation")
                       /\ \A w \in ListedWorkflows(p, named) : MayDescribe(p, w, named)
                       /\ \A e \in ListedEnvironments(p) : Resolve(p, e) = {e}
    BY DEF ListedIsReachable
  <2>. DEFINE tools == {"list_operations", "get_metrics", "list_audit_events"}
  <2>1. ASSUME Cardinality(ActiveFor(p)) = 1, NEW tool \in tools, NEW e \in Resolve(p, named),
               NEW op \in InScope(ScopeFor(p, tool), e)
        PROVE  Reaches(p, op, "get_operation")
    BY <2>1, InScopeIsReachable DEF ReadOnlyTools
  <2>2. ASSUME Cardinality(ActiveFor(p)) = 1, NEW w,
               NEW op \in ListedFor(p, named, w) \union Audited(p, named, w).operation
        PROVE  Reaches(p, op, "get_operation")
    BY <2>1, <2>2, ListedIsInScope, AuditedIsInScope
  <2>3. ASSUME Cardinality(ActiveFor(p)) = 1, NEW w, NEW d \in Audited(p, named, w).workflow
        PROVE  MayDescribe(p, d.workflow, named)
    BY <2>3, AuditedIsInScope, ScopeCanBeDescribed DEF ReadOnlyTools
  <2>4. ASSUME Cardinality(ActiveFor(p)) = 1, NEW op \in Measured(p, named)
        PROVE  Reaches(p, op, "get_operation")
    BY <2>1, <2>4 DEF Measured
  <2>5. ASSUME NEW w \in ListedWorkflows(p, named)
        PROVE  MayDescribe(p, w, named)
    <3>1. PICK e \in Resolve(p, named) : Evaluate(ActiveFor(p), "list_workflows", w, e)
      BY <2>5 DEF ListedWorkflows
    <3>2. PICK g \in ActiveFor(p) : /\ Grants(g, "list_workflows")
                                    /\ MatchesWorkflow(g, w)
                                    /\ EnvironmentScopeSatisfied(g, e)
      BY <3>1 DEF Evaluate
    <3>3. Grants(g, "describe_workflow")
      BY <3>2, ReadersReadAll DEF ReadOnlyTools
    <3>. QED
      BY <3>2, <3>3 DEF MayDescribe, Evaluate
  <2>6. ASSUME NEW e \in ListedEnvironments(p)
        PROVE  Resolve(p, e) = {e}
    BY AuthorizationAssumption
    DEF ListedEnvironments, Resolve, VisibleEnvironments, VisibleIn
  <2>. QED
    BY <2>2, <2>3, <2>4, <2>5, <2>6
<1>. QED
  BY <1>1, FinitelyManyMemberships, PTL
=============================================================================
