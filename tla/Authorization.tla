---------------------------- MODULE Authorization ----------------------------
(***************************************************************************)
(* Identities, memberships and environments in v2, changed from the        *)
(* command line while tool calls are in flight (core/identity.py,          *)
(* core/service.py, cli/commands/identity.py and environment.py).          *)
(*                                                                         *)
(* A prepare_operation call authenticates in a transaction of its own,     *)
(* resolves its environment to pick the n8n instance (mcp/tools.py), then  *)
(* resolves it again and is authorized (service.prepare_operation), asks   *)
(* that instance, and commits.  Each of these reads what is committed at   *)
(* its own moment, so an administrator's change can fall between any two.  *)
(* Token validation is abstracted to "the caller is p"; the registry's     *)
(* workflows are all enabled; what n8n answers is left to Preflight.       *)
(***************************************************************************)
EXTENDS Access, Naturals, TLC

CONSTANTS Users, Dev,               \* OIDC users; the local principal of CLI and stdio
          Organizations, DevOrganization,
          Environments, DevEnvironment,
          Workflows,
          MembershipRows,           \* grants an administrator may make
          Sessions,
          MaxOperations,            \* bound: operations prepared and prepares denied
          MaxChanges                \* bound: administrative changes

Principals == Users \union {Dev}
Omitted == "omitted"

ASSUME AuthorizationAssumption == IsFiniteSet(Environments) /\ Omitted \notin Environments

VARIABLES principals,     \* unknown, enabled or disabled
          organizations,  \* those created
          memberships,    \* active rows of organization_memberships
          environments,   \* absent, live or archived
          operations,     \* committed operations
          denied,         \* audit entries operation.prepare_denied; the environment is
                          \* that of the denied call, which the entry does not keep
          calls,          \* per session, the prepare_operation call in flight
          changes         \* changes made so far

vars ==
  <<principals, organizations, memberships, environments, operations, denied, calls, changes>>

Idle == [pc |-> "idle"]
DevMembership == [principal |-> Dev, organization |-> DevOrganization, roles |-> {"admin"},
                  workflow_scope |-> Workflows, environment_scope |-> {"*"}]

\* after `db init` and the first start: the dev principal is admin of its own
\* organization, which has one environment
Init ==
  /\ principals = [p \in Principals |-> IF p = Dev THEN "enabled" ELSE "unknown"]
  /\ organizations = {DevOrganization}
  /\ memberships = {DevMembership}
  /\ environments = [e \in Environments |-> IF e = DevEnvironment THEN "live" ELSE "absent"]
  /\ operations = {}
  /\ denied = {}
  /\ calls = [s \in Sessions |-> Idle]
  /\ changes = 0

(***************************** what a caller sees **************************)
ActiveIn(rows, p) == {g \in rows : g.principal = p}
ActiveFor(p) == ActiveIn(memberships, p)

\* archived environments included
VisibleIn(rows, envs, p) ==
  {e \in Environments : /\ envs[e] # "absent"
                        /\ \E g \in ActiveIn(rows, p) : g.organization = OrganizationOf[e]}
VisibleEnvironments(p) == VisibleIn(memberships, environments, p)

LiveIn(rows, envs, p) == {e \in VisibleIn(rows, envs, p) : envs[e] = "live"}
LiveFor(p) == LiveIn(memberships, environments, p)

\* the environment a call resolves to, as a set: empty when it is refused
Resolve(p, named) ==
  IF named # Omitted THEN VisibleEnvironments(p) \intersect {named}
  ELSE IF Cardinality(LiveFor(p)) = 1 THEN LiveFor(p) ELSE {}

(***************************** administration ******************************)
\* the rows change; open calls remember what they could have seen (history only)
Change(rows, envs) ==
  /\ memberships' = rows
  /\ environments' = envs
  /\ calls' = [s \in Sessions |->
       LET c == calls[s] IN
       IF c = Idle THEN c
       ELSE [c EXCEPT !.seen = @ \union ActiveIn(rows, c.principal),
                      !.moved = @ \/ LiveIn(rows, envs, c.principal) # LiveFor(c.principal)]]
  /\ UNCHANGED <<operations, denied>>

\* every CLI command and server start in v2
EnsureDev ==
  /\ \A g \in ActiveFor(Dev) : g.organization # DevOrganization
  /\ Change(memberships \union {DevMembership}, environments)
  /\ UNCHANGED <<principals, organizations>>

CreateOrganization(org) ==
  /\ org \notin organizations
  /\ organizations' = organizations \union {org}
  /\ UNCHANGED <<principals, memberships, environments, operations, denied, calls>>

\* an unknown identity is provisioned, a disabled one refused
Provisioned(p) == [principals EXCEPT ![p] = IF @ = "unknown" THEN "enabled" ELSE @]

Bootstrap(p, org) ==
  /\ org \notin organizations
  /\ principals[p] # "disabled"
  /\ organizations' = organizations \union {org}
  /\ principals' = Provisioned(p)
  /\ Change(memberships \union
              {[principal |-> p, organization |-> org, roles |-> {"admin"},
                workflow_scope |-> Workflows, environment_scope |-> {"*"}]}, environments)

\* scopes must name what exists; one active membership per organization
AddMembership(g) ==
  /\ g.organization \in organizations
  /\ g.workflow_scope # {}
  /\ \A e \in g.environment_scope \ {"*"} :
       environments[e] # "absent" /\ OrganizationOf[e] = g.organization
  /\ principals[g.principal] # "disabled"
  /\ \A h \in ActiveFor(g.principal) : h.organization # g.organization
  /\ principals' = Provisioned(g.principal)
  /\ Change(memberships \union {g}, environments)
  /\ UNCHANGED organizations

RemoveMembership(g) ==
  /\ g \in memberships
  /\ Change(memberships \ {g}, environments)
  /\ UNCHANGED <<principals, organizations>>

\* disabled_at of the local principal is read by nobody, and left out
DisablePrincipal(p) ==
  /\ principals[p] # "unknown"
  /\ principals' = [principals EXCEPT ![p] = "disabled"]
  /\ UNCHANGED <<organizations, memberships, environments, operations, denied, calls>>

EnablePrincipal(p) ==
  /\ principals[p] # "unknown"
  /\ principals' = [principals EXCEPT ![p] = "enabled"]
  /\ UNCHANGED <<organizations, memberships, environments, operations, denied, calls>>

CreateEnvironment(e) ==
  /\ environments[e] = "absent"
  /\ OrganizationOf[e] \in organizations
  /\ Change(memberships, [environments EXCEPT ![e] = "live"])
  /\ UNCHANGED <<principals, organizations>>

\* never deleted, never brought back
ArchiveEnvironment(e) ==
  /\ environments[e] # "absent"
  /\ Change(memberships, [environments EXCEPT ![e] = "archived"])
  /\ UNCHANGED <<principals, organizations>>

(***************************** a prepare call ******************************)
Continue(s, call) ==
  /\ calls' = [calls EXCEPT ![s] = call]
  /\ UNCHANGED <<principals, organizations, memberships, environments, operations, denied, changes>>

\* verify_token provisions a user or refuses a disabled one; the local
\* principal is taken as it is
Begin(s, p, workflow, named) ==
  /\ calls[s] = Idle
  /\ p = Dev \/ principals[p] # "disabled"
  /\ principals' = Provisioned(p)
  /\ calls' = [calls EXCEPT ![s] = [pc |-> "authenticated", principal |-> p, workflow |-> workflow,
                                    named |-> named, instance |-> Omitted, environment |-> Omitted,
                                    seen |-> ActiveFor(p), moved |-> FALSE]]
  /\ UNCHANGED <<organizations, memberships, environments, operations, denied, changes>>

\* (mutant: the adapters are picked without the caller's argument)
InstanceFor_Default(call) == Resolve(call.principal, Omitted)

\* _resolved_environment_id and _adapters_for
InstanceFor(call) == Resolve(call.principal, call.named)

PickInstance(s) ==
  /\ calls[s].pc = "authenticated"
  /\ IF InstanceFor(calls[s]) = {} THEN Continue(s, Idle)
     ELSE \E e \in InstanceFor(calls[s]) :
            Continue(s, [calls[s] EXCEPT !.pc = "resolved", !.instance = e])

\* the environment may be the target of a new operation, and one membership
\* gives the role and both scopes
Targets(call) ==
  {e \in Resolve(call.principal, call.named) :
     /\ environments[e] # "archived"
     /\ Evaluate(ActiveFor(call.principal), "prepare_operation", call.workflow, e)}

Authorize(s) ==
  /\ calls[s].pc = "resolved"
  /\ IF Targets(calls[s]) = {} THEN Continue(s, Idle)
     ELSE \E e \in Targets(calls[s]) :
            Continue(s, [calls[s] EXCEPT !.pc = "authorized", !.environment = e])

Commit(s) ==
  LET c == calls[s] IN
  /\ c.pc = "authorized"
  /\ Cardinality(operations) + Cardinality(denied) < MaxOperations
  /\ operations' = operations \union
       {[principal |-> c.principal, workflow |-> c.workflow, environment |-> c.environment,
         instance |-> c.instance, named |-> c.named, seen |-> c.seen, moved |-> c.moved]}
  /\ calls' = [calls EXCEPT ![s] = Idle]
  /\ UNCHANGED <<principals, organizations, memberships, environments, denied, changes>>

\* arguments too large or too many operations in the last minute: there is no
\* operation, and the audit entry is committed before the error is raised
Deny(s) ==
  LET c == calls[s] IN
  /\ c.pc = "authorized"
  /\ Cardinality(operations) + Cardinality(denied) < MaxOperations
  /\ denied' = denied \union
       {[principal |-> c.principal, workflow |-> c.workflow, environment |-> c.environment]}
  /\ calls' = [calls EXCEPT ![s] = Idle]
  /\ UNCHANGED <<principals, organizations, memberships, environments, operations, changes>>

\* the instance does not answer, the insert fails: nothing is kept
Abort(s) == calls[s].pc = "authorized" /\ Continue(s, Idle)

Administer ==
  /\ changes < MaxChanges
  /\ changes' = changes + 1
  /\ \/ EnsureDev
     \/ \E org \in Organizations : CreateOrganization(org) \/ \E p \in Users : Bootstrap(p, org)
     \/ \E g \in MembershipRows : AddMembership(g)
     \/ \E g \in memberships : RemoveMembership(g)
     \/ \E p \in Users : DisablePrincipal(p) \/ EnablePrincipal(p)
     \/ \E e \in Environments : CreateEnvironment(e) \/ ArchiveEnvironment(e)

Next ==
  \/ Administer
  \/ \E s \in Sessions :
       \/ \E p \in Principals, w \in Workflows, named \in Environments \union {Omitted} :
            Begin(s, p, w, named)
       \/ PickInstance(s) \/ Authorize(s) \/ Commit(s) \/ Deny(s) \/ Abort(s)

Spec == Init /\ [][Next]_vars

(***************************** what reads answer ***************************)
\* an operation by its id: its owner, or who is authorized where it lives
Reaches(p, op, tool) ==
  \/ op.principal = p
  \/ Evaluate(ActiveFor(p), tool, op.workflow, op.environment)

\* (mutant: memberships restricted to some environments count as well)
ScopeFor_AnyEnvironment(p, tool) ==
  UNION {g.workflow_scope : g \in {h \in ActiveFor(p) : Grants(h, tool)}}

\* the workflows a listing without a workflow is restricted to: the patterns of
\* every unscoped membership, of whatever organization
ScopeFor(p, tool) ==
  UNION {g.workflow_scope : g \in {h \in ActiveFor(p) : Grants(h, tool) /\ UnscopedEnvironments(h)}}

InScope(scope, e) == {op \in operations : op.workflow \in scope /\ op.environment = e}

\* one named workflow is judged without an environment
MayList(p, workflow) ==
  \E g \in ActiveFor(p) : /\ Grants(g, "list_operations")
                          /\ MatchesWorkflow(g, workflow)
                          /\ UnscopedEnvironments(g)

ListedFor(p, named, workflow) ==
  UNION {IF workflow = Omitted THEN InScope(ScopeFor(p, "list_operations"), e)
         ELSE IF MayList(p, workflow) THEN InScope({workflow}, e) ELSE {} : e \in Resolve(p, named)}

Measured(p, named) == UNION {InScope(ScopeFor(p, "get_metrics"), e) : e \in Resolve(p, named)}

\* list_audit_events, by the subject of the entries: the operations, the denied
\* prepares (whose subject is the workflow, of whatever organization they were), the
\* environments (overlay.reloaded) and whether the registry's own are shown.  There is
\* nothing when the environment does not resolve; one named workflow narrows the
\* first two and leaves out the others.
Audited(p, named, workflow) ==
  LET scope == ScopeFor(p, "list_audit_events") \intersect
                 (IF workflow = Omitted THEN Workflows ELSE {workflow})
  IN [operation |-> UNION {InScope(scope, e) : e \in Resolve(p, named)},
      workflow |-> {d \in denied : Resolve(p, named) # {} /\ d.workflow \in scope},
      environment |-> {e \in Resolve(p, named) : workflow = Omitted},
      registry_snapshot |-> /\ Resolve(p, named) # {} /\ workflow = Omitted
                            /\ HasRole(ActiveFor(p), "admin")]

MayDescribe(p, workflow, named) ==
  \E e \in Resolve(p, named) : Evaluate(ActiveFor(p), "describe_workflow", workflow, e)
ListedWorkflows(p, named) ==
  {w \in Workflows : \E e \in Resolve(p, named) : Evaluate(ActiveFor(p), "list_workflows", w, e)}

\* archived environments only for the admins of their organization
ListedEnvironments(p) ==
  {e \in VisibleEnvironments(p) :
     \/ environments[e] = "live"
     \/ HasRole({g \in ActiveFor(p) : g.organization = OrganizationOf[e]}, "admin")}

-----------------------------------------------------------------------------
(***************************** properties **********************************)
\* Every operation was prepared under ONE membership of its requester that was
\* active at some moment of the call: no role borrowed from a second
\* membership, no scope of another organization, no grant that had been
\* removed before the call began (authorization.evaluate, service._authorize).
AuthorizedByOneGrant ==
  \A op \in operations : \E g \in op.seen :
    Evaluate({g}, "prepare_operation", op.workflow, op.environment)

\* The n8n instance that was asked about an operation is the one of the
\* environment the operation is recorded for.  The two are resolved apart, so
\* a call that omits the environment while its live environments change is
\* excepted (tools._resolved_environment_id, service._apply_environment).
InstanceServesEnvironment ==
  \A op \in operations :
    op.instance = op.environment \/ (op.named = Omitted /\ op.moved)

\* What the listings, the metrics and the audit events of an environment tell a member
\* of one organization about, the member can read: an operation by its id, and of an
\* entry about a workflow the workflow.  (Who was denied what in another organization
\* is told as well: DenialsStayInOrganization.)  With memberships in several
\* organizations that fails for operations, because the workflow patterns of all of them
\* are put together (service.list_operations, _resolve_scope,
\* OperationRepository.list, AuditLogRepository.list_page).
ListedIsReachable ==
  \A p \in Principals, named \in Environments \union {Omitted} :
    /\ Cardinality(ActiveFor(p)) = 1 =>
         /\ \A w \in Workflows \union {Omitted} :
              /\ \A op \in ListedFor(p, named, w) \union Audited(p, named, w).operation :
                   Reaches(p, op, "get_operation")
              /\ \A d \in Audited(p, named, w).workflow : MayDescribe(p, d.workflow, named)
         /\ \A op \in Measured(p, named) : Reaches(p, op, "get_operation")
    /\ \A w \in ListedWorkflows(p, named) : MayDescribe(p, w, named)
    /\ \A e \in ListedEnvironments(p) : Resolve(p, e) = {e}

\* The audit events tell nobody that a principal was denied a prepare in an organization
\* that the reader is no member of.  The code breaks it: an entry whose subject is a
\* workflow is selected by the reader's workflow patterns alone.
DenialsStayInOrganization ==
  \A p \in Principals, named \in Environments \union {Omitted} :
    \A d \in Audited(p, named, Omitted).workflow :
      \E g \in ActiveFor(p) : g.organization = OrganizationOf[d.environment]
=============================================================================
