------------------------------- MODULE Access -------------------------------
(***************************************************************************)
(* Who may do what: the role matrix and the evaluator of                   *)
(* core/authorization.py.  A membership is                                 *)
(*   [principal, organization, roles, workflow_scope, environment_scope]   *)
(* where workflow_scope is the set of workflows its pattern matches and    *)
(* environment_scope a set of environments, or {"*"}.                      *)
(***************************************************************************)
EXTENDS FiniteSets

CONSTANT OrganizationOf      \* environment -> the organization that owns it

ReadOnlyTools == {"list_workflows", "describe_workflow", "get_operation", "list_operations",
                  "get_metrics", "list_audit_events"}

Capabilities(role) ==
  CASE role = "viewer"   -> ReadOnlyTools
    [] role = "operator" -> ReadOnlyTools \union {"prepare_operation", "execute_operation"}
    [] role = "approver" -> ReadOnlyTools \union {"approve_reject"}
    [] role = "admin"    -> ReadOnlyTools \union
                            {"prepare_operation", "execute_operation", "retry_operation", "approve_reject"}
    [] OTHER -> {}

Grants(g, tool) == \E role \in g.roles : tool \in Capabilities(role)
HasRole(memberships, role) == \E g \in memberships : role \in g.roles

MatchesWorkflow(g, workflow) == workflow \in g.workflow_scope

\* "*" is every environment of the membership's own organization
EnvironmentScopeSatisfied(g, environment) ==
  /\ g.organization = OrganizationOf[environment]
  /\ "*" \in g.environment_scope \/ environment \in g.environment_scope

\* with no environment to check against only an unscoped grant counts
UnscopedEnvironments(g) == g.environment_scope = {"*"}

\* (mutant: one membership may give the role, another the scope)
Evaluate_Mixed(memberships, tool, workflow, environment) ==
  /\ \E g \in memberships : Grants(g, tool)
  /\ \E g \in memberships : MatchesWorkflow(g, workflow)
  /\ \E g \in memberships : EnvironmentScopeSatisfied(g, environment)

Evaluate(memberships, tool, workflow, environment) ==
  \E g \in memberships : /\ Grants(g, tool)
                         /\ MatchesWorkflow(g, workflow)
                         /\ EnvironmentScopeSatisfied(g, environment)
=============================================================================
