-------------------------- MODULE MC_Authorization --------------------------
EXTENDS Authorization

Row(org, roles, workflows, envs) ==
  [principal |-> "u", organization |-> org, roles |-> roles, workflow_scope |-> workflows,
   environment_scope |-> envs]

MCOrganizationOf == [e1 |-> "dev", e2 |-> "dev", f1 |-> "acme"]
MCMembershipRows ==
  {Row("dev", {"viewer", "approver"}, {"w1", "w2"}, {"*"}),
   Row("dev", {"operator"}, {"w1"}, {"e2"})}
=============================================================================
