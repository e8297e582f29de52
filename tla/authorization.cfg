SPECIFICATION Spec
CONSTANTS
  OrganizationOf <- MCOrganizationOf
  Users = {"u"}
  Dev = "local"
  Organizations = {"dev", "acme"}
  DevOrganization = "dev"
  Environments = {"e1", "e2", "f1"}
  DevEnvironment = "e1"
  Workflows = {"w1", "w2"}
  MembershipRows <- MCMembershipRows
  Sessions = {s1}
  MaxOperations = 1
  MaxChanges = 4
INVARIANTS
  AuthorizedByOneGrant
  InstanceServesEnvironment
  ListedIsReachable
