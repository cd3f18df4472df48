\* A user is deleted, and another created, while a request of the first is under way.
CONSTANTS
  ann = ann  bob = bob  p1 = p1  h1 = h1  c1 = c1
  Handlers <- MCHandlers
  Clients <- MCClients
  UserNames <- MCUserNames
  PolicyNames <- MCPolicyNames
  Docs = {"allow"}
  Services = {"sqs"}
  Mode = "enforce"
  MaxUsers = 2
  MaxPolicies = 0
  MaxKeys = 1
  Faults = FALSE
  Operations = {"create_user", "delete_user", "create_key"}
SPECIFICATION Spec
INVARIANT ActsAsKeyOwner
