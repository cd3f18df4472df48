\* One request in enforce mode while its user's policies and the resource's change.
CONSTANTS
  ann = ann  bob = bob  p1 = p1  h1 = h1  c1 = c1
  Handlers <- MCHandlers
  Clients <- MCClients
  UserNames <- MCUserNames
  PolicyNames <- MCPolicyNames
  Docs = {"allow", "deny", "invalid"}
  Services = {"sqs", "iam"}
  Mode = "enforce"
  MaxUsers = 1
  MaxPolicies = 1
  MaxKeys = 1
  Faults = TRUE
  Operations = {"create_user", "delete_user", "create_policy", "update_policy", "create_key",
                "put_inline", "delete_inline", "attach", "detach",
                "delete_policy", "delete_key"}
SPECIFICATION Spec
INVARIANTS
  DenyStands
  AllowGrounded
SYMMETRY UserSymmetry
