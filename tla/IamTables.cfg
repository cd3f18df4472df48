\* A handler, by requests or by the console's forms, changes users, keys and policies
\* while a listing or a page is read.
CONSTANTS
  h1 = h1
  h2 = h2
  alice = alice
  bob = bob
  p1 = p1
  Handlers <- MCOneHandler
  UserNames <- MCTwoUsers
  PolicyNames <- MCOnePolicy
  Docs = {"allow"}
  MaxUsers = 2
  MaxPolicies = 2
  MaxKeys = 1
  Faults = TRUE
  Operations = {"create_user", "delete_user", "create_policy", "delete_policy", "update_policy", "delete_key", "delete_inline", "create_key", "put_inline", "attach", "detach"}
  Reads = {"list_keys", "get_inline", "list_attached", "principal", "policy"}
SYMMETRY MCSymmetry
SPECIFICATION ConsoleSpec
INVARIANTS
  NoOrphans
  ReadsOfOneUser
  AttachedOrOffered
  GrantsWhereMeant
