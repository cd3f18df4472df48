\* Queues come and go, tagged, configured, filled and purged by requests and by a
\* console user who has the page of one open.  One column: an update of none stands
\* for one of the others.
CONSTANTS
  h1 = h1
  h2 = h2
  orders = orders
  k1 = k1
  k2 = k2
  k3 = k3
  Handlers <- MCTwoHandlers
  Names <- MCOneName
  Columns = {"delay"}
  Values = {0, 1}
  TagKeys <- MCThreeKeys
  MaxTags = 1
  MaxBatch = 2
  MaxCreated = 2
  Operations = {"create", "delete", "purge", "send", "set", "tag", "untag", "page"}
SYMMETRY MCSymmetry
SPECIFICATION Spec
INVARIANTS
  MessagesWhereSent
  TagLimitPerHandler
PROPERTIES
  NoLostUpdate
