\* A publish meets queues that change and go, and failing statements.
\* No symmetry: one of the properties is liveness.
CONSTANTS
  h1 = h1
  orders = orders
  audit = audit
  Handlers <- MCOneHandler
  Names <- MCTwoNames
  Enforce = TRUE
  Configs <- MCAllConfigs
  MaxQueues = 2
  MaxSubs = 2
  MaxPublishes = 1
  Faults = TRUE
  Operations = {"create", "delete", "configure", "subscribe", "unsubscribe", "publish"}
SPECIFICATION LiveSpec
INVARIANTS
  AnsweredIsComplete
  PolicyEnforced
PROPERTIES
  RequestsEnd
