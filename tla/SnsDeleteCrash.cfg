\* The process stops, or the database stays busy, in the middle of DeleteTopic.
CONSTANTS
  h1 = h1
  h2 = h2
  alerts = alerts
  k1 = k1
  k2 = k2
  Handlers <- MCOneHandler
  Names <- MCOneName
  Columns = {}
  Values = {}
  TagKeys = {}
  MaxTags = 0
  MaxTopics = 2
  MaxSubs = 2
  Faults = TRUE
  Operations = {"create", "delete", "subscribe"}
SPECIFICATION Spec
INVARIANTS
  SubscriptionsHaveTopics
