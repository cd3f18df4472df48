\* Two handlers create, delete, tag, configure and subscribe to topics.
CONSTANTS
  h1 = h1
  h2 = h2
  alerts = alerts
  k1 = k1
  k2 = k2
  Handlers <- MCTwoHandlers
  Names <- MCOneName
  Columns = {"policy", "delivery"}
  Values = {0, 1}
  TagKeys <- MCTwoKeys
  MaxTags = 1
  MaxTopics = 2
  MaxSubs = 1
  Faults = TRUE
  Operations = {"create", "delete", "set_topic", "set_subscription", "tag", "untag", "subscribe", "unsubscribe", "console"}
SYMMETRY MCSymmetry
SPECIFICATION Spec
INVARIANTS
  TopicTables
  LateWritesHitLoadedTopic
  CalmTables
PROPERTIES
  ColumnsChangeAsNamed
