\* Three names are listed in pages of one or two, or all at once, while queues are created and deleted.
\* No symmetry: names are ordered, and one of the properties is liveness.
CONSTANTS
  h1 = h1
  Handlers = {h1}
  Names = {1, 2, 3}
  Columns = {}
  Values = {}
  TagKeys = {}
  MaxTags = 1
  MaxBatch = 1
  MaxCreated = 5
  Operations = {"create", "delete"}
  PrefixSets <- MCPrefixSets
  MaxPage = 2
  StoreLimit = 2
SPECIFICATION ListingSpec
INVARIANTS
  WalkComplete
PROPERTIES
  WalkEnds
