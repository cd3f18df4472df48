\* A request leaves its trace, and any of its writes may fail, while a console user
\* reads and clears the traces.
\* No symmetry: one of the properties is liveness.
CONSTANTS
  r1 = r1
  Requests <- MCOneRequest
  Services = {"sns"}
  Enforce = TRUE
  Queries <- MCQueries
  PageSize = 1
  DeliveryOf <- MCDeliveryOf
  MaxFailures = 1
  MaxTies = 1
SPECIFICATION LiveSpec
INVARIANTS
  TraceComplete
  DetailWhole
  GraphEnds
  StatusesAgree
  FiltersOffered
PROPERTIES
  RequestsAnswered
