\* Two messages, so that one receive may lease both and the order matters, and long
\* polls.  No symmetry: one of the properties is liveness.
CONSTANTS
  m1 = m1
  m2 = m2
  h1 = h1
  h2 = h2
  Messages <- MCTwoMessages
  Handlers <- MCTwoHandlers
  VisibilityTimeouts = {1}
  WaitTimes = {1}
  MaxNumbers = {1, 2}
  Delays = {0}
  Retentions = {2}
  Skews = {0}
  PollInterval = 1
  MaxClock = 2
  MaxReceives = 2
SPECIFICATION LiveSpec
PROPERTIES
  OldestFirst
  ImplementsLeaseQueue
  RequestsEnd
