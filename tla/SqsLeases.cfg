\* Two handlers contend for one message over a few ticks; clients' clocks are off.
CONSTANTS
  m1 = m1
  m2 = m2
  h1 = h1
  h2 = h2
  Messages <- MCOneMessage
  Handlers <- MCTwoHandlers
  VisibilityTimeouts = {0, 2}
  WaitTimes = {1}
  MaxNumbers = {1}
  Delays = {0, 1}
  Retentions = {3}
  Skews <- MCSkews
  PollInterval = 1
  MaxClock = 3
  MaxReceives = 3
SYMMETRY MCHandlerSymmetry
SPECIFICATION Spec
INVARIANTS
  TypeOK
  LeaseExclusion
  AckedStayGone
  StampsOrdered
PROPERTIES
  NoEarlyDelivery
