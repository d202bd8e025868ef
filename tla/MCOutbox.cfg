SPECIFICATION OutboxSpec
CONSTANTS
  Parts = {"rows", "window"}
  e1 = e1
  e2 = e2
  s1 = s1
  s2 = s2
  x1 = x1
  x2 = x2
  Tasks = {t1}
  Execs <- TwoSlots
  Starts <- TwoStarts
  NoTask = NoTask
  MaxRetries = 2
  DbMayFail = TRUE
  Ids = {1, 2}
  Executions <- TwoExecutions
  Idle = Idle
  MaxPending = 1
  BatchSize = 2
  ListMayFail = TRUE
SYMMETRY Symmetric
INVARIANTS
  NoUnauthorisedResend
  UnsentRowsHideNoDelivery
  NoDoubleExecution
  WindowIsExact
  WorkConserving
PROPERTIES
  ImplementsDelivery
  OnlyOperatorResolvesUnknown
  ConcurrencyRespected
