SPECIFICATION Spec
CONSTANTS
  Workflows = {1}
  w1 = w1
  w2 = w2
  Workers = {w1}
  q1 = q1
  q2 = q2
  Requests = {q1, q2}
  RequestKinds = {"retry", "force", "attach", "submit", "reconcile"}
  KindOf <- OneTicket
  MaxAttempts = 2
  LeaseTicks = 1
  StepTicks = 0
  ClaimTicks = 0
  BackoffTicks = 1
  BatchLimit = 1
  MaxRequeues = 1
  MaxCrashes = 0
  NoOne = NoOne
SYMMETRY RequestSymmetry
INVARIANTS NoStrandedRow
PROPERTIES RefinesJobBoard
