SPECIFICATION FairQueueSpec
CONSTANTS
  Workflows = {1, 2}
  w1 = w1
  w2 = w2
  q1 = q1
  q2 = q2
  Workers = {w1}
  Requests = {}
  RequestKinds = {}
  KindOf <- FundsAndWinner
  MaxAttempts = 2
  LeaseTicks = 2
  StepTicks = 1
  ClaimTicks = 1
  BackoffTicks = 1
  BatchLimit = 1
  MaxRequeues = 1
  MaxCrashes = 1
  NoOne = NoOne
PROPERTIES EventuallyEnds
