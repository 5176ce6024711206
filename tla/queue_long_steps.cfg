SPECIFICATION QueueSpec
CONSTANTS
  Workflows = {1}
  w1 = w1
  w2 = w2
  q1 = q1
  q2 = q2
  Workers = {w1, w2}
  Requests = {}
  RequestKinds = {}
  KindOf <- OneHeadOperation
  MaxAttempts = 2
  LeaseTicks = 2
  StepTicks = 2
  ClaimTicks = 2
  BackoffTicks = 1
  BatchLimit = 1
  MaxRequeues = 1
  MaxCrashes = 0
  NoOne = NoOne
SYMMETRY WorkerSymmetry
PROPERTIES RefinesFinalBoard
