\* Two migrations, one operator each; the second starts from whatever is active.
CONSTANTS
  p1 = p1  p2 = p2  m1 = m1  m2 = m2
  old = old  new = new  next = next  other = other
  NoModel = NoModel  Free = Free
  Procs = {p1, p2}
  Migrations = {m1, m2}
  Namespaces = {old, new, next}
  Foreign = {}
  TargetOf <- TwoTargets
  SourceArg <- ChainSource
  Operates <- OwnOperates
  Ops <- EveryOp
  NumBatches = 1
  Filled = {old}
  MaxGeneration = 3
  MaxFaults = 0
SPECIFICATION Spec
PROPERTIES ImplementsServing
CHECK_DEADLOCK FALSE
