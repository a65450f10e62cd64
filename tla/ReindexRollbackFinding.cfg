\* A rollback that is interrupted before the backup is restored.
CONSTANTS
  p1 = p1  p2 = p2  m1 = m1  m2 = m2
  old = old  new = new  next = next  other = other
  NoModel = NoModel  Free = Free
  Procs = {p1}
  Migrations = {m1}
  Namespaces = {old, new}
  Foreign = {}
  TargetOf <- OneTarget
  SourceArg <- OneSource
  Operates <- SharedOperates
  Ops <- EveryOp
  NumBatches = 1
  Filled = {old}
  MaxGeneration = 3
  MaxFaults = 1
SPECIFICATION Spec
INVARIANTS RollbackRestoresSource
CHECK_DEADLOCK FALSE
