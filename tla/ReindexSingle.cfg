\* One migration, two processes, foreign models, crashes and failing calls.
\* p1 drives the migration and may roll it back, p2 flips and contracts it too.
CONSTANTS
  p1 = p1  p2 = p2  m1 = m1  m2 = m2
  old = old  new = new  next = next  other = other
  NoModel = NoModel  Free = Free
  Procs = {p1, p2}
  Migrations = {m1}
  Namespaces = {old, new}
  Foreign = {other}
  TargetOf <- OneTarget
  SourceArg <- OneSource
  Operates <- SharedOperates
  Ops <- SecondFlips
  NumBatches = 2
  Filled = {old}
  MaxGeneration = 3
  MaxFaults = 3
SPECIFICATION FairSpec
INVARIANTS ActiveServesCorpus CheckpointBacked SourceRecoverable
PROPERTIES EventuallyComplete NeverDeleteActive
CHECK_DEADLOCK FALSE
