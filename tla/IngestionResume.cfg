SPECIFICATION FairSpec
CONSTANTS
  p1 = p1
  p2 = p2
  s1 = s1
  s2 = s2
  k1 = k1
  k2 = k2
  none = none
  NoKey = none
  Procs = {p1, p2}
  Sources = {s1, s2}
  Keys = {k1}
  KeyOf <- Mixed
  Batched <- OneBatched
  EntriesOf <- BothEntries
  Owns <- OwnsOne
  Modes <- BothModes
  BatchSize = 2
  SkipsCursor = FALSE
  Cancels = FALSE
  MaxLog = 2
  MaxFaults = 1
INVARIANT CheckpointCovered
INVARIANT IndexCurrent
PROPERTY EventuallyIndexed
