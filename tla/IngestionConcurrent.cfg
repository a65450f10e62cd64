SPECIFICATION Spec
CONSTANTS
  p1 = p1
  p2 = p2
  s1 = s1
  s2 = s2
  k1 = k1
  k2 = k2
  none = none
  NoKey = none
  Procs = {p1, p2}
  Sources = {s1}
  Keys = {k1}
  KeyOf <- SameTwice
  Batched <- OneBatched
  EntriesOf <- OneEach
  Owns <- OwnsTogether
  Modes <- BothModes
  BatchSize = 1
  SkipsCursor = TRUE
  Cancels = TRUE
  MaxLog = 2
  MaxFaults = 1
INVARIANT CheckpointCovered
