SPECIFICATION FairSpec
CONSTANTS
  s1 = s1
  s2 = s2
  r1 = r1
  r2 = r2
  q1 = q1
  q2 = q2
  Error = Error
  Cancelled = Cancelled
  None = None
  Searches = {s1, s2}
  Queries = {q1, q2}
  QueryOf <- OneEach
  RankOf <- Opposed
  Records = {r1, r2}
  Limit = 2
  Modes <- EitherMode
  Catching <- NoSearches
  MaxChanges = 0
  MaxFaults = 0
CHECK_DEADLOCK FALSE
PROPERTY Termination
