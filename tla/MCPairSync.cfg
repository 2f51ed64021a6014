SPECIFICATION PairSpec
CONSTANTS
  Absent = Absent
  Posts = {1, 2}
  Extra = {2}
  Runs = {r1, r2}
  Lane = r1
  Pairings = {h1, h2}
  PageSize = 1
  PullBatch = 1
  RotationBatch = 1
  MaxOps = 2
  MaxFaults = 1
INVARIANTS NothingSkipped KeysKeepIdentity
 
CHECK_DEADLOCK FALSE
