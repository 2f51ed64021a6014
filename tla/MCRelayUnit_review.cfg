SPECIFICATION Spec
CONSTANTS
  Runs = {r1, r2}
  Reviewers = {v1, v2}
  Parks = TRUE
  MaxVersion = 2
  MaxPackets = 2
  MaxEdits = 1
  MaxCrashes = 1
  None = None
SYMMETRY Symmetry
INVARIANTS NothingForgotten DeliversPending ApprovalsAskFirst
CHECK_DEADLOCK FALSE
