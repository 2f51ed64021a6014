SPECIFICATION LiveSpec
CONSTANTS
  Runs = {r1}
  Reviewers = {}
  Parks = FALSE
  MaxVersion = 3
  MaxPackets = 3
  MaxEdits = 0
  MaxCrashes = 2
  None = None
 
PROPERTIES VersionShips
CHECK_DEADLOCK FALSE
