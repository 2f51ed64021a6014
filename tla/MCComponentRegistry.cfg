SPECIFICATION Spec
CONSTANTS
  None = None
  Handlers = {h1, h2}
  v1 = v1
  v2 = v2
  v3 = v3
  v4 = v4
  v5 = v5
  Versions <- MCVersions
  Flaw <- MCFlaw
  Components = {c1, c2}
  Initial = c1
  Runs = {r1}
  MaxAsked = 2
  MaxFaults = 1
INVARIANTS FallbackStaysGood OnlyWhatWasSwitchedOn
 
CHECK_DEADLOCK FALSE
