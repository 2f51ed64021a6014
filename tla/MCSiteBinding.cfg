SPECIFICATION BindingFairSpec
CONSTANTS
  Absent = Absent
  Runs = {r1, r2}
  TTL = 0
  MaxDay = 1
  MaxEdits = 1
  MaxFaults = 2
INVARIANTS WrongPluginRunsOut
PROPERTIES WorkGoesOn
