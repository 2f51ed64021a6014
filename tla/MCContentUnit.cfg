SPECIFICATION FairSpec
CONSTANTS
  None = None
  MaxVersion = 2
  MaxBodies = 2
  MaxTries = 1
  MaxCrashes = 1
  Jobs = {TRUE}
  Policies = {"send", "park"}
  Bulk = TRUE
INVARIANTS AcceptedIsKnown ConfirmedWasAccepted
PROPERTIES DeliveredStays 
