SPECIFICATION Spec
CONSTANTS
    None = None
    Booked = 8
    Asset = 1
    Base = 2
    Limits = {6, 16}
    MaxFaults = 2
INVARIANTS Conserved ImportedOnce AdoptedIsImported
PROPERTIES PaidResultIsSaved UploadSettles
CHECK_DEADLOCK FALSE
