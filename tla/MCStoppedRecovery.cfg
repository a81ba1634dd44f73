SPECIFICATION Spec
CONSTANTS
  Troubles <- CrashAndFaults
  MaxRevision = 2
  MaxFence = 4
  Overlap = FALSE
PROPERTIES
    StoppedNeverAdopted
