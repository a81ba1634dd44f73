SPECIFICATION FairSpec
CONSTANTS
  Troubles <- CrashAndFaults
  MaxRevision = 2
  MaxFence = 4
  Overlap = FALSE
INVARIANTS
    RequeuedAfterStop
PROPERTIES
    
    CustodyEnds
