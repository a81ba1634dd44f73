CONSTANTS
    MaxCommand = 2
    Loads <- MCLoads
    MaxFaults = 1
    Troubles <- SafetyTroubles
    MaxInFlight = 1
SPECIFICATION Spec
CHECK_DEADLOCK FALSE
INVARIANTS
    AnswersAreTrue
PROPERTIES
    UncertaintySettledByProof
    EffectsInFenceOrder
