SPECIFICATION FairSpec
CONSTANTS
  Executions = {"a", "b"}
  LastChunk = 1
  Troubles <- MCTroubles
CHECK_DEADLOCK FALSE
INVARIANTS
    LivePromptInCustody
PROPERTIES
    ChunkSentOnce
    YieldAnswered
