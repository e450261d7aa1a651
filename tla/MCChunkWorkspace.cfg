SPECIFICATION FairSpec
CONSTANTS
  Supervisors = {p1, p2}
  ChunkCount = 3
  ResumePolicies = {"resume", "error_if_exists"}
INVARIANTS
  AuthorsDoNotInterleave
  RecoverySucceeds
  FinishedRunIsComplete
PROPERTIES
  ImplementsChunkLog
  EveryAttemptEnds
CHECK_DEADLOCK FALSE
