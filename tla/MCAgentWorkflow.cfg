SPECIFICATION Spec
CONSTANTS
  Callers = {c1, c2}
  r1 = r1
  r2 = r2
  unpublished = unpublished
  Intents <- FormalOnly
  Runs <- MCRuns
  PublishedRuns <- MCPublished
  Papers <- MCPapers
  Rewritings <- MCRewritings
  GrantChoices <- MCGrantChoices
  MaxClock = 1
  MaxGrants = 3
  MaxCalls = 10
  MaxTrouble = 1
  None = None
  Torn = Torn
SYMMETRY Symmetric
INVARIANTS
  NoStageUnauthorized
  EvidenceChain
CHECK_DEADLOCK FALSE
