SPECIFICATION Spec
CONSTANTS
  o1 = o1
  root = root
  v1 = v1
  Nothing = Nothing
  Objective = {o1}
  Grant = {root}
  Version = {v1}
  InitVersion = v1
  AdminId = {revokeId}
  Approval = {a1}
  AdminOp <- MCAdminOp
  Candidates <- MCCandidates
  Chain <- MCChain
  Rank <- MCRank
  Quota <- MCQuota
  Expires <- MCExpires
  Window = 2
  MaxClock = 3
  Stamp = {1, 2}
  Patience = 1
  MaxTries = 2
  MaxFaults = 3
INVARIANTS
  AtMostOnce
  WriteAhead
  CompletionIsObserved
  RecordsAgree
  GuardIsBacked
  AnswerIsDurable
PROPERTIES
  CheckpointsAdvance
  ImplementsEffect
