SPECIFICATION Spec
CONSTANTS
  r1 = r1
  r2 = r2
  root = root
  child = child
  v1 = v1
  v2 = v2
  a1 = a1
  revokeId = revokeId
  rotateId = rotateId
  a2 = a2
  Nothing = Nothing
  Request = {r1, r2}
  Grant = {root, child}
  Version = {v1, v2}
  InitVersion = v1
  AdminId = {revokeId, rotateId}
  Approval = {a1, a2}
  AdminOp <- MCAdminOp
  Candidates <- MCCandidates
  Chain <- MCChain
  Rank <- MCRank
  Quota <- MCQuota
  Expires <- MCExpires
  Window = 2
  MaxClock = 3
  Stamp = {1, 2}
  Evaluation = {r2}
SYMMETRY Symmetry
INVARIANTS
  EffectQuota
  UsageExact
  EpochFencesRevocation
  OneApprovalPerOperation
PROPERTIES
  CommitInsideWindow
  AuthorizedIsCurrent
  ImplementsLicence
