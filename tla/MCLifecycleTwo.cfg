SPECIFICATION FairSpec
CONSTANTS
  o1 = o1
  o2 = o2
  a1 = a1
  c1 = c1
  k1 = k1
  s1 = s1
  g1 = g1
  Nothing = Nothing
  Objective = {o1, o2}
  Rank <- RankOf
  Agent = {a1}
  ClaimCommand = {c1}
  AgentCommand = {k1}
  CapabilitySet = {s1}
  Generation = {g1}
  SetGeneration <- GenerationOf
  BootGeneration = g1
  LeaseSeconds = {1}
  MaxClock = 2
  MaxFence = 2
  MaxCrashes = 1
INVARIANTS
  WakeUntilDone
PROPERTIES
  ReadyCompletes
  LeaseComesBack
CHECK_DEADLOCK FALSE
