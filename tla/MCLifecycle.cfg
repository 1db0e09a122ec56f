SPECIFICATION Spec
CONSTANTS
  o1 = o1
  a1 = a1
  a2 = a2
  c1 = c1
  c2 = c2
  k1 = k1
  s1 = s1
  s2 = s2
  g1 = g1
  g2 = g2
  Nothing = Nothing
  Objective = {o1}
  Rank <- RankOf
  Agent = {a1, a2}
  ClaimCommand = {c1, c2}
  AgentCommand = {k1}
  CapabilitySet = {s1, s2}
  Generation = {g1, g2}
  SetGeneration <- GenerationOf
  BootGeneration = g1
  LeaseSeconds = {1, 2}
  MaxClock = 3
  MaxFence = 2
  MaxCrashes = 1
SYMMETRY Symmetry
INVARIANTS
  ExclusiveHolder
  BindingIsBacked
PROPERTIES
  SupersededNeverCommits
  ImplementsLease
CHECK_DEADLOCK FALSE
