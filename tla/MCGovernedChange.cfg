SPECIFICATION Spec
CONSTANTS
  c1 = c1
  c2 = c2
  boot = boot
  g1 = g1
  d1 = d1
  d2 = d2
  g2 = g2
  k1 = k1
  k2 = k2
  s1 = s1
  s2 = s2
  full = full
  narrow = narrow
  Nothing = Nothing
  Candidate = {c1, c2}
  Generation = {boot, g1, g2}
  BootGeneration = boot
  Digest = {d1, d2}
  Closure = {k1, k2}
  CapabilitySet = {s1, s2}
  Grants = {full, narrow}
  MaxVersion = 3
SYMMETRY Symmetry
INVARIANTS
  GenerationsAreEvaluated
  OneActivationPerVersion
PROPERTIES
  RollbackRestores
  ImplementsSystem
CHECK_DEADLOCK FALSE
