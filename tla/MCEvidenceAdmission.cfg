CONSTANTS
  c1 = c1
  c2 = c2
  w1 = w1
  w2 = w2
  k1 = k1
  k2 = k2
  Callers = {c1, c2}
  Workers = {w1, w2}
  Commands = {k1, k2}
  Requests <- MCRequests
  Quota = 1
SPECIFICATION Spec
SYMMETRY Symmetry
INVARIANTS CapacityIsExact AdmissionIsDurable GovernedIsEvidenced
PROPERTIES ImplementsRegister
