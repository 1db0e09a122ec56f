CONSTANTS
  p1 = p1
  p2 = p2
  k1 = k1
  k2 = k2
  c1 = c1
  c2 = c2
  t1 = t1
  Clients = {p1, p2}
  Operators = {p1}
  Recovery = {p1}
  Testers = {p1}
  Entities = {1}
  EntityKind = {"WAKE", "AGENT"}
  Requested = {"PENDING", "LEASED", "REGISTERED"}
  Commands = {k1, k2}
  Contents = {c1, c2}
  Traces = {t1}
  MaxBackupItems = 2
  MaxExportItems = 1
  MaxBackups = 1
  MaxDamage = 1
SPECIFICATION Spec
SYMMETRY Symmetry
INVARIANTS HistoryIsLinear EvidenceStands BackupIsOnePoint
PROPERTIES ImplementsLog
