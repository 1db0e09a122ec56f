CONSTANTS
  Trees <- MCTrees
  Area <- MCArea
  Explicit <- MCExplicit
  Named = {"old"}
  Rejected = {"robot"}
  Policy = {}
  Gates <- MCGates
  Packets <- MCPackets
  Flags = {}
  ServiceGates = {"V-STATE"}
  ZeroGates = {"V-SCOPE", "V-STATE"}
  BootLogs <- MCLogs
  Values = {0, 1}
  Work <- MCWork
  MaxRuns = 2
  MaxCommands = 1
SPECIFICATION Spec
INVARIANTS AcceptedIsOneRun AcceptedRanOnTree  AcceptedScopeIsClean
CHECK_DEADLOCK FALSE
