SPECIFICATION Spec
CONSTANTS
  s1 = s1
  s2 = s2
  p1 = p1
  p2 = p2
  p3 = p3
  Services = {s1}
  NoService = NoService
  Pids = {p1, p2, p3}
  Position <- MCPosition
  MaxProc <- TwoProcs
  Backlog = 2
  PipeCap = 3
  MaxDeaths = 0
  MaxForkFails = 0
  MayBeKilled = FALSE
SYMMETRY PidSymmetry
INVARIANTS SpawnSane
CHECK_DEADLOCK FALSE
