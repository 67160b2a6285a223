SPECIFICATION FairSpec
CONSTANTS
  s1 = s1
  s2 = s2
  p1 = p1
  p2 = p2
  p3 = p3
  Services = {s1, s2}
  NoService = NoService
  Pids = {p1, p2}
  Position <- MCPosition
  MaxProc <- OneProc
  Backlog = 1
  PipeCap = 2
  MaxDeaths = 1
  MaxForkFails = 1
  MayBeKilled = FALSE
PROPERTIES ConnectionsAccepted ThrottleReleased
CHECK_DEADLOCK FALSE
