SPECIFICATION FairReload
CONSTANTS
  s1 = s1
  s2 = s2
  p1 = p1
  p2 = p2
  p3 = p3
  Services = {s1, s2}
  NoService = NoService
  Pids = {p1, p2}
  Position <- MCPosition
  MaxProc <- MCMaxProc
  Backlog = 1
  PipeCap = 2
  MaxDeaths = 1
  MaxForkFails = 0
  MayBeKilled = FALSE
  Limits <- MCLimits
  MaxRefreshes = 2
  MaxConnects = 2
INVARIANTS ReloadCounts PanicsExplained NothingLeft ReapedIsWatched
PROPERTIES DeletingEnds
CHECK_DEADLOCK FALSE
