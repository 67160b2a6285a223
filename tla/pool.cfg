SPECIFICATION FairSpec
CONSTANTS
  t1 = t1
  t2 = t2
  t3 = t3
  Threads = {t1, t2, t3}
  NoJob = NoJob
  MaxJobs = 4
  MaxNested = 1
INVARIANTS JobsAccounted CountersAgree WaitSound NoLostWakeup FreedWhenUnused
PROPERTIES ImplementsJobPool AllJobsRun WaitReturns DestroyReturns
CHECK_DEADLOCK FALSE
