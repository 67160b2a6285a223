SPECIFICATION Spec
CONSTANTS
  t1 = t1
  t2 = t2
  t3 = t3
  Threads = {t1, t2}
  NoJob = NoJob
  MaxJobs = 3
  MaxNested = 0
SYMMETRY ThreadSymmetry
INVARIANTS NoEmptyPull
CHECK_DEADLOCK FALSE
