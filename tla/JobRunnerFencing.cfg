\* Two processes on one database: a graceful stop and a stall.
SPECIFICATION Spec
CONSTANTS
  j1 = j1 j2 = j2 j3 = j3 p1 = p1 p2 = p2 g1 = g1 g2 = g2 k1 = k1
  NoKey = NoKey NoProc = NoProc NoJob = NoJob
  Jobs = {j1}
  Procs = {p1, p2}
  Lanes = {g1, g2}
  Types <- MCTypes
  Recovery <- MCRecovery
  Concurrency <- MCConcurrency
  Requests <- MCRequests
  GitBatch = {}
  MaxGlobal = 2
  MaxAttempts = 1
  RetryDelay = 0
  JobLease = 2 InstLease = 3 Beat = 1 Renew = 1
  MaxCrashes = 0 MaxStops = 1 MaxStalls = 1 MaxCancels = 0
INVARIANTS SingleHolder SingleExecutor
SYMMETRY MCSymmetry
