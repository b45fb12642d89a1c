\* Every job settles although the process crashes once.
SPECIFICATION FairSpec
CONSTANTS
  j1 = j1 j2 = j2 j3 = j3 p1 = p1 p2 = p2 g1 = g1 g2 = g2 k1 = k1
  NoKey = NoKey NoProc = NoProc NoJob = NoJob
  Jobs = {j1, j2}
  Procs = {p1}
  Lanes = {g1}
  Types <- MCTypes
  Recovery <- MCRecovery
  Concurrency <- MCConcurrency
  Requests <- MCRequests
  GitBatch = {}
  MaxGlobal = 2
  MaxAttempts = 2
  RetryDelay = 1
  JobLease = 2 InstLease = 3 Beat = 1 Renew = 1
  MaxCrashes = 1 MaxStops = 0 MaxStalls = 0 MaxCancels = 0
PROPERTIES EveryJobSettles
