SPECIFICATION ExecutorsSpec
CONSTANTS
  Results = {value, error}
  NoResult = NoResult
  Moved = Moved
  c1 = c1  c2 = c2
  a = a  b = b  x = x  child = child
  Clients = {c1, c2}
  Workers = {w1, w2}
  Tasks = {a, b, x, child}
  Source <- MCSource
  Nodes = {n1, n2, n3}
  Null = Null
  j1 = j1  j2 = j2  j3 = j3
  Jobs = {j1, j2, j3}
  Timers = {j1, j2}
  NoJob = NoJob
  Priority <- MCPriority
  HoodThreads = {h1, h2}
  Delays = {0, 1}
  MaxTime = 2
INVARIANTS DeliversOnce NoDataRace InOrder LambdasCovered NeverEarly
PROPERTIES RunsOnExecutor ResultArrives ScheduledBatchRunsAll HigherFirst TimedJobsRun
