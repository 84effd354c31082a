SPECIFICATION PoolsSpec
CONSTANTS
  c1 = c1  c2 = c2
  a = a  b = b  x = x  child = child
  Workers = {w1, w2}
  Clients = {c1, c2}
  Tasks = {a, b, x, child}
  Source <- MCSource
  NoTask = NoTask
  r1 = r1  r2 = r2  r3 = r3  g = g
  Routines = {r1, r2, r3}
  Generators = {g}
  Main = Main
  Parent <- MCParent
  PoolThreads = {v1, v2}
  NoCo = NoCo
  Stacks = {s1, s2, s3}
  NoStack = NoStack
  MaxSuspends = 1
INVARIANTS JoinDrains StackOwned CurrentExecutes JoinWaitsForFibers
PROPERTIES StopReturns AcceptedTasksRun FibersFinish
