SPECIFICATION FairStrandSpec
CONSTANTS
  c1 = c1  c2 = c2
  a = a  b = b  x = x  child = child
  Clients = {c1, c2}
  Workers = {w1}
  Tasks = {a, b}
  Source <- PairSource
  Nodes = {n1, n2}
  Null = Null
PROPERTIES AddedTasksRun
