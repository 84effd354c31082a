SPECIFICATION FairSpec
CONSTANTS
  Producers = {p1, p2}
  Consumers = {c1, c2}
  Values = {x, y}
  NoValue = NoValue
  capacity = 2
INVARIANTS PermitsAddUp
PROPERTIES ImplementsFifo DataFlows
