SPECIFICATION CondVarSpec
CONSTANTS
  Waiters = {w1, w2, w3}
  Notifiers = {n1, n2}
  Modulus = 4
  NoThread = NoThread
  Participants = {p1, p2, p3}
  MaxRounds = 3
INVARIANTS NoLostNotification NobodyLeavesEarly
PROPERTIES ItemsAreTaken AllLeave
