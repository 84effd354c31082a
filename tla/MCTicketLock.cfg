SPECIFICATION FairSpec
CONSTANTS
  Threads = {t1, t2, t3}
  NoThread = NoThread
  MaxTickets = 5
INVARIANTS NoAbandonedTicket
PROPERTIES ImplementsLock NoOvertaking FailureJustified StarvationFree
