CONSTANTS
  Threads = {t1, t2, t3, t4}
  Jobs = {j1, j2}
  NoThread = NoThread
  NoJob = NoJob
  MaxEnqueues = 3
SPECIFICATION QueueSpec
INVARIANTS
  TypeOK
  PollReturnsJob
  NoLostWakeup
PROPERTY ImplementsFifo
SYMMETRY Symmetry
