CONSTANTS
  Threads = {c1, w1, w2}
  Workers = {w1, w2}
  Jobs = {j1, j2}
  Throwing = {j2}
  NoThread = NoThread
  NoJob = NoJob
  MaxEnqueues = 2
SPECIFICATION DispatcherSpec
INVARIANTS
  NoJobLost
  OneWorkerInOrder
PROPERTIES
  QuitCannotStopWorker
  BacklogDrains
