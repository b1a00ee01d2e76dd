SPECIFICATION FairSpec
CONSTANTS
  i1 = i1  i2 = i2  w1 = w1  w2 = w2  j1 = j1  j2 = j2
  NoWorker = NoWorker  NoRun = NoRun  NoJob = NoJob
  MaxRetries = 1
  Workers = {w1}  Instances = {i1}  Jobs = {j1}
  WorkerOf <- OneSlot  InstanceOf <- OneServer
  Runs = {1}  Legacy = {1}
  StallsAt = {"leased", "start", "stream", "cfinal"}
  Limits <- EveryFault
INVARIANTS TypeOK ClaimConsistent InterruptedOnlyIfAsked
PROPERTIES RefinesLifecycle EveryRunSettles
CHECK_DEADLOCK FALSE
