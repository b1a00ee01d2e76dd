SPECIFICATION FairSpec
CONSTANTS
  c1 = c1  i1 = i1  i2 = i2
  Backends = {"memory", "redis"}
  Clients = {c1}
  Instances = {i1, i2}  Worker = i1  Api = i2
  Faults = {"redis", "outage", "clock", "quiet", "expiry", "late"}
  MaxFaults = 1  MaxEvents = 1  MaxConnects = 2  BufferMax = 2  Stamp = 99
INVARIANTS TypeOK InOrder MemoryGapless EndIsLast
PROPERTIES StreamsClose
CHECK_DEADLOCK FALSE
