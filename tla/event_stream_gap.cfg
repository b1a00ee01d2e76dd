SPECIFICATION Spec
CONSTANTS
  c1 = c1  i1 = i1  i2 = i2
  Backends = {"redis"}
  Clients = {c1}
  Instances = {i1, i2}  Worker = i1  Api = i2
  Faults = {}
  MaxFaults = 0  MaxEvents = 2  MaxConnects = 2  BufferMax = 2  Stamp = 99
INVARIANTS Gapless
CHECK_DEADLOCK FALSE
