CONSTANTS
  MAX_THING = 1
  MY_THING = 0
  QUEUE_SIZE = 3
  CHANGE = 1
  temp = temp
  zero = zero
  v1 = v1
  noIp = noIp
  ip1 = ip1
  w1 = w1
  Measures = {temp}
  Values = {zero, v1}
  Zero = zero
  Addresses = {noIp, ip1}
  NoAddress = noIp
  MyAddress = noIp
  Absent = Absent
  Samples <- StepDown
  Readings <- NoReadings
  Workers = {w1}
  Documents <- TwoDocuments
  InitialShadows <- FreshShadow
  Keys <- NoKeys
  Inputs = {"disconnect"}
  Threads = {"capsense", "display"}
  Connects <- AnySession
  Accepts <- AnyFilters
SPECIFICATION Spec
INVARIANTS ScreenFresh
