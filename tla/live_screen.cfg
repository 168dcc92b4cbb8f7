CONSTANTS
  MAX_THING = 2
  MY_THING = 0
  QUEUE_SIZE = 4
  CHANGE = 2
  temp = temp
  zero = zero
  v1 = v1
  noIp = noIp
  ip1 = ip1
  w1 = w1
  Measures = {temp}
  Values = {zero, v1}
  Zero = zero
  Addresses = {noIp, ip1}
  NoAddress = noIp
  MyAddress = noIp
  Absent = Absent
  Samples <- Turns
  Readings <- NoReadings
  Workers = {w1}
  Documents <- NoDocuments
  InitialShadows <- FreshShadow
  Keys <- NoKeys
  Inputs <- NoInputs
  Threads = {"capsense", "display"}
  Connects <- NoSession
  Accepts <- NoFilter
SPECIFICATION FairSpec
INVARIANTS DispThingInRange
PROPERTIES SelectionShown
