CONSTANTS
  MAX_THING = 0
  MY_THING = 0
  QUEUE_SIZE = 2
  CHANGE = 1
  temp = temp
  zero = zero
  v1 = v1
  noIp = noIp
  ip1 = ip1
  w1 = w1
  Measures = {}
  Values = {zero, v1}
  Zero = zero
  Addresses = {noIp, ip1}
  NoAddress = noIp
  MyAddress = noIp
  Absent = Absent
  Samples <- NoTouch
  Readings <- NoReadings
  Workers = {w1}
  Documents <- NoDocuments
  InitialShadows <- FreshShadow
  Keys <- RaiseKey
  Inputs = {"timer", "alert_button"}
  Threads = {"publish", "command"}
  Connects <- Session
  Accepts <- NoFilter
SPECIFICATION FairSpec
PROPERTIES AlertSettles SendersReleased
