CONSTANTS
  w1 = w1
  w2 = w2
  zero = zero
  one = one
  Things = {0, 1}
  Foreign = {2, 3, 4}
  LongNames = {3}
  PastTable = {2}
  Reporters = {1}
  Listeners = {0}
  Weather = {"alert"}
  Values = {zero, one}
  Zero = zero
  InitialShadows <- Shadows
  Workers = {w1, w2}
  Absent = Absent
  None = None
  MaxOutstanding = 2
  MaxWire = 1
  PUBLISH_RETRY_LIMIT = 1
SPECIFICATION FairSpec
INVARIANTS QuietTablesAgree FaultsExplained
PROPERTIES TablesHeal
