SPECIFICATION FairSpec
CONSTANTS
  Senders = {s1, s2}
  Receivers = {r1, r2}
  Values = {v1, v2}
  Capacity = 2
  None = None
INVARIANTS TypeOK WakesCover
PROPERTIES ImplementsFifo NobodyLeftAsleep
