SPECIFICATION Spec
CONSTANTS
  c1 = c1
  c2 = c2
  c3 = c3
  Coros = {c1, c2, c3}
  Workers = {w1, w2}
  Mains = {m1}
  Awaits <- Diamond
  Parkers = {c1, c2, c3}
  Blockers = {c2}
  QCAP = 4
  Ends = {"value", "error"}
  OutOfMemory = FALSE
  NoCoro = NoCoro
SYMMETRY Symmetry
INVARIANTS TypeOK OwnedOnce AwaitersReadResults NobodyParkedOnDone NoWakeMissed
PROPERTY OutcomeIsFinal
