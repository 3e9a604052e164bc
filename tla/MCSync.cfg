SPECIFICATION SyncSpec
CONSTANTS Counters = {c1, c2, c3}
          Waiters = {w1, w2}
          LatchSizes = {0, 2, 3, 4}
          BarrierSizes = {1, 3, 5, 6}
          Half = 16
          Ranges <- Roomy
          Widths <- FewWidths
          b1 = b1
          b2 = b2
          b3 = b3
          Coros = {b1, b2, b3}
          Workers = {k1, k2}
          Mains = {m1}
          Awaits <- Pairs
          Parkers = {b2, b3}
          Blockers = {b1}
          QCAP = 4
          Ends = {"value"}
          OutOfMemory = TRUE
          NoCoro = NoCoro
INVARIANTS SyncTypeOK NobodyThroughEarly TokensAccounted HandsShareItems AllItems
PROPERTIES ImplementsSharedLock NobodyLockedOut
CHECK_DEADLOCK FALSE
