SPECIFICATION Spec
CONSTANTS MaxStatements = 4
          MaxDepth = 2
          Gaps = {"through"}
INVARIANT DefersRun
CHECK_DEADLOCK FALSE
