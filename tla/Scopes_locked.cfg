SPECIFICATION Spec
CONSTANTS MaxStatements = 4
          MaxDepth = 2
          Gaps = {"locked"}
INVARIANT HeldOnlyInside
CHECK_DEADLOCK FALSE
