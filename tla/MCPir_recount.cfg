SPECIFICATION Spec
CONSTANTS Programs <- Wild
          Ints = {0, 1}
          MaxObjects = 3
INVARIANT GuardsSound
CHECK_DEADLOCK FALSE
