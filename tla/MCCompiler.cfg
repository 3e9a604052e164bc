SPECIFICATION CompilerSpec
CONSTANTS Programs <- Tame
          Ints = {0, 1}
          MaxObjects = 3
          MaxStatements = 5
          MaxDepth = 3
          MaxSize = 4
          Loaders = {l1}
          Hosts = {1, 2, 3}
          Interfaces = {1, 2}
          Bundles <- Published
          Absent = Absent
          Partial = Partial
          NoLoad = NoLoad
INVARIANTS FactsHold GuardsSound PlacesSound CallsSound TakenDownInTurn CacheNeverInTheWay
CHECK_DEADLOCK FALSE
