SPECIFICATION Spec
CONSTANTS Threads = {t1, t2}
          Objects = {o1, o2}
          Null = Null
INVARIANT BuiltOnce
