SPECIFICATION MemorySpec
CONSTANTS
  Kinds = {"region", "ring", "heap", "arena", "vault", "import", "weak"}
  o1 = o1
  o2 = o2
  o3 = o3
  o4 = o4
  Objects = {o1, o2, o3, o4}
  Size <- ObjectSizes
  Destructible <- WithDestructor
  PoolMax = 1
  Cap = 9
  MaxBlocks = 2
  MaxMarks = 2
  Flavors = {"pool", "stack"}
  BelowMarks = FALSE
  RingCap = 3
  MaxMade = 8
  Entries <- Methods
  CodeEnd = 8
  Vault = 5
  Slots = 3
  Longest = 2
  Unknown = 2
  Pool = 3
  Meta = 2
  Seeds = {6}
  Demands = {1, 2}
  MaxPieces = 3
  MovesTop = FALSE
  Threads = {t1, t2}
  Requests = {1, 2, 3, 4}
  Areas = {a1, a2}
  CacheSlots = 1
  MaxOut = 2
  MaxDrift = 2
  Plain <- Statements
  Cascaded <- Cascades
  BaseFirst = TRUE
  Things = {x1, x2, x3}
  Places = {1, 2, 3}
  Weak <- WeakFields
  Ways = {"delete", "scope"}
  ToDying = FALSE
  Null = Null
SYMMETRY Alike
INVARIANTS MemoryTypeOK NothingOverlaps RegistryIsTheLiving EndedOnce CountsAgree NeverInDestroyedCode WholeOrGone WeakNeverDangles
PROPERTIES NewestFirst
CHECK_DEADLOCK FALSE
