SPECIFICATION CollectionsSpec
CONSTANTS
  Collections = {"table", "tree", "deque", "heap", "cache", "slots"}
  TableKeys = {1, 2, 3, 4, 5}
  TableCap = 4
  MaxTableCap = 16
  TreeKeys = {1, 2, 3, 4, 5, 6, 7}
  Values = {1, 2}
  NoValue = 0
  Items = {a, b}
  Nothing = none
  FirstRoom = 2
  MaxItems = 5
  Ranks = {1, 2, 3}
  MaxHeap = 7
  CachedKeys = {1, 2, 3, 4}
  Capacity = 3
  FirstSlots = 2
  LastSlots = 4
  Generations = 2
INVARIANTS CollectionsTypeOK ShapesHold
PROPERTIES AnswersAsPromised
CHECK_DEADLOCK FALSE
