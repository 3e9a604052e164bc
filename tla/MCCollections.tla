--------------------------- MODULE MCCollections ---------------------------
(* The collections of the library, each on a small instance of its own and *)
(* through every order of its operations.  They share no state; Init says  *)
(* which a behaviour is about, and the others stay as they begin.          *)
EXTENDS Integers, Sequences, FiniteSets

CONSTANTS
  Collections,                          \* those to check
  TableKeys, TableCap, MaxTableCap,     \* a hash table
  TreeKeys, Values, NoValue,
  Items, Nothing, FirstRoom, MaxItems,  \* a deque
  Ranks, MaxHeap,                       \* a heap
  CachedKeys, Capacity,                 \* a cache
  FirstSlots, LastSlots, Generations    \* a slot map

VARIABLES about, flavor, table, root, size, ring, taken, heap, polled, cache, slots, handed

\* Two keys that begin together at the last slot but one of the first
\* table, one that begins between them and goes around, and one whose hash
\* is negative; they part, and meet others, in the next table.
HashOf == <<14, 14, 15, -1, 30>>

Table == INSTANCE HashTable
           WITH Keys <- TableKeys, Hash <- HashOf, None <- NoValue,
                FirstCap <- TableCap, LastCap <- MaxTableCap
Tree == INSTANCE SearchTree WITH Keys <- TreeKeys
Ends == INSTANCE Deque
Queue == INSTANCE MinHeap
Cached == INSTANCE LruCache WITH Keys <- CachedKeys, Stored <- Values, Room <- Capacity
Arena == INSTANCE SlotMap WITH Things <- Items, Unset <- Nothing

\* The deque and the slot map are ones that the proofs are about.
ASSUME CollectionsFit == Ends!DequeAssumption /\ Arena!SlotAssumption /\ Cached!CacheAssumption

CollectionsInit ==
  /\ about \in Collections
  /\ IF about = "table" THEN Table!TableInit ELSE flavor = "map" /\ table = Table!Fresh(TableCap)
  /\ Tree!TreeInit /\ Ends!DequeInit /\ Queue!HeapInit /\ Cached!CacheInit /\ Arena!SlotsInit

\* One collection takes a step, the others are as they were.
Turn(kind, next, vars) == IF about = kind THEN next ELSE UNCHANGED vars

CollectionsNext ==
  /\ UNCHANGED about
  /\ Turn("table", Table!TableNext, <<flavor, table>>)
  /\ Turn("tree", Tree!TreeNext, <<root, size>>)
  /\ Turn("deque", Ends!DequeNext, <<ring, taken>>)
  /\ Turn("heap", Queue!HeapNext, <<heap, polled>>)
  /\ Turn("cache", Cached!CacheNext, cache)
  /\ Turn("slots", Arena!SlotsNext, <<slots, handed>>)

CollectionsSpec ==
  CollectionsInit
  /\ [][CollectionsNext]_<<about, flavor, table, root, size, ring, taken, heap, polled,
                           cache, slots, handed>>
-----------------------------------------------------------------------------
\* Every collection's state is of its type.
CollectionsTypeOK ==
  /\ about = "table" => Table!TableTypeOK
  /\ about = "deque" => Ends!DequeTypeOK
  /\ about = "heap" => Queue!HeapTypeOK
  /\ about = "cache" => Cached!CacheTypeOK
  /\ about = "slots" => Arena!SlotsTypeOK

(* After any sequence of operations: probing a table finds each of its     *)
(* keys and ends; a tree is ordered and balanced and its neighbours are    *)
(* right; a heap has the least at its root; the two directions of a        *)
(* cache's list and its map agree; a slot map's handles reach what was     *)
(* inserted for them.                                                      *)
ShapesHold ==
  /\ about = "table" => Table!KeysAreFound
  /\ about = "tree" => Tree!StaysBalanced /\ Tree!NeighboursRight
  /\ about = "heap" => Queue!HeapOrdered
  /\ about = "cache" => Cached!LinksAgree
  /\ about = "slots" => Arena!HandlesReachTheirOwn

(* A hash table, and a tree, answer as a dictionary does, a deque as a     *)
(* line with two ends, a heap with the least of what there is, a cache     *)
(* with what was used latest, and a stale handle stays stale.              *)
AnswersAsPromised ==
  /\ Table!ImplementsDictionary
  /\ Tree!ImplementsDictionary
  /\ Ends!ImplementsLine
  /\ Queue!ServesTheLeast
  /\ Cached!ImplementsRecency
  /\ Arena!HandlesStayStale
=============================================================================
