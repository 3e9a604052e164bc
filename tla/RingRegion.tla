----------------------------- MODULE RingRegion ------------------------------
(* A `ring` region of polaron_region_core.pol: equal slots around a fixed  *)
(* block, where a new object takes the place of the oldest once the ring   *)
(* has gone full.  Objects leave it by eviction, by `extract` (lower.cpp)  *)
(* and by `release`; the analyzer refuses a `delete`.  The slots have the  *)
(* size of the first object, and destructors do not use the ring.          *)
(*                                                                         *)
(* An operator X_m or X_n is a plausible mistake in X, not part of the     *)
(* model.                                                                  *)
EXTENDS Integers, Sequences, FiniteSets

CONSTANTS RingCap,   \* how many slots fit in the block
          MaxMade    \* bound: the objects made; they are numbered in order

\* What an instance must give.
RingAssumption == RingCap \in Nat \ {0} /\ MaxMade \in Nat

VARIABLES
  ring,       \* header and payload of each slot: its stamp, and the object
  head, held, \* the oldest entry, and how many there are
  made,       \* how many objects were made
  taken,      \* those extracted
  ended,      \* history: destructor calls in order
  torn        \* whether the region was released

ringVars == <<ring, head, held, made, taken, ended, torn>>

RingInit == /\ ring = [i \in 0..(RingCap - 1) |-> [stamp |-> "none", object |-> 0]]
            /\ head = 0 /\ held = 0 /\ made = 0 /\ taken = {}
            /\ ended = << >> /\ torn = FALSE

\* Both indices are at most one lap past the end.
Wrapped(i) == IF i < RingCap THEN i ELSE i - RingCap

\* Which of these slots still hold their object.
StillIn(slots) == {k \in DOMAIN slots : ring[slots[k]].stamp = "Live"}

\* The destructors of what is Live in the slots, in this order.
EndAll(slots) ==
  \E turn \in [1..Cardinality(StillIn(slots)) -> StillIn(slots)] :
    /\ \A j, k \in DOMAIN turn : j < k => turn[j] < turn[k]
    /\ ended' = ended \o [k \in DOMAIN turn |-> ring[slots[turn[k]]].object]

\* Mutant: the oldest entry is not asked whether it is still there.
Push_m ==
  /\ ~torn /\ made < MaxMade
  /\ LET at == Wrapped(head + held)
         full == held = RingCap
     IN  /\ ring' = [ring EXCEPT ![at] = [stamp |-> "Live", object |-> made + 1]]
         /\ head' = IF full THEN Wrapped(head + 1) ELSE head
         /\ held' = IF full THEN held ELSE held + 1
         /\ ended' = IF full THEN Append(ended, ring[at].object) ELSE ended
  /\ made' = made + 1
  /\ UNCHANGED <<taken, torn>>

\* Mutant: the head stays where it is.
Push_n ==
  /\ ~torn /\ made < MaxMade
  /\ LET at == Wrapped(head + held)
         full == held = RingCap
     IN  /\ ring' = [ring EXCEPT ![at] = [stamp |-> "Live", object |-> made + 1]]
         /\ head' = head
         /\ held' = IF full THEN held ELSE held + 1
         /\ EndAll(IF full THEN <<at>> ELSE << >>)
  /\ made' = made + 1
  /\ UNCHANGED <<taken, torn>>

\* `new T in region R`: the slot behind the newest, which is the oldest's when full.
Push ==
  /\ ~torn /\ made < MaxMade
  /\ LET at == Wrapped(head + held)
         full == held = RingCap
     IN  /\ ring' = [ring EXCEPT ![at] = [stamp |-> "Live", object |-> made + 1]]
         /\ head' = IF full THEN Wrapped(head + 1) ELSE head
         /\ held' = IF full THEN held ELSE held + 1
         /\ EndAll(IF full THEN <<at>> ELSE << >>)
  /\ made' = made + 1
  /\ UNCHANGED <<taken, torn>>

\* `extract`: the bytes move to the heap; the slot is stamped, and stays in the circle.
Take(i) ==
  /\ ~torn /\ ring[i].stamp = "Live"
  /\ ring' = [ring EXCEPT ![i].stamp = "Freed"]
  /\ taken' = taken \cup {ring[i].object}
  /\ UNCHANGED <<head, held, made, ended, torn>>

\* Mutant: slots are taken from the start of the block.
Tear_m ==
  LET slots == [k \in 1..held |-> k - 1]
  IN  /\ ~torn /\ torn' = TRUE
      /\ EndAll(slots)
      /\ ring' = [i \in DOMAIN ring |-> IF \E k \in StillIn(slots) : slots[k] = i
                                        THEN [ring[i] EXCEPT !.stamp = "Freed"] ELSE ring[i]]
      /\ held' = 0
      /\ UNCHANGED <<head, made, taken>>

\* `release`: the entries that are left, the oldest first.
Tear ==
  LET slots == [k \in 1..held |-> Wrapped(head + k - 1)]
  IN  /\ ~torn /\ torn' = TRUE
      /\ EndAll(slots)
      /\ ring' = [i \in DOMAIN ring |-> IF \E k \in StillIn(slots) : slots[k] = i
                                        THEN [ring[i] EXCEPT !.stamp = "Freed"] ELSE ring[i]]
      /\ held' = 0
      /\ UNCHANGED <<head, made, taken>>

RingNext == Push \/ Tear \/ \E i \in DOMAIN ring : Take(i)
RingSpec == RingInit /\ [][RingNext]_ringVars
-----------------------------------------------------------------------------
RingTypeOK ==
  /\ ring \in [0..(RingCap - 1) -> [stamp : {"none", "Live", "Freed"}, object : 0..MaxMade]]
  /\ head \in DOMAIN ring /\ held \in 0..RingCap
  /\ taken \subseteq 1..made /\ ended \in Seq(1..made)

\* The latest objects, as many as there are slots: none once the region is gone.
Window == IF torn THEN {} ELSE {o \in 1..made : o > made - RingCap}

(* The ring is a window of the latest objects: an object has been ended    *)
(* once, and in the order of their making, exactly if it has fallen out of *)
(* the window and was not extracted before; the others stand in the ring.  *)
WindowOfTheLatest ==
  /\ \A i, j \in DOMAIN ended : i < j => ended[i] < ended[j]
  /\ {ended[i] : i \in DOMAIN ended} = (1..made) \ (Window \cup taken)
  /\ {ring[i].object : i \in {j \in DOMAIN ring : ring[j].stamp = "Live"}} = Window \ taken
=============================================================================
