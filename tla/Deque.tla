-------------------------------- MODULE Deque --------------------------------
(* Deque of Collections.pol, and Queue, which is it with one way in and    *)
(* one way out: a ring in an array that doubles when it is full.           *)
(*                                                                         *)
(* An operator X_m or X_n is a plausible mistake in X, not part of the     *)
(* model.                                                                  *)
EXTENDS Integers, Sequences, FiniteSets

CONSTANTS Items, Nothing,
          FirstRoom,  \* the length of a new array
          MaxItems    \* bound: how many are in it at once

DequeAssumption == FirstRoom \in Nat \ {0} /\ MaxItems \in Nat /\ Nothing \notin Items

VARIABLES ring,  \* its data, the position of the first item and the count
          taken  \* what the last removal returned

dequeVars == <<ring, taken>>

DequeInit == /\ ring = [data |-> [i \in 0..(FirstRoom - 1) |-> Nothing], head |-> 0, count |-> 0]
             /\ taken = Nothing

Length(r) == Cardinality(DOMAIN r.data)
Place(r, i) == (r.head + i) % Length(r)

\* Mutant: the old array is copied as it lies.
Grown_m(r) ==
  IF r.count < Length(r) THEN r
  ELSE [r EXCEPT !.head = 0,
                 !.data = [i \in 0..(2 * Length(r) - 1) |-> IF i < r.count THEN r.data[i] ELSE Nothing]]

\* The items move to the front of the larger array, the first of them first.
Grown(r) ==
  IF r.count < Length(r) THEN r
  ELSE [r EXCEPT !.head = 0,
                 !.data = [i \in 0..(2 * Length(r) - 1) |->
                             IF i < r.count THEN r.data[Place(r, i)] ELSE Nothing]]

AddLast(x) ==
  LET r == Grown(ring)
  IN  /\ ring.count < MaxItems
      /\ ring' = [r EXCEPT !.data[Place(r, r.count)] = x, !.count = @ + 1]
      /\ UNCHANGED taken

AddFirst(x) ==
  LET r == Grown(ring)
      h == Place(r, Length(r) - 1)
  IN  /\ ring.count < MaxItems
      /\ ring' = [r EXCEPT !.data[h] = x, !.head = h, !.count = @ + 1]
      /\ UNCHANGED taken

\* Removal asks for no item to be there: a caller asks isEmpty first.
RemoveFirst == /\ ring.count > 0
               /\ taken' = ring.data[ring.head]
               /\ ring' = [ring EXCEPT !.head = Place(ring, 1), !.count = @ - 1]

RemoveLast == /\ ring.count > 0
              /\ taken' = ring.data[Place(ring, ring.count - 1)]
              /\ ring' = [ring EXCEPT !.count = @ - 1]

DequeNext == (\E x \in Items : AddLast(x) \/ AddFirst(x)) \/ RemoveFirst \/ RemoveLast
DequeSpec == DequeInit /\ [][DequeNext]_dequeVars
-----------------------------------------------------------------------------
DequeTypeOK == /\ ring.count \in 0..Length(ring) /\ ring.head \in 0..(Length(ring) - 1)
               /\ ring.data \in [0..(Length(ring) - 1) -> Items \cup {Nothing}]
               /\ taken \in Items \cup {Nothing}

(* However the ring has turned and grown, items are added and removed at   *)
(* the two ends of one line of items.                                      *)
Line == INSTANCE Line WITH line <- [i \in 1..ring.count |-> ring.data[Place(ring, i - 1)]]
ImplementsLine == Line!Spec
=============================================================================
