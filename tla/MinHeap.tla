------------------------------- MODULE MinHeap -------------------------------
(* PriorityQueue of Collections.pol, and IntHeap: a binary heap in an      *)
(* array.  The doubling of the array copies it and is left out.            *)
(*                                                                         *)
(* An operator X_m or X_n is a plausible mistake in X, not part of the     *)
(* model.                                                                  *)
EXTENDS Integers, SequencesExt, BagsExt

CONSTANTS Ranks,   \* numbers, which compareTo compares
          MaxHeap  \* bound: how many are in it at once

HeapAssumption == Ranks \subseteq Nat /\ MaxHeap \in Nat

VARIABLES heap,   \* the first `count` cells of the array, from 1
          polled  \* what the last `poll` returned

heapVars == <<heap, polled>>

NoRank == -1

HeapInit == heap = << >> /\ polled = NoRank

Parent(i) == i \div 2
Swapped(h, i, j) == [h EXCEPT ![i] = h[j], ![j] = h[i]]

RECURSIVE SiftedUp(_, _)
SiftedUp(h, i) ==
  IF i = 1 \/ h[i] >= h[Parent(i)] THEN h ELSE SiftedUp(Swapped(h, i, Parent(i)), Parent(i))

\* Mutant: the first child that is smaller is taken, not the smaller of two.
Smallest_m(h, i) ==
  IF 2 * i <= Len(h) /\ h[2 * i] < h[i] THEN 2 * i
  ELSE IF 2 * i < Len(h) /\ h[2 * i + 1] < h[i] THEN 2 * i + 1
  ELSE i

\* The smallest of a node and its children; the earlier one of equals.
Smallest(h, i) ==
  LET family == {j \in {i, 2 * i, 2 * i + 1} : j <= Len(h)}
  IN  CHOOSE j \in family : \A x \in family : h[j] < h[x] \/ (h[j] = h[x] /\ j <= x)

RECURSIVE SiftedDown(_, _)
SiftedDown(h, i) ==
  IF h = << >> \/ Smallest(h, i) = i THEN h
  ELSE SiftedDown(Swapped(h, i, Smallest(h, i)), Smallest(h, i))

Add(x) == /\ Len(heap) < MaxHeap
          /\ heap' = SiftedUp(Append(heap, x), Len(heap) + 1)
          /\ UNCHANGED polled

\* The last one goes to the root and sinks.
Poll == /\ heap # << >>
        /\ polled' = heap[1]
        /\ heap' = LET n == Len(heap) - 1
                   IN  SiftedDown([i \in 1..n |-> IF i = 1 THEN heap[n + 1] ELSE heap[i]], 1)

HeapNext == (\E x \in Ranks : Add(x)) \/ Poll
HeapSpec == HeapInit /\ [][HeapNext]_heapVars
-----------------------------------------------------------------------------
HeapTypeOK == heap \in Seq(Ranks) /\ polled \in Ranks \cup {NoRank}

(* A parent is never greater than its children, so that the least is first. *)
HeapOrdered == \A i \in 2..Len(heap) : heap[Parent(i)] <= heap[i]

(* In whatever order ranks come, polling answers with the least of those   *)
(* there are, takes one of it and no other; adding adds one.               *)
ServesTheLeast ==
  [][IF Len(heap') < Len(heap)
     THEN /\ \A i \in DOMAIN heap : polled' <= heap[i]
          /\ ToBag(heap) = BagAdd(ToBag(heap'), polled')
     ELSE \E x \in Ranks : ToBag(heap') = BagAdd(ToBag(heap), x)]_heapVars
=============================================================================
