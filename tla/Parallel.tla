------------------------------ MODULE Parallel ------------------------------
(* Parallel.forRange and forChunks of Concurrency.pol: the static split of *)
(* [from, to) over threads, the calls of the body, and the join.           *)
(*                                                                         *)
(* An int is one of 2 * Half numbers, and arithmetic wraps as the language *)
(* defines it; division truncates towards zero.  forChunks hands its body  *)
(* the slice that a thread of forRange walks: an index is called for in    *)
(* both or in neither.  With one thread both run the body in the caller,   *)
(* over a slice that is the whole range: here, slice 0.                    *)
(*                                                                         *)
(* The definitions named _m and _n are faulty variants that the checks     *)
(* must tell from the code; they are not part of the model.                *)
EXTENDS Integers

CONSTANTS Half,    \* half the number of ints: 2^31 in the program
          Ranges,  \* the pairs <<from, to>> considered
          Widths   \* what Machine.threads() may answer

Ints == (-Half)..(Half - 1)

ASSUME ParallelAssumption == /\ Half \in Nat \ {0, 1}
                             /\ Ranges \subseteq Ints \X Ints
                             /\ Widths \subseteq Ints /\ Widths # {}

\* Two's complement: the int that x is kept as.
Wrap(x) == ((x + Half) % (2 * Half)) - Half

VARIABLES from, to,  \* the arguments
          workers,   \* how many hands the loop is given, 0 before it is known
          started,   \* how many of them run
          next,      \* the index each of those is at
          joined,    \* how many have been joined
          calls,     \* pairs <<i, w>>: the body was called for i by w
          pc         \* the caller: "entry", "start", "join" or "returned"

vars == <<from, to, workers, started, next, joined, calls, pc>>

Count == Wrap(to - from)

\* Mutant: the division rounds down.
Chunk_m == Count \div workers

\* (n + workers - 1) / workers
Chunk == LET sum == Wrap(Count + workers - 1)
         IN IF sum >= 0 THEN sum \div workers ELSE -((-sum) \div workers)

Lo(w) == Wrap(from + Wrap(w * Chunk))

\* Mutant: the last slice is not cut short.
Hi_m(w) == Wrap(Lo(w) + Chunk)
\* Mutant: a slice has its upper end too.
Hi_n(w) == LET end == Wrap(Lo(w) + Chunk + 1) IN IF end > to THEN to ELSE end

Hi(w) == LET end == Wrap(Lo(w) + Chunk) IN IF end > to THEN to ELSE end
-----------------------------------------------------------------------------
Init == /\ \E range \in Ranges : from = range[1] /\ to = range[2]
        /\ workers = 0 /\ started = 0 /\ joined = 0
        /\ next = [w \in {} |-> 0]
        /\ calls = {}
        /\ pc = "entry"

\* At least one hand, and no more than items.
Hands(width, n) == LET least == IF width < 1 THEN 1 ELSE width
                   IN IF least > n THEN n ELSE least

Nothing == /\ pc = "entry" /\ Count <= 0
           /\ pc' = "returned"
           /\ UNCHANGED <<from, to, workers, started, next, joined, calls>>

Enter == /\ pc = "entry" /\ Count > 0
         /\ \E width \in Widths : workers' = Hands(width, Count)
         /\ pc' = "start"
         /\ UNCHANGED <<from, to, started, next, joined, calls>>

\* Mutant: one hand too many is started.
Start_m == /\ pc = "start"
           /\ next' = [w \in 0..started |-> IF w = started THEN Lo(w) ELSE next[w]]
           /\ started' = started + 1
           /\ pc' = IF started = workers THEN "join" ELSE "start"
           /\ UNCHANGED <<from, to, workers, joined, calls>>

Start == /\ pc = "start"
         /\ next' = [w \in 0..started |-> IF w = started THEN Lo(w) ELSE next[w]]
         /\ started' = started + 1
         /\ pc' = IF started + 1 = workers THEN "join" ELSE "start"
         /\ UNCHANGED <<from, to, workers, joined, calls>>

\* Hand w calls the body for its next index.
RunBody(w) == /\ w < started /\ next[w] < Hi(w)
              /\ calls' = calls \cup {<<next[w], w>>}
              /\ next' = [next EXCEPT ![w] = @ + 1]
              /\ UNCHANGED <<from, to, workers, started, joined, pc>>

Join == /\ pc = "join" /\ next[joined] >= Hi(joined)
        /\ joined' = joined + 1
        /\ pc' = IF joined + 1 = workers THEN "returned" ELSE "join"
        /\ UNCHANGED <<from, to, workers, started, next, calls>>

Next == Nothing \/ Enter \/ Start \/ Join \/ \E w \in 0..(workers - 1) : RunBody(w)

Spec == Init /\ [][Next]_vars
-----------------------------------------------------------------------------
TypeOK == /\ <<from, to>> \in Ranges
          /\ workers \in Ints /\ started \in 0..workers /\ joined \in 0..started
          /\ next \in [0..(started - 1) -> Ints]
          /\ calls \subseteq Ints \X (0..(workers - 1))
          /\ pc \in {"entry", "start", "join", "returned"}

(* The ranges that the arithmetic has room for: the length and the end     *)
(* stay below the largest int by the number of hands.                      *)
RangesFit == \A range \in Ranges : \A width \in Widths :
               LET hands == IF width < 1 THEN 1 ELSE width
               IN /\ range[2] - range[1] + hands <= Half
                  /\ range[1] - range[2] <= Half
                  /\ range[2] + hands <= Half

(* No index is called for that is not in [from, to).                       *)
OnlyItems == \A call \in calls : from <= call[1] /\ call[1] < to

(* No two hands call for the same index: what they write is disjoint.      *)
DisjointHands == \A a, b \in calls : a[1] = b[1] => a = b

(* What the hands do is the range's, and each index one hand's.            *)
HandsShareItems == OnlyItems /\ DisjointHands

(* When the call has returned the body has run for every i in [from, to).  *)
AllItems == pc = "returned" =>
              \A i \in Ints : from <= i /\ i < to => \E w \in 0..(workers - 1) : <<i, w>> \in calls
=============================================================================
