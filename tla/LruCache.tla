------------------------------ MODULE LruCache -------------------------------
(* LruCache of Collections.pol: a list of slots, linked both ways in the   *)
(* order of their last use, and a HashMap from keys to slots, taken as the *)
(* Dictionary it implements.                                               *)
(*                                                                         *)
(* An operator X_m or X_n is a plausible mistake in X, not part of the     *)
(* model.                                                                  *)
EXTENDS Integers, Sequences, FiniteSets

CONSTANTS Keys, Stored,
          Room  \* at least one: with none, `put` would use slot -1

CacheAssumption == Room \in Nat \ {0}

VARIABLES cache  \* size, head, tail, slotByKey, and for each slot key, val, prev, next

Nil == -1
Slots == 0..(Room - 1)
Zeros == [s \in Slots |-> 0]

CacheInit ==
  cache = [size |-> 0, head |-> Nil, tail |-> Nil, slotByKey |-> [k \in {} |-> 0],
           key |-> Zeros, val |-> Zeros, prev |-> Zeros, next |-> Zeros]

\* Mutant: unlinking the last slot leaves the tail where it is.
Unlinked_m(c, s) ==
  LET p == c.prev[s]
      n == c.next[s]
  IN  [c EXCEPT !.next = IF p # Nil THEN [@ EXCEPT ![p] = n] ELSE @,
                !.head = IF p # Nil THEN @ ELSE n,
                !.prev = IF n # Nil THEN [@ EXCEPT ![n] = p] ELSE @]

Unlinked(c, s) ==
  LET p == c.prev[s]
      n == c.next[s]
  IN  [c EXCEPT !.next = IF p # Nil THEN [@ EXCEPT ![p] = n] ELSE @,
                !.head = IF p # Nil THEN @ ELSE n,
                !.prev = IF n # Nil THEN [@ EXCEPT ![n] = p] ELSE @,
                !.tail = IF n # Nil THEN @ ELSE p]

PushedHead(c, s) ==
  [c EXCEPT !.prev = [i \in Slots |-> IF i = s THEN Nil ELSE IF i = c.head THEN s ELSE @[i]],
            !.next[s] = c.head,
            !.head = s,
            !.tail = IF @ = Nil THEN s ELSE @]

Touched(c, s) == PushedHead(Unlinked(c, s), s)

\* A key that is not there changes nothing.
Get(k) == /\ k \in DOMAIN cache.slotByKey
          /\ cache' = Touched(cache, cache.slotByKey[k])

Forgotten(c, k) == [c EXCEPT !.slotByKey = [x \in DOMAIN @ \ {k} |-> @[x]]]

\* Mutant: the key that was evicted is still looked up in its slot.
Freed_m(c) == Unlinked(c, c.tail)

\* A full cache gives up the slot that was used longest ago.
Freed(c) == Unlinked(Forgotten(c, c.key[c.tail]), c.tail)

PutNew(k, v) ==
  LET full == cache.size = Room
      s == IF full THEN cache.tail ELSE cache.size
      c == IF full THEN Freed(cache) ELSE [cache EXCEPT !.size = @ + 1]
  IN  /\ k \notin DOMAIN cache.slotByKey
      /\ cache' = PushedHead([c EXCEPT !.key[s] = k, !.val[s] = v,
                                       !.slotByKey = [x \in DOMAIN @ \cup {k} |->
                                                        IF x = k THEN s ELSE @[x]]], s)

PutAgain(k, v) == /\ k \in DOMAIN cache.slotByKey
                  /\ LET s == cache.slotByKey[k]
                     IN  cache' = Touched([cache EXCEPT !.val[s] = v], s)

CacheNext == \E k \in Keys : Get(k) \/ \E v \in Stored : PutNew(k, v) \/ PutAgain(k, v)
CacheSpec == CacheInit /\ [][CacheNext]_cache
-----------------------------------------------------------------------------
CacheTypeOK == /\ cache.size \in 0..Room /\ {cache.head, cache.tail} \subseteq Slots \cup {Nil}
               /\ DOMAIN cache.slotByKey \subseteq Keys
               /\ \A k \in DOMAIN cache.slotByKey : cache.slotByKey[k] \in Slots

\* The slots from the head on, along one kind of link; a ring would not end.
Chain(first, link) ==
  LET f[n \in 0..Room] == IF n = 0 THEN first ELSE IF f[n - 1] = Nil THEN Nil ELSE link[f[n - 1]]
      length == Cardinality({n \in 0..Room : f[n] # Nil})
  IN  [n \in 1..length |-> f[n - 1]]
InUse == Chain(cache.head, cache.next)

(* The two directions of the list run through the same slots, those in     *)
(* use, and the map leads from each of their keys, and no other, to it.    *)
LinksAgree ==
  LET n == Len(InUse)
      back == Chain(cache.tail, cache.prev)
  IN  /\ n = cache.size /\ Len(back) = n /\ \A i \in 1..n : back[i] = InUse[n + 1 - i]
      /\ {InUse[i] : i \in 1..n} = 0..(cache.size - 1)
      /\ DOMAIN cache.slotByKey = {cache.key[s] : s \in 0..(cache.size - 1)}
      /\ \A s \in 0..(cache.size - 1) : cache.slotByKey[cache.key[s]] = s

(* Whatever was read and written before, what is evicted is what was used  *)
(* longest ago, and every other key keeps its value.                       *)
Used == INSTANCE Recency
          WITH Values <- Stored, Capacity <- Room, entries <- [i \in 1..Len(InUse) |->
                             <<cache.key[InUse[i]], cache.val[InUse[i]]>>]
ImplementsRecency == Used!Spec
=============================================================================
