------------------------------ MODULE HashTable ------------------------------
(* HashMap and HashSet of Collections.pol: open addressing with linear     *)
(* probing in a table of a power of two, and removal that puts back what   *)
(* stood behind.  A set is a map without values that grows by two instead  *)
(* of four.                                                                *)
(*                                                                         *)
(* An operator X_m or X_n is a plausible mistake in X, not part of the     *)
(* model.                                                                  *)
EXTENDS Integers, FiniteSets, FiniteSetsExt

CONSTANTS
  Keys, Hash,  \* Hash[k] is the int that k hashes to
  Values, None,
  FirstCap,    \* the capacity of a new table
  LastCap      \* bound: a table of this capacity is not made to grow

LOCAL Seq == INSTANCE SequencesExt

\* What an instance must give.
TableAssumption == /\ Hash \in [Keys -> Int] /\ FirstCap \in Nat \ {0} /\ LastCap \in Nat
                   /\ None \notin Keys

VARIABLES flavor,  \* "map" or "set"
          table    \* its slots and its count

tableVars == <<flavor, table>>

Free == [used |-> FALSE, key |-> None, value |-> None]
Fresh(cap) == [cap |-> cap, slots |-> [i \in 0..(cap - 1) |-> Free], count |-> 0]

TableInit == flavor \in {"map", "set"} /\ table = Fresh(FirstCap)

Used(t, i) == t.slots[i].used
Home(t, k) == Hash[k] % t.cap
After(t, i) == (i + 1) % t.cap

NoSlot == -1

\* The first slot from i on that is free, or has the key; NoSlot if there is none.
RECURSIVE Probe(_, _, _, _)
Probe(t, k, i, left) ==
  IF left = 0 THEN NoSlot
  ELSE IF ~Used(t, i) \/ t.slots[i].key = k THEN i
  ELSE Probe(t, k, After(t, i), left - 1)

SlotFor(t, k) == Probe(t, k, Home(t, k), t.cap)

Filled(t, i, k, v) == [t EXCEPT !.slots[i] = [used |-> TRUE, key |-> k, value |-> v]]

\* Mutant: a table may go full to the last slot but one, and then on.
TooFull_m(t) == t.count + 1 > t.cap

TooFull(t) == (t.count + 1) * 4 >= t.cap * 3

\* Mutant: what is reinserted stands where it would in the old table.
Rehashed_m(t, cap) ==
  Seq!FoldLeft(LAMBDA new, i : IF Used(t, i - 1)
                           THEN Filled(new, i - 1, t.slots[i - 1].key, t.slots[i - 1].value)
                           ELSE new,
           [Fresh(cap) EXCEPT !.count = t.count], [i \in 1..t.cap |-> i])

\* A larger table, filled in the order of the slots; the keys differ.
Rehashed(t, cap) ==
  Seq!FoldLeft(LAMBDA new, i : LET s == t.slots[i - 1]
                           IN  IF s.used THEN Filled(new, SlotFor(new, s.key), s.key, s.value) ELSE new,
           [Fresh(cap) EXCEPT !.count = t.count], [i \in 1..t.cap |-> i])

Factor == IF flavor = "map" THEN 4 ELSE 2
Reserved(t) == IF TooFull(t) THEN Rehashed(t, Factor * t.cap) ELSE t

\* `put`, of a table that has the room; a set keeps the element it has.
Placed(t, k, v) ==
  LET i == SlotFor(t, k)
  IN  IF Used(t, i) THEN IF flavor = "map" THEN Filled(t, i, k, v) ELSE t
      ELSE [Filled(t, i, k, v) EXCEPT !.count = @ + 1]
PutIn(t, k, v) == Placed(Reserved(t), k, v)

\* What stays behind in the slot is not read by any operation but `get`.
Vacated(t, i) == [t EXCEPT !.slots[i] = Free, !.count = @ - 1]

\* Mutant: only what is not at home is put back, and the first that is ends it.
RECURSIVE Closed_m(_, _, _)
Closed_m(t, j, cap) ==
  IF ~Used(t, j) \/ Home(t, t.slots[j].key) = j THEN t
  ELSE Closed_m(PutIn(Vacated(t, j), t.slots[j].key, t.slots[j].value), (j + 1) % cap, cap)

\* Everything from slot j on to the next free one is taken out and put back.
RECURSIVE Closed(_, _, _)
Closed(t, j, cap) ==
  IF ~Used(t, j) THEN t
  ELSE Closed(PutIn(Vacated(t, j), t.slots[j].key, t.slots[j].value), (j + 1) % cap, cap)

\* Bound: what would grow past the last capacity is not asked.
MayGrow == TooFull(table) => table.cap < LastCap

Put(k, v) == /\ MayGrow
             /\ table' = PutIn(table, k, v)
             /\ UNCHANGED flavor

\* `merge` with a combiner that gives v for what there was.
Merge(k, v) ==
  LET t == Reserved(table)
      i == SlotFor(t, k)
  IN  /\ flavor = "map" /\ MayGrow
      /\ table' = IF Used(t, i) THEN [t EXCEPT !.slots[i].value = v]
                  ELSE [Filled(t, i, k, v) EXCEPT !.count = @ + 1]
      /\ UNCHANGED flavor

Remove(k) ==
  LET i == SlotFor(table, k)
      cap == table.cap
  IN  /\ table' = IF Used(table, i) THEN Closed(Vacated(table, i), (i + 1) % cap, cap) ELSE table
      /\ UNCHANGED flavor

Clear == /\ flavor = "map"
         /\ table' = Fresh(table.cap)
         /\ UNCHANGED flavor

TableNext == \/ \E k \in Keys, v \in IF flavor = "map" THEN Values ELSE {None} : Put(k, v) \/ Merge(k, v)
             \/ \E k \in Keys : Remove(k)
             \/ Clear
TableSpec == TableInit /\ [][TableNext]_tableVars
-----------------------------------------------------------------------------
Present(k) == Used(table, SlotFor(table, k))

TableTypeOK == /\ table.cap \in FirstCap..LastCap /\ DOMAIN table.slots = 0..(table.cap - 1)
               /\ table.count \in 0..table.cap
               /\ \A i \in DOMAIN table.slots : table.slots[i].used => table.slots[i].key \in Keys

(* However keys were put, removed and the table rebuilt, looking for a key *)
(* comes to an end, finds it where it stands and nowhere else, and the     *)
(* count is that of the keys: what the table's own invariants rest on.     *)
KeysAreFound ==
  LET used == {i \in DOMAIN table.slots : Used(table, i)}
  IN  /\ table.count = Cardinality(used) /\ table.count < table.cap
      /\ \A i \in used : SlotFor(table, table.slots[i].key) = i

\* It answers as a Dictionary would.
Map == INSTANCE Dictionary
         WITH Values <- Values \cup {None},
              entries <- [k \in {x \in Keys : Present(x)} |->
                            table.slots[SlotFor(table, k)].value]
ImplementsDictionary == Map!Spec
=============================================================================
