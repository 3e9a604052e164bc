------------------------------- MODULE SlotMap -------------------------------
(* SlotMap of Collections.pol: values reached by handles that say which    *)
(* slot and which of the slot's generations.                               *)
(*                                                                         *)
(* An operator X_m or X_n is a plausible mistake in X, not part of the     *)
(* model.                                                                  *)
EXTENDS Integers, Sequences, FiniteSets

CONSTANTS Things, Unset,
          FirstSlots,   \* the slots of a new map
          LastSlots,    \* bound: a map is not made to grow beyond so many
          Generations   \* bound: a slot is given no more often; it stands for 2^20,
                        \* after which a handle would name the next slot

SlotAssumption == /\ FirstSlots \in Nat \ {0} /\ Generations \in Nat \ {0}
                  /\ LastSlots \in Nat /\ FirstSlots <= LastSlots

VARIABLES slots,   \* value, gen, occ of each slot, the free list and len
          handed   \* every handle insert ever returned, with what was inserted

slotVars == <<slots, handed>>

SlotNumbers(n) == 0..(n - 1)
ToFree(first, last) == [i \in 1..(last - first) |-> first + i - 1]

SlotsInit == /\ slots = [cell |-> [s \in SlotNumbers(FirstSlots) |->
                                     [value |-> Unset, gen |-> 0, occ |-> FALSE]],
                         free |-> ToFree(0, FirstSlots), len |-> 0]
             /\ handed = [h \in {} |-> Unset]

Cells(m) == Cardinality(DOMAIN m.cell)

Enlarged(m) ==
  LET n == Cells(m)
  IN  [m EXCEPT !.cell = [s \in SlotNumbers(2 * n) |->
                            IF s < n THEN m.cell[s]
                            ELSE [value |-> Unset, gen |-> 0, occ |-> FALSE]],
                !.free = ToFree(n, 2 * n)]

Handle(s, gen) == s * Generations + gen
SlotOf(h) == h \div Generations
GenOf(h) == h % Generations

ContainsHandle(h) ==
  LET s == SlotOf(h)
  IN  /\ s < Cells(slots)
      /\ slots.cell[s].occ /\ slots.cell[s].gen = GenOf(h)

\* Mutant: a slot whose handle is stale may be removed again.
Removes_m(h) == SlotOf(h) < Cells(slots)

Removes(h) == ContainsHandle(h)

Insert(x) ==
  LET m == IF slots.free = << >> THEN Enlarged(slots) ELSE slots
      s == m.free[Len(m.free)]
      h == Handle(s, m.cell[s].gen)
  IN  /\ slots.free = << >> => 2 * Cells(slots) <= LastSlots
      /\ m.cell[s].gen < Generations
      /\ slots' = [m EXCEPT !.free = SubSeq(@, 1, Len(@) - 1), !.len = @ + 1,
                            !.cell[s] = [@ EXCEPT !.value = x, !.occ = TRUE]]
      /\ handed' = [y \in DOMAIN handed \cup {h} |-> IF y = h THEN x ELSE handed[y]]

\* Mutant: the generation stays when the slot is given back.
Vacant_m(c) == [c EXCEPT !.occ = FALSE]

Vacant(c) == [c EXCEPT !.occ = FALSE, !.gen = @ + 1]

\* A handle that is stale changes nothing.
Remove(h) ==
  LET s == SlotOf(h)
  IN  /\ Removes(h)
      /\ slots' = [slots EXCEPT !.cell[s] = Vacant(@), !.free = Append(@, s), !.len = @ - 1]
      /\ UNCHANGED handed

SlotsNext == (\E x \in Things : Insert(x)) \/ \E h \in DOMAIN handed : Remove(h)
SlotsSpec == SlotsInit /\ [][SlotsNext]_slotVars
-----------------------------------------------------------------------------
SlotsTypeOK == /\ Cells(slots) \in FirstSlots..LastSlots
               /\ slots.len \in 0..Cells(slots)
               /\ slots.free \in Seq(DOMAIN slots.cell)

(* Of the handles ever handed out, exactly as many reach something as      *)
(* there are things, each what was inserted for it; a free slot is free    *)
(* once.                                                                   *)
HandlesReachTheirOwn ==
  LET good == {h \in DOMAIN handed : ContainsHandle(h)}
      free == {slots.free[i] : i \in DOMAIN slots.free}
  IN  /\ Cardinality(good) = slots.len
      /\ \A h \in good : slots.cell[SlotOf(h)].value = handed[h]
      /\ Cardinality(free) = Len(slots.free) /\ free = {s \in DOMAIN slots.cell : ~slots.cell[s].occ}

(* A handle is handed out once, and one that has gone stale stays so.      *)
HandlesStayStale ==
  [][/\ \A h \in DOMAIN handed : ~ContainsHandle(h) => ~ContainsHandle(h)' /\ handed'[h] = handed[h]
     ]_slotVars
=============================================================================
