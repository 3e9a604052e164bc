----------------------------- MODULE Dictionary ------------------------------
(* What a map of the library promises: each key has the value it was last  *)
(* given, until it is removed.                                             *)
EXTENDS Naturals

CONSTANTS Keys, Values

VARIABLE entries  \* the keys there are, each with its value

Entries == UNION {[present -> Values] : present \in SUBSET Keys}

Init == entries = [k \in {} |-> 0]

Given(k, v) == [x \in DOMAIN entries \cup {k} |-> IF x = k THEN v ELSE entries[x]]
Put(k, v) == entries' = Given(k, v)
Remove(k) == entries' = [x \in DOMAIN entries \ {k} |-> entries[x]]
Clear == entries' = [k \in {} |-> 0]

Next == \/ \E k \in Keys : Remove(k) \/ \E v \in Values : Put(k, v)
        \/ Clear

Spec == Init /\ [][Next]_entries
=============================================================================
