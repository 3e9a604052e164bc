------------------------------- MODULE Recency -------------------------------
(* What a cache of the recently used promises: its entries in the order of *)
(* their last use, the latest first, and no more of them than it may have. *)
EXTENDS Naturals, Sequences

CONSTANTS Keys, Values, Capacity

VARIABLE entries  \* pairs of a key and its value

Init == entries = << >>

Others(i) == [j \in 1..(Len(entries) - 1) |-> entries[IF j < i THEN j ELSE j + 1]]
Latest(k, v, rest) == entries' = <<<<k, v>>>> \o rest

Read(k) == \E i \in DOMAIN entries : entries[i][1] = k /\ Latest(k, entries[i][2], Others(i))

Renew(k, v) == \E i \in DOMAIN entries : entries[i][1] = k /\ Latest(k, v, Others(i))

\* Of a full line the last goes.
Add(k, v) == /\ \A i \in DOMAIN entries : entries[i][1] # k
             /\ Latest(k, v, IF Len(entries) = Capacity THEN Others(Capacity) ELSE entries)

Next == \E k \in Keys : Read(k) \/ \E v \in Values : Renew(k, v) \/ Add(k, v)
Spec == Init /\ [][Next]_entries
=============================================================================
