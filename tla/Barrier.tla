------------------------------ MODULE Barrier -------------------------------
(* Barrier of Concurrency.pol: the last of `parties` arrivals sends a      *)
(* token for each of them, one at a time, and every arrival takes one.     *)
(*                                                                         *)
(* The atomic add and each call on the gate are one step (Channel          *)
(* implements BoundedFifo).  A barrier is used once ("Single use."), but   *)
(* nothing in it stops more threads from arriving than it was made for.    *)
(*                                                                         *)
(* The definitions named _m and _n are faulty variants that the checks     *)
(* must tell from the code; they are not part of the model.                *)
EXTENDS Naturals, FiniteSets

CONSTANTS Threads,  \* the calls of arrive()
          Sizes     \* the constructor's arguments considered

VARIABLES parties,  \* the constructor's argument
          arrived,  \* atomic<int>
          gate,     \* the tokens in the channel
          posted,   \* `i` of the thread that arrived last
          pc

vars == <<parties, arrived, gate, posted, pc>>

At(place) == {t \in Threads : pc[t] = place}
Goto(t, from, to) == pc[t] = from /\ pc' = [pc EXCEPT ![t] = to]

Init == /\ parties \in Sizes
        /\ arrived = 0
        /\ gate = 0
        /\ posted = 0
        /\ pc = [t \in Threads |-> "arriving"]

\* Mutant: whoever arrives from the last one on opens the gate.
Arrive_m(t) == /\ Goto(t, "arriving", IF arrived + 1 >= parties THEN "posting" ELSE "waiting")
               /\ arrived' = arrived + 1
               /\ UNCHANGED <<parties, gate, posted>>

\* Mutant: the last but one opens the gate.
Arrive_n(t) == /\ Goto(t, "arriving", IF arrived + 2 = parties THEN "posting" ELSE "waiting")
               /\ arrived' = arrived + 1
               /\ UNCHANGED <<parties, gate, posted>>

Arrive(t) == /\ Goto(t, "arriving", IF arrived + 1 = parties THEN "posting" ELSE "waiting")
             /\ arrived' = arrived + 1
             /\ UNCHANGED <<parties, gate, posted>>

\* Mutant: the thread that posts leaves itself out.
Post_m(t) == /\ pc[t] = "posting"
             /\ gate < parties /\ gate' = gate + 1
             /\ posted' = posted + 1
             /\ pc' = [pc EXCEPT ![t] = IF posted + 2 < parties THEN "posting" ELSE "waiting"]
             /\ UNCHANGED <<parties, arrived>>

\* Mutant: one token too many.
Post_n(t) == /\ pc[t] = "posting"
             /\ gate < parties /\ gate' = gate + 1
             /\ posted' = posted + 1
             /\ pc' = [pc EXCEPT ![t] = IF posted < parties THEN "posting" ELSE "waiting"]
             /\ UNCHANGED <<parties, arrived>>

\* The gate holds `parties` tokens at most; a send to a full gate waits.
Post(t) == /\ pc[t] = "posting"
           /\ gate < parties /\ gate' = gate + 1
           /\ posted' = posted + 1
           /\ pc' = [pc EXCEPT ![t] = IF posted + 1 < parties THEN "posting" ELSE "waiting"]
           /\ UNCHANGED <<parties, arrived>>

Leave(t) == /\ Goto(t, "waiting", "left")
            /\ gate > 0 /\ gate' = gate - 1
            /\ UNCHANGED <<parties, arrived, posted>>

Step(t) == Arrive(t) \/ Post(t) \/ Leave(t)
Next == \E t \in Threads : Step(t)

Spec == Init /\ [][Next]_vars
-----------------------------------------------------------------------------
TypeOK == /\ parties \in Sizes
          /\ arrived \in 0..Cardinality(Threads)
          /\ gate \in 0..parties
          /\ posted \in 0..parties
          /\ pc \in [Threads -> {"arriving", "posting", "waiting", "left"}]

(* Nobody leaves before as many threads as the barrier is for have arrived. *)
NobodyLeavesEarly == At("left") # {} => Cardinality(Threads \ At("arriving")) >= parties

(* At most as many threads leave as the barrier is for, and the tokens in  *)
(* the gate are for those still in it: one opening, no send that blocks.   *)
TokensAccounted == /\ posted = gate + Cardinality(At("left"))
                   /\ At("posting") # {} => posted < parties /\ gate < parties
                   /\ Cardinality(At("posting")) <= 1

(* When as many threads come as the barrier is for, so many get through;   *)
(* when more come, the others stay.                                        *)
PartiesLeave == <>[](Cardinality(Threads) >= parties
                     => Cardinality(At("left")) = parties)
=============================================================================
