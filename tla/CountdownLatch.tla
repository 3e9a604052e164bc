--------------------------- MODULE CountdownLatch ---------------------------
(* CountdownLatch of Concurrency.pol: an atomic count and a gate, a        *)
(* Channel<int> of capacity 1 through which one token is handed from       *)
(* waiter to waiter.                                                       *)
(*                                                                         *)
(* The atomic add and the calls on the gate are one step each (Channel     *)
(* implements BoundedFifo); between them a thread can be overtaken.        *)
(* countDown() may be called more often than the count says, and by a      *)
(* thread more than once: each element of Counters is one call.            *)
(*                                                                         *)
(* The definitions named _m are faulty variants that the checks must tell  *)
(* from the code; they are not part of the model.                          *)
EXTENDS Integers, FiniteSets

CONSTANTS Sizes,     \* the constructor's arguments considered
          Counters,  \* the calls of countDown()
          Waiters    \* the calls of waitFor()

VARIABLES n,      \* the constructor's argument
          count,  \* atomic<int>
          gate,   \* the tokens in the channel
          pc

vars == <<n, count, gate, pc>>

Calls == Counters \cup Waiters
At(place) == {t \in Calls : pc[t] = place}
Goto(t, from, to) == pc[t] = from /\ pc' = [pc EXCEPT ![t] = to]

Send == gate < 1 /\ gate' = gate + 1
Receive == gate > 0 /\ gate' = gate - 1
-----------------------------------------------------------------------------
\* Mutant: the gate starts with its token, like a semaphore of one permit.
Init_m == /\ n \in Sizes /\ count = n
          /\ gate = 1
          /\ pc = [t \in Calls |-> IF t \in Counters THEN "counting" ELSE "waiting"]

Init == /\ n \in Sizes /\ count = n
        /\ gate = IF n <= 0 THEN 1 ELSE 0
        /\ pc = [t \in Calls |-> IF t \in Counters THEN "counting" ELSE "waiting"]

\* Mutant: the gate is opened by every call from the last one on.
CountDown_m(c) == /\ Goto(c, "counting", IF count - 1 <= 0 THEN "opening" ELSE "over")
                  /\ count' = count - 1
                  /\ UNCHANGED <<n, gate>>

\* add returns the new value: one call sees zero.
CountDown(c) == /\ Goto(c, "counting", IF count - 1 = 0 THEN "opening" ELSE "over")
                /\ count' = count - 1
                /\ UNCHANGED <<n, gate>>

Open(c) == Goto(c, "opening", "over") /\ Send /\ UNCHANGED <<n, count>>

Pass(w) == Goto(w, "waiting", "passing") /\ Receive /\ UNCHANGED <<n, count>>

\* Mutant: the token is kept.
PassOn_m(w) == Goto(w, "passing", "over") /\ UNCHANGED <<n, count, gate>>

PassOn(w) == Goto(w, "passing", "over") /\ Send /\ UNCHANGED <<n, count>>

Step(t) == \/ t \in Counters /\ (CountDown(t) \/ Open(t))
           \/ t \in Waiters /\ (Pass(t) \/ PassOn(t))
Next == \E t \in Calls : Step(t)

Spec == Init /\ [][Next]_vars
-----------------------------------------------------------------------------
TypeOK == /\ n \in Sizes
          /\ count \in (n - Cardinality(Counters))..n
          /\ gate \in 0..1
          /\ pc \in [Calls -> {"counting", "opening", "waiting", "passing", "over"}]

\* The countDown() calls that have made their add.
Counted == Counters \ At("counting")

(* Nobody comes through before the last of n countDown() calls.            *)
NobodyPassesEarly ==
  (\E w \in Waiters : pc[w] # "waiting") => Cardinality(Counted) >= n

(* There is one token once the latch is open, in the gate or with one      *)
(* thread, however many more calls count down past zero: the send of the   *)
(* opening call and of a waiter never blocks.                              *)
OneToken == gate + Cardinality(At("opening") \cup At("passing"))
            = IF Cardinality(Counted) >= n THEN 1 ELSE 0

(* When enough calls are made, every waiter comes through.                 *)
EverybodyPasses == Cardinality(Counters) >= n => <>(At("waiting") = {})
=============================================================================
