----------------------------- MODULE LazyField ------------------------------
(* Reads of a `lazy` field, as lower.cpp compiles them: at every read a    *)
(* guard that tests the slot for null, runs the initialiser and stores     *)
(* what it made; then the load that is the read.  No lock is taken around  *)
(* it: __polaron_lazy_lock of polaron_rt.cpp is never called.              *)
EXTENDS Naturals, FiniteSets

CONSTANTS Threads,
          Objects,  \* bound: what the initialiser may make, an object each time it is run
          Null

VARIABLES slot,   \* the field
          built,  \* the objects the initialiser has made
          pc,
          made,   \* the object a thread is about to store
          got     \* what a thread's last read gave it

vars == <<slot, built, pc, made, got>>

Goto(t, from, to) == pc[t] = from /\ pc' = [pc EXCEPT ![t] = to]

Init == /\ slot = Null
        /\ built = {}
        /\ pc = [t \in Threads |-> "guard"]
        /\ made = [t \in Threads |-> Null]
        /\ got = [t \in Threads |-> Null]

Guard(t) == /\ Goto(t, "guard", IF slot = Null THEN "build" ELSE "load")
            /\ UNCHANGED <<slot, built, made, got>>

Build(t) == /\ Goto(t, "build", "store")
            /\ \E o \in Objects \ built : /\ built' = built \cup {o}
                                          /\ made' = [made EXCEPT ![t] = o]
            /\ UNCHANGED <<slot, got>>

Store(t) == /\ Goto(t, "store", "load")
            /\ slot' = made[t]
            /\ UNCHANGED <<built, made, got>>

\* The load; the thread then goes on to its next read of the field.
Load(t) == /\ Goto(t, "load", "guard")
           /\ got' = [got EXCEPT ![t] = slot]
           /\ UNCHANGED <<slot, built, made>>

Next == \E t \in Threads : Guard(t) \/ Build(t) \/ Store(t) \/ Load(t)
Spec == Init /\ [][Next]_vars
-----------------------------------------------------------------------------
(* "Two threads racing on the first access still build exactly once".      *)
BuiltOnce == Cardinality(built) <= 1
=============================================================================
