----------------------------- MODULE SharedLock -----------------------------
(* What a reader/writer lock promises: any number of readers inside, or    *)
(* one writer.                                                             *)
CONSTANT Threads

VARIABLES reading, writing  \* the threads inside

vars == <<reading, writing>>

Init == reading = {} /\ writing = {}

Read(t) == /\ t \notin reading \cup writing /\ writing = {}
           /\ reading' = reading \cup {t}
           /\ UNCHANGED writing

Write(t) == /\ reading = {} /\ writing = {}
            /\ writing' = {t}
            /\ UNCHANGED reading

Leave(t) == /\ t \in reading \cup writing
            /\ reading' = reading \ {t}
            /\ writing' = writing \ {t}

Next == \E t \in Threads : Read(t) \/ Write(t) \/ Leave(t)

Spec == Init /\ [][Next]_vars
=============================================================================
