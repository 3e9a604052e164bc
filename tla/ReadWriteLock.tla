---------------------------- MODULE ReadWriteLock ---------------------------
(* ReadWriteLock of Concurrency.pol: two semaphores of one permit and an   *)
(* atomic count of readers.                                                *)
(*                                                                         *)
(* A Semaphore is a Channel<int> holding one token per free permit, and    *)
(* Channel implements BoundedFifo: acquire() and signal() are one step     *)
(* each, and what the channel holds is a number, its tokens being alike.   *)
(* `readers.add` is a step of its own, as are the two semaphore calls that *)
(* a read lock makes around it.                                            *)
(*                                                                         *)
(* The definitions named _m are faulty variants that the checks must tell  *)
(* from the code; they are not part of the model.                          *)
EXTENDS Naturals, FiniteSets

CONSTANT Threads

VARIABLES readerMutex, writeSem,  \* the tokens in the two channels
          readers,                \* atomic<int>
          pc

vars == <<readerMutex, writeSem, readers, pc>>

At(place) == {t \in Threads : pc[t] = place}

Init == /\ readerMutex = 1 /\ writeSem = 1
        /\ readers = 0
        /\ pc = [t \in Threads |-> "out"]

Goto(t, from, to) == pc[t] = from /\ pc' = [pc EXCEPT ![t] = to]

\* Semaphore.acquire and Semaphore.signal, over a channel of capacity 1.
Acquire(sem) == sem > 0 /\ sem' = sem - 1
Signal(sem) == sem < 1 /\ sem' = sem + 1
-----------------------------------------------------------------------------
ReadLock(t) == Goto(t, "out", "entering") /\ UNCHANGED <<readerMutex, writeSem, readers>>

EnterMutex(t) == /\ Goto(t, "entering", "countIn")
                 /\ Acquire(readerMutex)
                 /\ UNCHANGED <<writeSem, readers>>

\* Mutant: every reader takes the write lock.
CountIn_m(t) == /\ Goto(t, "countIn", IF readers + 1 >= 1 THEN "takeWrite" ELSE "letIn")
                /\ readers' = readers + 1
                /\ UNCHANGED <<readerMutex, writeSem>>

CountIn(t) == /\ Goto(t, "countIn", IF readers + 1 = 1 THEN "takeWrite" ELSE "letIn")
              /\ readers' = readers + 1
              /\ UNCHANGED <<readerMutex, writeSem>>

\* The first reader waits here for the writer, and holds the others off.
TakeWrite(t) == /\ Goto(t, "takeWrite", "letIn")
                /\ Acquire(writeSem)
                /\ UNCHANGED <<readerMutex, readers>>

\* Mutant: the mutex is not given back before the readers come in.
LetIn_m(t) == /\ Goto(t, "letIn", "reading")
              /\ UNCHANGED <<readerMutex, writeSem, readers>>

LetIn(t) == /\ Goto(t, "letIn", "reading")
            /\ Signal(readerMutex)
            /\ UNCHANGED <<writeSem, readers>>
-----------------------------------------------------------------------------
ReadUnlock(t) == Goto(t, "reading", "leaving") /\ UNCHANGED <<readerMutex, writeSem, readers>>

\* Mutant: the count goes down without the mutex.
LeaveMutex_m(t) == /\ Goto(t, "leaving", "countOut")
                   /\ UNCHANGED <<readerMutex, writeSem, readers>>

LeaveMutex(t) == /\ Goto(t, "leaving", "countOut")
                 /\ Acquire(readerMutex)
                 /\ UNCHANGED <<writeSem, readers>>

\* Mutant: the first reader to leave gives the write lock back.
CountOut_m(t) == /\ Goto(t, "countOut", IF readers - 1 <= 1 THEN "giveWrite" ELSE "letOut")
                 /\ readers' = readers - 1
                 /\ UNCHANGED <<readerMutex, writeSem>>

CountOut(t) == /\ Goto(t, "countOut", IF readers - 1 = 0 THEN "giveWrite" ELSE "letOut")
               /\ readers' = readers - 1
               /\ UNCHANGED <<readerMutex, writeSem>>

GiveWrite(t) == /\ Goto(t, "giveWrite", "letOut")
                /\ Signal(writeSem)
                /\ UNCHANGED <<readerMutex, readers>>

LetOut(t) == /\ Goto(t, "letOut", "out")
             /\ Signal(readerMutex)
             /\ UNCHANGED <<writeSem, readers>>
-----------------------------------------------------------------------------
WriteLock(t) == Goto(t, "out", "writeWait") /\ UNCHANGED <<readerMutex, writeSem, readers>>

EnterWrite(t) == /\ Goto(t, "writeWait", "writing")
                 /\ Acquire(writeSem)
                 /\ UNCHANGED <<readerMutex, readers>>

WriteUnlock(t) == /\ Goto(t, "writing", "out")
                  /\ Signal(writeSem)
                  /\ UNCHANGED <<readerMutex, readers>>
-----------------------------------------------------------------------------
\* What a thread inside a call does next.
Inside(t) == \/ EnterMutex(t) \/ CountIn(t) \/ TakeWrite(t) \/ LetIn(t)
             \/ LeaveMutex(t) \/ CountOut(t) \/ GiveWrite(t) \/ LetOut(t)
             \/ EnterWrite(t)
Unlock(t) == ReadUnlock(t) \/ WriteUnlock(t)
Lock(t) == ReadLock(t) \/ WriteLock(t)

Next == \E t \in Threads : Lock(t) \/ Inside(t) \/ Unlock(t)

Spec == Init /\ [][Next]_vars

-----------------------------------------------------------------------------
InMutex == {"countIn", "takeWrite", "letIn", "countOut", "giveWrite", "letOut"}
\* Where a thread is counted in `readers`.
Counted == {"takeWrite", "letIn", "reading", "leaving", "countOut"}
Places == InMutex \cup Counted \cup {"out", "entering", "writeWait", "writing"}

TypeOK == /\ readerMutex \in 0..1 /\ writeSem \in 0..1
          /\ readers \in 0..Cardinality(Threads)
          /\ pc \in [Threads -> Places]

\* Mutual exclusion, as the abstract lock states it.
Shared == INSTANCE SharedLock WITH reading <- At("reading"), writing <- At("writing")
ImplementsSharedLock == Shared!Spec

(* The count kept by atomic adds is the number of threads between theirs,  *)
(* and a token of the mutex is either in its channel or with one thread:   *)
(* no signal ever blocks on a full channel.                                *)
TokensAccounted ==
  /\ readers = Cardinality({t \in Threads : pc[t] \in Counted})
  /\ readerMutex + Cardinality({t \in Threads : pc[t] \in InMutex}) = 1
  /\ At("letIn") \cup At("letOut") # {} => readerMutex = 0
  /\ At("giveWrite") \cup At("writing") # {} => writeSem = 0

(* Reader preference: while somebody reads, no reader is kept waiting for  *)
(* the write lock, whatever writers wait for it.                           *)
ReadersPassWriters == At("reading") # {} => At("takeWrite") = {}

(* No deadlock between the two semaphores: while anybody waits for the     *)
(* lock, somebody gets it.  Which one is not promised.                     *)
SomebodyGetsIn ==
  At("entering") \cup At("writeWait") # {} ~> At("reading") \cup At("writing") # {}
=============================================================================
