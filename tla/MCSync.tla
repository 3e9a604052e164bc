------------------------------- MODULE MCSync -------------------------------
(* Everybody who waits gets on: what Concurrency.pol builds over threads,  *)
(* and the pool of async methods, side by side.  The three synchronisers   *)
(* are made of channels and an atomic count and alike in state (a size, a  *)
(* count, the tokens of one or two channels, where each thread is); the    *)
(* loop of Parallel and the pool share nothing with them.  Init says which *)
(* of the five a behaviour is about.                                       *)
EXTENDS Parallel, FiniteSets

CONSTANTS Counters, Waiters,         \* the threads; only a latch tells them apart
          LatchSizes, BarrierSizes,
          Coros, b1, b2, b3,         \* the async calls, as in TaskPool
          Workers, Mains, Awaits, Parkers, Blockers, QCAP, Ends,
          OutOfMemory, NoCoro

\* Each element is one call, and a barrier is for so many or for none.
ASSUME SyncAssumption ==
  /\ IsFiniteSet(Counters) /\ IsFiniteSet(Waiters) /\ Counters \cap Waiters = {}
  /\ LatchSizes \subseteq Int /\ BarrierSizes \subseteq Nat

VARIABLES kind, size, count, gate, second, where,
          created, done, outcome, waiters, left, awaiting, ring, qhead, qtail,
          place, cur, todo, after, on

syncVars == <<size, count, gate, second, where>>
poolVars == <<created, done, outcome, waiters, left, awaiting, ring, qhead, qtail,
              place, cur, todo, after, on>>

Threads == Counters \cup Waiters

Latch == INSTANCE CountdownLatch WITH Sizes <- LatchSizes, n <- size, pc <- where
Meeting == INSTANCE Barrier
             WITH Sizes <- BarrierSizes, parties <- size, arrived <- count,
                  posted <- second, pc <- where
Lock == INSTANCE ReadWriteLock
          WITH readers <- count, readerMutex <- gate, writeSem <- second, pc <- where

\* Two bodies that await the same task.
Pairs == [b \in {b1, b2, b3} |-> IF b = b3 THEN {} ELSE {b3}]
Tasks == INSTANCE TaskPool WITH pc <- place

\* The pool is one that TaskPool is about.
ASSUME TasksFit == Tasks!TaskPoolAssumption

\* With five-bit ints: every range of up to seven items for which the
\* arithmetic has room, and all the empty and the inverted ones that have.
FewWidths == {-1, 1, 2, 3, 5}
Roomy == {r \in (-3..4) \X (-3..4) : r[2] - r[1] \in -3..7}

Idle == from = 0 /\ to = 0

SyncInit ==
  /\ Init /\ Tasks!Init
  /\ \/ kind = "latch" /\ Idle /\ Latch!Init /\ second = 0
     \/ kind = "barrier" /\ Idle /\ Meeting!Init
     \/ kind = "rwlock" /\ Idle /\ Lock!Init /\ size = 0
     \/ kind = "loop" /\ Lock!Init /\ size = 0
     \/ kind = "tasks" /\ Idle /\ Lock!Init /\ size = 0

\* A thread inside a call goes on; the holder of a lock unlocks it.
Step(t) == /\ \/ kind = "latch" /\ Latch!Step(t) /\ UNCHANGED second
              \/ kind = "barrier" /\ Meeting!Step(t)
              \/ kind = "rwlock" /\ (Lock!Inside(t) \/ Lock!Unlock(t)) /\ UNCHANGED size
           /\ UNCHANGED <<kind, vars, poolVars>>

Ask(t) == kind = "rwlock" /\ Lock!Lock(t) /\ UNCHANGED <<kind, size, vars, poolVars>>

Loop == kind = "loop" /\ Next /\ UNCHANGED <<kind, syncVars, poolVars>>

Task == kind = "tasks" /\ Tasks!Next /\ UNCHANGED <<kind, syncVars, vars>>

\* A thread of the pool, or one that has begun a call of it.
TaskStep(t) == /\ kind = "tasks"
               /\ IF t \in Workers THEN Tasks!WorkerStep(t) ELSE Tasks!MainStep(t)
               /\ UNCHANGED <<kind, syncVars, vars>>

SyncNext == Loop \/ Task \/ \E t \in Threads : Step(t) \/ Ask(t)
allVars == <<kind, vars, syncVars, poolVars>>

(* Threads inside a call run on, and whoever has the lock gives it back;   *)
(* some hand of a loop goes on, and so do the threads of the pool.  Nobody *)
(* has to ask for the lock.  A token is not kept for the thread that       *)
(* waited longest: fairness is weak.                                       *)
SyncSpec == /\ SyncInit /\ [][SyncNext]_allVars
            /\ \A t \in Threads : WF_allVars(Step(t))
            /\ WF_allVars(Loop)
            /\ \A t \in Workers \cup Mains : WF_allVars(TaskStep(t))
-----------------------------------------------------------------------------
\* Every variable of the five has a value of its kind.
SyncTypeOK == /\ TypeOK /\ Tasks!TypeOK
              /\ CASE kind = "latch" -> Latch!TypeOK
                   [] kind = "barrier" -> Meeting!TypeOK
                   [] OTHER -> Lock!TypeOK

(* Nobody comes through a latch before its last countDown, or leaves a     *)
(* barrier before its last arrival.                                        *)
NobodyThroughEarly == /\ kind = "latch" => Latch!NobodyPassesEarly
                      /\ kind = "barrier" => Meeting!NobodyLeavesEarly

(* Each token is in its channel or with one thread, so that no send        *)
(* blocks; and while somebody reads, no reader waits for the writers'.     *)
TokensAccounted == /\ kind = "latch" => Latch!OneToken
                   /\ kind = "barrier" => Meeting!TokensAccounted
                   /\ kind = "rwlock" => Lock!TokensAccounted /\ Lock!ReadersPassWriters

\* Readers exclude writers, and writers each other.
ImplementsSharedLock == Lock!ImplementsSharedLock

(* Once its calls are made, everybody comes through a latch, and as many   *)
(* as it is for through a barrier; a loop returns; and while anybody waits *)
(* for the lock, somebody gets it: its two semaphores never lock each      *)
(* other out.  Every call of an async method completes and every wait for  *)
(* one returns.                                                            *)
NobodyLockedOut == /\ kind = "loop" => <>(pc = "returned")
                   /\ kind = "latch" => Latch!EverybodyPasses
                   /\ kind = "barrier" => Meeting!PartiesLeave
                   /\ Lock!SomebodyGetsIn
                   /\ Tasks!NobodyStuck
=============================================================================
