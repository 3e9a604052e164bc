------------------------------ MODULE TaskPool ------------------------------
(***************************************************************************)
(* The async runtime: tasks, the ready ring, the worker pool, and the      *)
(* coroutines the compiler makes of `async` methods.                       *)
(*                                                                         *)
(* One call of an async method makes one task and one state object; both   *)
(* are named by the coroutine c.  The runtime half is polaron_rt.cpp       *)
(* (__polaron_schedule, _task_complete, _task_complete_error, _await,      *)
(* _task_wait, the worker); the compiled half is what lower.cpp emits for  *)
(* the wrapper, for `await` and for the end of an async body.              *)
(*                                                                         *)
(* Grain: a region under g_qlock is one action, because the data it        *)
(* touches is only touched under that lock; every access outside the lock  *)
(* (the fast-path read of `done`, the write of the result, each wake call) *)
(* is an action of its own.  The pool has been started (__polaron_pool_-   *)
(* start returns at once); memory is sequentially consistent.              *)
(***************************************************************************)
EXTENDS Integers, FiniteSets

CONSTANTS
  Coros,     \* the calls of async methods the program may make
  Workers,   \* the pool's threads
  Mains,     \* other threads: they call async methods and block in task_wait
  Awaits,    \* Awaits[c]: the calls whose tasks c's body may call and await
  Parkers,   \* those whose body has an `await` of its own
  Blockers,  \* those that await through a plain method they call, or also so
  QCAP,      \* POLARON_QCAP
  Ends,      \* how bodies end: with a "value", with an "error", or both
  OutOfMemory,  \* whether __polaron_await's malloc may fail
  NoCoro

ASSUME TaskPoolAssumption ==
  /\ IsFiniteSet(Coros) /\ IsFiniteSet(Workers) /\ IsFiniteSet(Mains)
  /\ Workers \cap Mains = {}
  /\ Awaits \in [Coros -> SUBSET Coros]
  /\ Parkers \cup Blockers = Coros
  /\ QCAP \in Nat \ {0}
  /\ Ends \subseteq {"value", "error"}
  /\ OutOfMemory \in BOOLEAN
  /\ NoCoro \notin Coros

VARIABLES
  created,   \* calls made so far
  done,      \* tasks whose `done` is 1
  outcome,   \* task's `result` / `error`: "value", "error", or "none" yet
  waiters,   \* task's list of waiters; their order is free, so a set
  left,      \* what each body has not awaited yet
  awaiting,  \* the `awaited` slot of a coroutine that is in an await
  ring, qhead, qtail,
  pc, cur,   \* where each thread is, and the coroutine it is running
  todo,      \* what it still has to schedule ...
  after,     \* ... and where it goes on from there
  on         \* the task it is blocked on in task_wait

tasks == <<created, done, outcome, waiters>>
coros == <<left, awaiting>>
queue == <<ring, qhead, qtail>>
vars == <<tasks, coros, queue, pc, cur, todo, after, on>>

Threads == Workers \cup Mains
At(place) == {t \in Threads : pc[t] = place}

Slots == 0..(QCAP - 1)
\* Mutant: the index is not wrapped.
Wrap_m(i) == i + 1

Wrap(i) == (i + 1) % QCAP
\* How many entries a reader of the two indices finds: none when they meet.
Queued == (qtail - qhead) % QCAP
Occupied == {i \in Slots : (i - qhead) % QCAP < Queued}

(* The ring must hold every live coroutine at once and still tell full     *)
(* from empty; __polaron_schedule does not check.                          *)
RingIsAmple == Cardinality(created \ done) < QCAP

Home(t) == IF t \in Workers THEN "body" ELSE "main"

Init == /\ created = {} /\ done = {}
        /\ outcome = [c \in Coros |-> "none"]
        /\ waiters = [c \in Coros |-> {}]
        /\ left = Awaits
        /\ awaiting = [c \in Coros |-> NoCoro]
        /\ ring = [i \in Slots |-> NoCoro] /\ qhead = 0 /\ qtail = 0
        /\ pc = [t \in Threads |-> IF t \in Workers THEN "fetch" ELSE "main"]
        /\ cur = [t \in Threads |-> NoCoro]
        /\ todo = [t \in Threads |-> {}]
        /\ after = [t \in Threads |-> "fetch"]
        /\ on = [t \in Threads |-> NoCoro]

Goto(t, place) == pc' = [pc EXCEPT ![t] = place]
-----------------------------------------------------------------------------
(* The worker: __polaron_worker_body.                                      *)

\* Entered at step 0 the body starts; at a later step it resumes an await.
Fetch(t) == /\ pc[t] = "fetch" /\ qhead # qtail
            /\ LET c == ring[qhead]
               IN  /\ cur' = [cur EXCEPT ![t] = c]
                   /\ Goto(t, IF awaiting[c] = NoCoro THEN "body" ELSE "resume")
            /\ qhead' = Wrap(qhead)
            /\ UNCHANGED <<tasks, coros, ring, qtail, todo, after, on>>

FetchSleeps(t) == /\ pc[t] = "fetch" /\ qhead = qtail
                  /\ Goto(t, "asleep")
                  /\ UNCHANGED <<tasks, coros, queue, cur, todo, after, on>>
-----------------------------------------------------------------------------
(* __polaron_schedule: enqueue, unlock, wake one worker.  Used for a new   *)
(* call and for each continuation of a completed task.                     *)
Push(t) == /\ pc[t] = "push"
           /\ \E c \in todo[t] :
                /\ ring' = [ring EXCEPT ![qtail] = c]
                /\ todo' = [todo EXCEPT ![t] = @ \ {c}]
           /\ qtail' = Wrap(qtail)
           /\ Goto(t, "signal")
           /\ UNCHANGED <<tasks, coros, qhead, cur, after, on>>

\* Mutant: no wake unless this entry is the only one.
Signal_m(t) == /\ pc[t] = "signal"
               /\ LET next == IF todo[t] = {} THEN after[t] ELSE "push"
                  IN  \/ (At("asleep") = {} \/ Queued > 1) /\ Goto(t, next)
                      \/ \E w \in At("asleep") :
                           Queued <= 1 /\ pc' = [pc EXCEPT ![t] = next, ![w] = "fetch"]
               /\ UNCHANGED <<tasks, coros, queue, cur, todo, after, on>>

Signal(t) == /\ pc[t] = "signal"
             /\ LET next == IF todo[t] = {} THEN after[t] ELSE "push"
                IN  \/ At("asleep") = {} /\ Goto(t, next)
                    \/ \E w \in At("asleep") :
                         pc' = [pc EXCEPT ![t] = next, ![w] = "fetch"]
             /\ UNCHANGED <<tasks, coros, queue, cur, todo, after, on>>
-----------------------------------------------------------------------------
(* A call of an async method: task_new, the state object, then schedule.   *)
Call(t, c) == /\ created' = created \cup {c}
              /\ todo' = [todo EXCEPT ![t] = {c}]
              /\ after' = [after EXCEPT ![t] = Home(t)]
              /\ Goto(t, "push")
              /\ UNCHANGED <<done, outcome, waiters, coros, queue, cur, on>>

BodyCalls(t, c) == /\ pc[t] = "body" /\ c \in Awaits[cur[t]] \ created
                   /\ Call(t, c)

MainCalls(t, c) == /\ pc[t] = "main" /\ t \in Mains /\ c \notin created
                   /\ Call(t, c)
-----------------------------------------------------------------------------
(* `await` in an async body.  The handle and the step are stored in the    *)
(* state before __polaron_await is asked whether to park.                  *)
AwaitBegins(t, d) ==
  LET c == cur[t]
  IN  /\ pc[t] = "body" /\ c \in Parkers /\ d \in left[c] \cap created
      /\ awaiting' = [awaiting EXCEPT ![c] = d]
      /\ left' = [left EXCEPT ![c] = @ \ {d}]
      /\ Goto(t, "check")
      /\ UNCHANGED <<tasks, queue, cur, todo, after, on>>

\* The unlocked fast path, and the allocation after it.
AwaitChecks(t) == /\ pc[t] = "check"
                  /\ \/ awaiting[cur[t]] \in done /\ Goto(t, "resume")
                     \/ awaiting[cur[t]] \notin done /\ Goto(t, "link")
                     \/ /\ awaiting[cur[t]] \notin done /\ OutOfMemory
                        /\ Goto(t, "resume")
                  /\ UNCHANGED <<tasks, coros, queue, cur, todo, after, on>>

\* Mutants: `done` is not looked at again under the lock; the waiter is
\* pushed and 0 returned, so that the coroutine goes on as well.
AwaitLinks_m(t) == /\ pc[t] = "link"
                   /\ waiters' = [waiters EXCEPT ![awaiting[cur[t]]] = @ \cup {cur[t]}]
                   /\ cur' = [cur EXCEPT ![t] = NoCoro]
                   /\ Goto(t, "fetch")
                   /\ UNCHANGED <<created, done, outcome, coros, queue, todo, after, on>>

AwaitLinks_n(t) == /\ pc[t] = "link"
                   /\ \/ awaiting[cur[t]] \in done /\ UNCHANGED waiters
                      \/ /\ awaiting[cur[t]] \notin done
                         /\ waiters' = [waiters EXCEPT ![awaiting[cur[t]]] = @ \cup {cur[t]}]
                   /\ Goto(t, "resume")
                   /\ UNCHANGED <<created, done, outcome, coros, queue, cur, todo, after, on>>

\* Under the lock: done meanwhile, or a waiter is pushed and the resume
\* function returns, leaving the coroutine to whoever completes the task.
AwaitLinks(t) ==
  LET c == cur[t]
      d == awaiting[c]
  IN  /\ pc[t] = "link"
      /\ \/ /\ d \in done
            /\ Goto(t, "resume")
            /\ UNCHANGED <<waiters, cur>>
         \/ /\ d \notin done
            /\ waiters' = [waiters EXCEPT ![d] = @ \cup {c}]
            /\ cur' = [cur EXCEPT ![t] = NoCoro]
            /\ Goto(t, "fetch")
      /\ UNCHANGED <<created, done, outcome, coros, queue, todo, after, on>>

\* Back in the body with the awaited task's result, or its error re-thrown.
AwaitResumes(t) == /\ pc[t] = "resume"
                   /\ awaiting' = [awaiting EXCEPT ![cur[t]] = NoCoro]
                   /\ Goto(t, "body")
                   /\ UNCHANGED <<tasks, left, queue, cur, todo, after, on>>
-----------------------------------------------------------------------------
(* The end of a body: __polaron_task_complete for a `return`, or           *)
(* __polaron_task_complete_error from the guard around the whole body.     *)

\* t->result = value, or t->error = carrier: outside the lock.
Finish(t) == /\ pc[t] = "body"
             /\ \E end \in Ends :
                  outcome' = [outcome EXCEPT ![cur[t]] = end]
             /\ Goto(t, "detach")
             /\ UNCHANGED <<created, done, waiters, coros, queue, cur, todo, after, on>>

\* Mutants: the list is read and not taken off; the broadcast is only made
\* when the task had waiters.
Detach_m(t) ==
  LET c == cur[t]
  IN  /\ pc[t] = "detach"
      /\ done' = done \cup {c}
      /\ todo' = [todo EXCEPT ![t] = waiters[c]]
      /\ cur' = [cur EXCEPT ![t] = NoCoro]
      /\ after' = [after EXCEPT ![t] = "broadcast"]
      /\ Goto(t, IF waiters[c] = {} THEN "broadcast" ELSE "push")
      /\ UNCHANGED <<created, outcome, waiters, coros, queue, on>>

Detach_n(t) ==
  LET c == cur[t]
  IN  /\ pc[t] = "detach"
      /\ done' = done \cup {c}
      /\ todo' = [todo EXCEPT ![t] = waiters[c]]
      /\ waiters' = [waiters EXCEPT ![c] = {}]
      /\ cur' = [cur EXCEPT ![t] = NoCoro]
      /\ after' = [after EXCEPT ![t] = "broadcast"]
      /\ Goto(t, IF waiters[c] = {} THEN "fetch" ELSE "push")
      /\ UNCHANGED <<created, outcome, coros, queue, on>>

\* __polaron_task_wake, the locked part: done, and the list taken off.
Detach(t) ==
  LET c == cur[t]
  IN  /\ pc[t] = "detach"
      /\ done' = done \cup {c}
      /\ todo' = [todo EXCEPT ![t] = waiters[c]]
      /\ waiters' = [waiters EXCEPT ![c] = {}]
      /\ cur' = [cur EXCEPT ![t] = NoCoro]
      /\ after' = [after EXCEPT ![t] = "broadcast"]
      /\ Goto(t, IF waiters[c] = {} THEN "broadcast" ELSE "push")
      /\ UNCHANGED <<created, outcome, coros, queue, on>>

\* Mutants: a woken waiter does not look at `done` again; only one is woken.
Broadcast_m(t) == /\ pc[t] = "broadcast"
                  /\ pc' = [u \in Threads |->
                              IF u = t THEN "fetch"
                              ELSE IF pc[u] = "waiting" THEN "read" ELSE pc[u]]
                  /\ UNCHANGED <<tasks, coros, queue, cur, todo, after, on>>

Broadcast_n(t) == /\ pc[t] = "broadcast"
                  /\ \/ At("waiting") = {} /\ Goto(t, "fetch")
                     \/ \E u \in At("waiting") :
                          pc' = [pc EXCEPT ![t] = "fetch", ![u] = "wait"]
                  /\ UNCHANGED <<tasks, coros, queue, cur, todo, after, on>>

\* WakeAllConditionVariable(&g_donecond), then the resume function returns.
Broadcast(t) == /\ pc[t] = "broadcast"
                /\ pc' = [u \in Threads |->
                            IF u = t THEN "fetch"
                            ELSE IF pc[u] = "waiting" THEN "wait" ELSE pc[u]]
                /\ UNCHANGED <<tasks, coros, queue, cur, todo, after, on>>
-----------------------------------------------------------------------------
(* __polaron_task_wait: an `await` outside any async body blocks its       *)
(* thread, and the thread is a worker if a coroutine called that method.   *)
WaitBegins(t, d) == /\ on' = [on EXCEPT ![t] = d]
                    /\ Goto(t, "wait")
                    /\ UNCHANGED <<tasks, awaiting, queue, cur, todo, after>>

MainWaits(t, d) == /\ pc[t] = "main" /\ t \in Mains /\ d \in created
                   /\ WaitBegins(t, d)
                   /\ UNCHANGED left

BodyWaits(t, d) ==
  LET c == cur[t]
  IN  /\ pc[t] = "body" /\ c \in Blockers /\ d \in left[c] \cap created
      /\ left' = [left EXCEPT ![c] = @ \ {d}]
      /\ WaitBegins(t, d)

\* Under the lock: done, or asleep on g_donecond.
WaitChecks(t) == /\ pc[t] = "wait"
                 /\ Goto(t, IF on[t] \in done THEN "read" ELSE "waiting")
                 /\ UNCHANGED <<tasks, coros, queue, cur, todo, after, on>>

\* The result is read, or the error re-thrown, after the unlock.
WaitReturns(t) == /\ pc[t] = "read"
                  /\ on' = [on EXCEPT ![t] = NoCoro]
                  /\ Goto(t, Home(t))
                  /\ UNCHANGED <<tasks, coros, queue, cur, todo, after>>

SpuriousWake(t) == /\ \/ pc[t] = "asleep" /\ Goto(t, "fetch")
                      \/ pc[t] = "waiting" /\ Goto(t, "wait")
                   /\ UNCHANGED <<tasks, coros, queue, cur, todo, after, on>>
-----------------------------------------------------------------------------
Schedules(t) == Push(t) \/ Signal(t)
Waits(t) == WaitChecks(t) \/ WaitReturns(t)

WorkerStep(t) ==
  \/ Fetch(t) \/ FetchSleeps(t)
  \/ Schedules(t) \/ Waits(t)
  \/ AwaitChecks(t) \/ AwaitLinks(t) \/ AwaitResumes(t)
  \/ Finish(t) \/ Detach(t) \/ Broadcast(t)
  \/ \E c \in Coros : BodyCalls(t, c) \/ AwaitBegins(t, c) \/ BodyWaits(t, c)

MainStep(t) == Schedules(t) \/ Waits(t)

Next == \/ \E t \in Workers : WorkerStep(t)
        \/ \E t \in Mains : MainStep(t) \/ \E c \in Coros : MainCalls(t, c) \/ MainWaits(t, c)
        \/ \E t \in Threads : SpuriousWake(t)

Spec == Init /\ [][Next]_vars

(* The operating system runs every thread that is not asleep, and a body   *)
(* comes to its end; no call is owed by a main thread, and no spurious     *)
(* wake by anyone.                                                         *)
Fairness == /\ \A t \in Workers : WF_vars(WorkerStep(t))
            /\ \A t \in Mains : WF_vars(MainStep(t))

FairSpec == Spec /\ Fairness
-----------------------------------------------------------------------------
WorkerPc == {"fetch", "asleep", "body", "check", "link", "resume", "detach",
             "push", "signal", "broadcast", "wait", "waiting", "read"}
MainPc == {"main", "push", "signal", "wait", "waiting", "read"}
\* Where a thread has a coroutine under it.
InBody(t) ==
  \/ pc[t] \in {"body", "check", "link", "resume", "detach"}
  \/ t \in Workers /\ pc[t] \in {"wait", "waiting", "read"}
  \/ pc[t] \in {"push", "signal"} /\ after[t] = "body"

TypeOK ==
  /\ created \subseteq Coros /\ done \subseteq created
  /\ outcome \in [Coros -> Ends \cup {"none"}]
  /\ waiters \in [Coros -> SUBSET Coros]
  /\ left \in [Coros -> SUBSET Coros]
  /\ awaiting \in [Coros -> Coros \cup {NoCoro}]
  /\ ring \in [Slots -> Coros \cup {NoCoro}]
  /\ qhead \in Slots /\ qtail \in Slots
  /\ pc \in [Threads -> WorkerPc \cup MainPc]
  /\ \A t \in Mains : pc[t] \in MainPc
  /\ \A t \in Workers : pc[t] \in WorkerPc
  /\ cur \in [Threads -> Coros \cup {NoCoro}]
  /\ todo \in [Threads -> SUBSET Coros]
  /\ after \in [Threads -> {"fetch", "body", "broadcast", "main"}]
  /\ on \in [Threads -> Coros \cup {NoCoro}]

(* Every place a coroutine can be: a slot of the ready ring, a task's list *)
(* of waiters, the list a thread is about to schedule, a thread itself.    *)
Places(c) == {<<"ready", i>> : i \in {i \in Occupied : ring[i] = c}}
        \cup {<<"parked", d>> : d \in {d \in Coros : c \in waiters[d]}}
        \cup {<<"woken", t>> : t \in {t \in Threads : c \in todo[t]}}
        \cup {<<"running", t>> : t \in {t \in Threads : cur[t] = c}}

(* "All awaiters are resumed exactly once" (polaron_rt.cpp:1350), and no   *)
(* state object is ever run by two workers: a coroutine called and not     *)
(* yet completed is in exactly one place, any other in none.  A second     *)
(* place would be a second resumption, no place a continuation lost.       *)
OwnedOnce ==
  \A c \in Coros : IF c \in created \ done
                   THEN \E p \in Places(c) : Places(c) = {p}
                   ELSE Places(c) = {}

(* Whoever comes out of an await, by either fast path, by a continuation   *)
(* or by task_wait, reads a result or an error that is there: the write in *)
(* task_complete comes before `done`, and `done` before the wake.          *)
AwaitersReadResults ==
  \A t \in Threads :
    /\ pc[t] = "resume" => outcome[awaiting[cur[t]]] \in Ends
    /\ pc[t] = "read" => outcome[on[t]] \in Ends

(* The list is detached under the lock that await pushes under, so nobody  *)
(* parks on a task that has already woken its waiters.                     *)
NobodyParkedOnDone == \A d \in done : waiters[d] = {}

(* The one wake per entry, made after the unlock, is enough: while a       *)
(* worker sleeps, every entry of the ring has a wake to come or a worker   *)
(* already awake for it.                                                   *)
WakesCoverWork ==
  At("asleep") # {} =>
    Queued <= Cardinality(At("signal")) + Cardinality(At("fetch"))

(* A thread asleep in task_wait on a finished task has a broadcast to come *)
(* from the thread that finished it.                                       *)
BroadcastOwed ==
  \A t \in At("waiting") :
    on[t] \in done => \E u \in Workers : \/ pc[u] = "broadcast"
                                        \/ /\ pc[u] \in {"push", "signal"}
                                           /\ after[u] = "broadcast"

\* No wake is missed, by a worker or by a thread in task_wait.
NoWakeMissed == WakesCoverWork /\ BroadcastOwed

(* "A done task never un-dones" (polaron_rt.cpp:1408): once done, a task   *)
(* keeps its outcome, which every later await then agrees on.              *)
OutcomeIsFinal ==
  [][done \subseteq done' /\ \A c \in done : outcome'[c] = outcome[c]]_vars

(* Every call completes and every wait returns, as long as awaits form no  *)
(* cycle and fewer bodies than workers block in task_wait.                 *)
NobodyStuck == /\ \A c \in Coros : (c \in created) ~> (c \in done)
               /\ \A t \in Mains : (pc[t] = "wait") ~> (pc[t] = "main")
=============================================================================
