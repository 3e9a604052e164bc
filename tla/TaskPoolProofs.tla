--------------------------- MODULE TaskPoolProofs ---------------------------
(* Theorems about TaskPool, for any finite set of calls, any sets of       *)
(* threads and any ring, while it is ample for the calls that are alive.   *)
EXTENDS TaskPool, FiniteSetTheorems, TLAPS

USE DEF WorkerPc, MainPc

(* Who holds what, place by place: the form in which OwnedOnce is kept.    *)
Live == created \ done

EachHeldIsLive ==
  /\ \A i \in Occupied : ring[i] \in Live
  /\ \A d \in Coros : waiters[d] \subseteq Live
  /\ \A t \in Threads : todo[t] \subseteq Live
  /\ \A t \in Threads : cur[t] # NoCoro => cur[t] \in Live

HeldOncePerKind ==
  /\ \A i, j \in Occupied : ring[i] = ring[j] => i = j
  /\ \A d, e \in Coros : \A c \in waiters[d] : c \in waiters[e] => d = e
  /\ \A t, u \in Threads : \A c \in todo[t] : c \in todo[u] => t = u
  /\ \A t, u \in Threads : cur[t] # NoCoro /\ cur[t] = cur[u] => t = u

KindsAreApart ==
  /\ \A i \in Occupied : /\ \A d \in Coros : ring[i] \notin waiters[d]
                         /\ \A t \in Threads : ring[i] \notin todo[t] /\ ring[i] # cur[t]
  /\ \A d \in Coros, t \in Threads : /\ waiters[d] \cap todo[t] = {}
                                     /\ cur[t] \notin waiters[d]
  /\ \A t, u \in Threads : cur[t] \notin todo[u]

EachLiveIsHeld ==
  \A c \in Live : \/ \E i \in Occupied : ring[i] = c
                  \/ \E d \in Coros : c \in waiters[d]
                  \/ \E t \in Threads : c \in todo[t]
                  \/ \E t \in Threads : cur[t] = c

(* A thread has a coroutine exactly while it is in a body, a list to       *)
(* schedule only while it is scheduling, and in an await the state object  *)
(* names the awaited task.                                                 *)
Discipline ==
  \A t \in Threads :
    /\ InBody(t) <=> cur[t] # NoCoro
    /\ todo[t] # {} => pc[t] \in {"push", "signal"}
    /\ pc[t] = "push" => todo[t] # {}
    /\ pc[t] \in {"check", "link", "resume"} => awaiting[cur[t]] \in Coros
    /\ pc[t] \in {"push", "signal"} =>
         after[t] \in (IF t \in Workers THEN {"body", "broadcast"} ELSE {"main"})

IInv == /\ TypeOK
        /\ EachHeldIsLive /\ HeldOncePerKind /\ KindsAreApart /\ EachLiveIsHeld
        /\ Discipline

Ownership == EachHeldIsLive /\ HeldOncePerKind /\ KindsAreApart /\ EachLiveIsHeld
-----------------------------------------------------------------------------
(* The ring.                                                               *)
LEMMA WrapStays == ASSUME NEW i \in Slots PROVE Wrap(i) \in Slots
BY TaskPoolAssumption DEF Wrap, Slots

(* The `%` of the indices, by cases.                                       *)
LEMMA Distance ==
  ASSUME NEW i \in Slots, NEW j \in Slots
  PROVE  (i - j) % QCAP = IF i >= j THEN i - j ELSE i - j + QCAP
<1>1. CASE i >= j
  BY <1>1, TaskPoolAssumption DEF Slots
<1>2. CASE i < j
  <2>1. (i - j + QCAP) \in 0..(QCAP - 1)
    BY <1>2, TaskPoolAssumption DEF Slots
  <2>. QED
    BY <1>2, <2>1, TaskPoolAssumption DEF Slots
<1>. QED
  BY <1>1, <1>2 DEF Slots

LEMMA SumWraps ==
  ASSUME NEW i \in Slots, NEW j \in Slots
  PROVE  /\ (i + j) % QCAP \in Slots
         /\ (i + j) % QCAP = IF i + j < QCAP THEN i + j ELSE i + j - QCAP
<1>1. CASE i + j < QCAP
  BY <1>1, TaskPoolAssumption DEF Slots
<1>2. CASE i + j >= QCAP
  <2>1. (i + j - QCAP) \in 0..(QCAP - 1)
    BY <1>2, TaskPoolAssumption DEF Slots
  <2>. QED
    BY <1>2, <2>1, TaskPoolAssumption DEF Slots
<1>. QED
  BY <1>1, <1>2, TaskPoolAssumption DEF Slots

LEMMA NextSlot ==
  ASSUME NEW i \in Slots
  PROVE  Wrap(i) = IF i = QCAP - 1 THEN 0 ELSE i + 1
BY TaskPoolAssumption DEF Wrap, Slots

LEMMA QueuedRange ==
  ASSUME TypeOK
  PROVE  /\ Queued = IF qtail >= qhead THEN qtail - qhead ELSE qtail - qhead + QCAP
         /\ Queued \in Slots
<1>1. Queued = IF qtail >= qhead THEN qtail - qhead ELSE qtail - qhead + QCAP
  BY Distance DEF TypeOK, Queued
<1>. QED
  BY <1>1, TaskPoolAssumption DEF TypeOK, Slots

(* The slots between two indices, as Occupied has them and without `%`.    *)
Between(h, q) == {i \in Slots : (i - h) % QCAP < (q - h) % QCAP}

LEMMA BetweenSlots ==
  ASSUME NEW h \in Slots, NEW q \in Slots, NEW i \in Slots
  PROVE  i \in Between(h, q) <=> IF h <= q THEN h <= i /\ i < q ELSE i >= h \/ i < q
<1>1. /\ (i - h) % QCAP = IF i >= h THEN i - h ELSE i - h + QCAP
      /\ (q - h) % QCAP = IF q >= h THEN q - h ELSE q - h + QCAP
  BY Distance
<1>. QED
  BY <1>1, TaskPoolAssumption DEF Between, Slots

LEMMA Popped ==
  ASSUME TypeOK, qhead # qtail, qhead' = Wrap(qhead), qtail' = qtail
  PROVE  /\ qhead \in Occupied
         /\ Occupied' = Occupied \ {qhead}
<1>1. Occupied = Between(qhead, qtail) /\ Occupied' = Between(qhead', qtail')
  BY DEF Occupied, Queued, Between
<1>2. qhead \in Slots /\ qtail \in Slots /\ qhead' \in Slots
  BY WrapStays DEF TypeOK
<1>3. qhead' = IF qhead = QCAP - 1 THEN 0 ELSE qhead + 1
  BY <1>2, NextSlot
<1>4. ASSUME NEW i \in Slots
      PROVE  i \in Occupied' <=> i \in Occupied /\ i # qhead
  BY <1>1, <1>2, <1>3, BetweenSlots, TaskPoolAssumption DEF Slots
<1>5. qhead \in Occupied
  BY <1>1, <1>2, BetweenSlots DEF Slots
<1>6. Occupied \subseteq Slots /\ Occupied' \subseteq Slots
  BY DEF Occupied, Slots
<1>. QED
  BY <1>4, <1>5, <1>6

LEMMA Pushed ==
  ASSUME TypeOK, Queued + 1 < QCAP, qtail' = Wrap(qtail), qhead' = qhead
  PROVE  /\ qtail \notin Occupied
         /\ Occupied' = Occupied \cup {qtail}
<1>1. Occupied = Between(qhead, qtail) /\ Occupied' = Between(qhead', qtail')
  BY DEF Occupied, Queued, Between
<1>2. qhead \in Slots /\ qtail \in Slots /\ qtail' \in Slots
  BY WrapStays DEF TypeOK
<1>3. qtail' = IF qtail = QCAP - 1 THEN 0 ELSE qtail + 1
  BY <1>2, NextSlot
<1>4. IF qtail >= qhead THEN qtail - qhead + 1 < QCAP ELSE qtail + 1 < qhead
  BY <1>2, QueuedRange, TaskPoolAssumption DEF Slots
<1>5. ASSUME NEW i \in Slots
      PROVE  i \in Occupied' <=> i \in Occupied \/ i = qtail
  BY <1>1, <1>2, <1>3, <1>4, BetweenSlots, TaskPoolAssumption DEF Slots
<1>6. qtail \notin Occupied
  BY <1>1, <1>2, BetweenSlots DEF Slots
<1>7. Occupied \subseteq Slots /\ Occupied' \subseteq Slots
  BY DEF Occupied, Slots
<1>. QED
  BY <1>2, <1>5, <1>6, <1>7

(* The entries of the ring are different coroutines, and none is one that  *)
(* is about to be pushed: so there is room for it.                         *)
LEMMA RoomToPush ==
  ASSUME IInv, RingIsAmple, NEW t \in Threads, NEW c \in todo[t]
  PROVE  Queued + 1 < QCAP
<1>. DEFINE S == 0..(Queued - 1)
            T == Live \ {c}
            f == [k \in S |-> ring[(qhead + k) % QCAP]]
<1>1. Queued \in Slots /\ Queued \in Nat
  BY QueuedRange, TaskPoolAssumption DEF IInv, Slots
<1>2. c \in Live /\ IsFiniteSet(Live)
  BY FS_Subset, TaskPoolAssumption DEF IInv, TypeOK, EachHeldIsLive, Live
<1>3. IsFiniteSet(T) /\ Cardinality(T) = Cardinality(Live) - 1
  BY <1>2, FS_RemoveElement
<1>4. Cardinality(S) = Queued
  BY <1>1, FS_Interval
<1>5. ASSUME NEW k \in S
      PROVE  /\ (qhead + k) % QCAP \in Occupied
             /\ (((qhead + k) % QCAP) - qhead) % QCAP = k
  <2>1. qhead \in Slots /\ k \in Slots /\ k < Queued
    <3>1. qhead \in Slots
      BY DEF IInv, TypeOK
    <3>2. k \in Slots /\ k < Queued
      BY <1>1, TaskPoolAssumption DEF Slots
    <3>. QED
      BY <3>1, <3>2
  <2>2. /\ (qhead + k) % QCAP \in Slots
        /\ (qhead + k) % QCAP = IF qhead + k < QCAP THEN qhead + k ELSE qhead + k - QCAP
    BY <2>1, SumWraps
  <2>3. (((qhead + k) % QCAP) - qhead) % QCAP = k
    <3>. DEFINE s == (qhead + k) % QCAP
    <3>. HIDE DEF s
    <3>1. s \in Slots /\ s = IF qhead + k < QCAP THEN qhead + k ELSE qhead + k - QCAP
      BY <2>2 DEF s
    <3>2. (s - qhead) % QCAP = IF s >= qhead THEN s - qhead ELSE s - qhead + QCAP
      BY <2>1, <3>1, Distance
    <3>3. (s - qhead) % QCAP = k
      BY <2>1, <3>1, <3>2, TaskPoolAssumption DEF Slots
    <3>. QED
      BY <3>3 DEF s
  <2>. QED
    BY <2>1, <2>2, <2>3 DEF Occupied
<1>6. f \in [S -> T]
  <2>. SUFFICES ASSUME NEW k \in S PROVE ring[(qhead + k) % QCAP] \in T
    OBVIOUS
  <2>1. ASSUME NEW i \in Occupied PROVE ring[i] \in Live /\ ring[i] # c
    BY DEF IInv, EachHeldIsLive, KindsAreApart
  <2>. QED
    BY <1>5, <2>1
<1>7. ASSUME NEW k \in S, NEW l \in S, f[k] = f[l] PROVE k = l
  BY <1>5, <1>7 DEF IInv, HeldOncePerKind
<1>8. f \in Injection(S, T)
  BY <1>6, <1>7 DEF Injection, IsInjective
<1>9. Cardinality(S) <= Cardinality(T)
  BY <1>3, <1>8, FS_Injection DEF ExistsInjection
<1>10. Cardinality(Live) \in Nat
  BY <1>2, FS_CardinalityType
<1>. QED
  BY <1>1, <1>3, <1>4, <1>9, <1>10, TaskPoolAssumption DEF RingIsAmple, Live, Slots
-----------------------------------------------------------------------------
(* A step that leaves every place alone leaves every coroutine in its own. *)
LEMMA PlacesKept ==
  ASSUME Ownership, UNCHANGED <<created, done, waiters, queue, cur, todo>>
  PROVE  Ownership'
BY DEF Ownership, EachHeldIsLive, HeldOncePerKind, KindsAreApart, EachLiveIsHeld,
       Live, Occupied, Queued, queue

\* From the ring to a thread.
LEMMA FetchMoves ==
  ASSUME IInv, NEW t \in Workers, Fetch(t)
  PROVE  Ownership'
<1>. DEFINE c == ring[qhead]
<1>1. qhead \in Occupied /\ Occupied' = Occupied \ {qhead}
  BY Popped DEF IInv, Fetch
<1>2. /\ cur' = [cur EXCEPT ![t] = c]
      /\ UNCHANGED <<created, done, waiters, ring, todo>>
  BY DEF Fetch, tasks
<1>3. t \in Threads /\ cur[t] = NoCoro /\ cur \in [Threads -> Coros \cup {NoCoro}]
  BY TaskPoolAssumption DEF IInv, TypeOK, Discipline, InBody, Fetch, Threads
<1>4. c \in Live
  BY <1>1 DEF IInv, EachHeldIsLive
<1>. HIDE DEF c
<1>5. c = ring[qhead]
  BY DEF c
<1>6. EachHeldIsLive'
  BY <1>1, <1>2, <1>3, <1>4 DEF IInv, EachHeldIsLive, Live
<1>7. HeldOncePerKind'
  BY <1>1, <1>2, <1>3, <1>5 DEF IInv, HeldOncePerKind, KindsAreApart
<1>8. KindsAreApart'
  BY <1>1, <1>2, <1>3, <1>5 DEF IInv, HeldOncePerKind, KindsAreApart
<1>9. \A u \in Threads : cur'[u] = IF u = t THEN c ELSE cur[u]
  BY <1>2, <1>3
<1>10. NoCoro \notin Live
  BY TaskPoolAssumption DEF IInv, TypeOK, Live
<1>11. EachLiveIsHeld'
  <2>. SUFFICES ASSUME NEW b \in Live
                PROVE  \/ \E i \in Occupied' : ring[i] = b
                       \/ \E e \in Coros : b \in waiters[e]
                       \/ \E u \in Threads : b \in todo[u]
                       \/ \E u \in Threads : cur'[u] = b
    BY <1>2 DEF EachLiveIsHeld, Live
  <2>. QED
    BY <1>1, <1>3, <1>5, <1>9, <1>10 DEF IInv, EachLiveIsHeld
<1>. QED
  BY <1>6, <1>7, <1>8, <1>11 DEF Ownership

\* From a thread's list to the ring.
LEMMA PushMoves ==
  ASSUME IInv, RingIsAmple, NEW t \in Threads, Push(t)
  PROVE  Ownership'
<1>1. PICK c \in todo[t] : /\ ring' = [ring EXCEPT ![qtail] = c]
                           /\ todo' = [todo EXCEPT ![t] = @ \ {c}]
  BY DEF Push
<1>2. qtail \notin Occupied /\ Occupied' = Occupied \cup {qtail}
  BY RoomToPush, Pushed DEF IInv, Push
<1>3. UNCHANGED <<created, done, waiters, cur>>
  BY DEF Push, tasks
<1>4. /\ ring \in [Slots -> Coros \cup {NoCoro}] /\ qtail \in Slots
      /\ todo \in [Threads -> SUBSET Coros] /\ Occupied \subseteq Slots
  BY DEF IInv, TypeOK, Occupied
<1>5. c \in Live
  BY DEF IInv, EachHeldIsLive
<1>6. EachHeldIsLive'
  BY <1>1, <1>2, <1>3, <1>4, <1>5 DEF IInv, EachHeldIsLive, Live
<1>7. HeldOncePerKind'
  BY <1>1, <1>2, <1>3, <1>4 DEF IInv, HeldOncePerKind, KindsAreApart
<1>8. KindsAreApart'
  BY <1>1, <1>2, <1>3, <1>4 DEF IInv, HeldOncePerKind, KindsAreApart
<1>9. EachLiveIsHeld'
  BY <1>1, <1>2, <1>3, <1>4 DEF IInv, EachLiveIsHeld, Live
<1>. QED
  BY <1>6, <1>7, <1>8, <1>9 DEF Ownership

\* A new coroutine, on the list of the thread that made the call.
LEMMA CallMoves ==
  ASSUME IInv, NEW t \in Threads, todo[t] = {}, NEW c \in Coros \ created, Call(t, c)
  PROVE  Ownership'
<1>1. /\ created' = created \cup {c} /\ todo' = [todo EXCEPT ![t] = {c}]
      /\ UNCHANGED <<done, waiters, ring, cur>> /\ Occupied' = Occupied
  BY DEF Call, queue, Occupied, Queued
<1>2. done \subseteq created /\ todo \in [Threads -> SUBSET Coros]
  BY DEF IInv, TypeOK
<1>3. Live' = Live \cup {c} /\ c \notin Live /\ c # NoCoro
  BY <1>1, <1>2, TaskPoolAssumption DEF Live
<1>4. EachHeldIsLive'
  BY <1>1, <1>2, <1>3 DEF IInv, EachHeldIsLive
<1>5. HeldOncePerKind'
  BY <1>1, <1>2, <1>3 DEF IInv, HeldOncePerKind, EachHeldIsLive
<1>6. KindsAreApart'
  BY <1>1, <1>2, <1>3 DEF IInv, KindsAreApart, EachHeldIsLive
<1>7. EachLiveIsHeld'
  BY <1>1, <1>2, <1>3 DEF IInv, EachLiveIsHeld
<1>. QED
  BY <1>4, <1>5, <1>6, <1>7 DEF Ownership

\* From a thread to a task's list of waiters.
LEMMA ParkMoves ==
  ASSUME IInv, NEW t \in Workers, AwaitLinks(t)
  PROVE  Ownership'
<1>. DEFINE c == cur[t]
            d == awaiting[c]
<1>1. CASE UNCHANGED <<waiters, cur>>
  BY <1>1, PlacesKept DEF AwaitLinks, IInv, Ownership, queue
<1>2. CASE /\ waiters' = [waiters EXCEPT ![d] = @ \cup {c}]
           /\ cur' = [cur EXCEPT ![t] = NoCoro]
  <2>1. UNCHANGED <<created, done, ring, todo>> /\ Occupied' = Occupied
    BY DEF AwaitLinks, queue, Occupied, Queued
  <2>2. /\ t \in Threads /\ c # NoCoro /\ d \in Coros
        /\ waiters \in [Coros -> SUBSET Coros]
        /\ cur \in [Threads -> Coros \cup {NoCoro}]
    BY DEF IInv, TypeOK, Discipline, AwaitLinks, InBody, Threads
  <2>3. c \in Live
    BY <2>2 DEF IInv, EachHeldIsLive
  <2>4. c = cur[t]
    OBVIOUS
  <2>. HIDE DEF c, d
  <2>5. \A e \in Coros : \A b : b \in waiters'[e] <=> b \in waiters[e] \/ (e = d /\ b = c)
    BY <1>2, <2>2
  <2>6. \A u \in Threads : cur'[u] = IF u = t THEN NoCoro ELSE cur[u]
    BY <1>2, <2>2
  <2>7. NoCoro \notin Live
    BY TaskPoolAssumption DEF IInv, TypeOK, Live
  <2>8. t \in Threads /\ d \in Coros /\ c # NoCoro
    BY <2>2
  <2>9. EachHeldIsLive'
    BY <2>1, <2>3, <2>5, <2>6, <2>8 DEF IInv, EachHeldIsLive, Live
  <2>10. HeldOncePerKind'
    <3>1. \A e, f \in Coros : \A b \in waiters'[e] : b \in waiters'[f] => e = f
      BY <2>4, <2>5, <2>8 DEF IInv, HeldOncePerKind, KindsAreApart
    <3>2. \A u, v \in Threads : cur'[u] # NoCoro /\ cur'[u] = cur'[v] => u = v
      BY <2>6 DEF IInv, HeldOncePerKind
    <3>. QED
      BY <2>1, <3>1, <3>2 DEF IInv, HeldOncePerKind
  <2>11. KindsAreApart'
    <3>1. \A i \in Occupied : /\ \A e \in Coros : ring[i] \notin waiters'[e]
                              /\ \A u \in Threads : ring[i] # cur'[u]
      BY <2>4, <2>5, <2>6, <2>7, <2>8 DEF IInv, KindsAreApart, EachHeldIsLive
    <3>2. \A e \in Coros, u \in Threads : waiters'[e] \cap todo[u] = {}
      BY <2>4, <2>5, <2>8 DEF IInv, KindsAreApart
    <3>3. \A e \in Coros, u \in Threads : cur'[u] \notin waiters'[e]
      BY <2>4, <2>5, <2>6, <2>7, <2>8
         DEF IInv, KindsAreApart, EachHeldIsLive, HeldOncePerKind
    <3>4. \A u, v \in Threads : cur'[u] \notin todo[v]
      BY <2>6, <2>7 DEF IInv, KindsAreApart, EachHeldIsLive
    <3>. QED
      BY <2>1, <3>1, <3>2, <3>3, <3>4 DEF IInv, KindsAreApart
  <2>12. EachLiveIsHeld'
    <3>. SUFFICES ASSUME NEW b \in Live
                  PROVE  \/ \E i \in Occupied : ring[i] = b
                         \/ \E e \in Coros : b \in waiters'[e]
                         \/ \E u \in Threads : b \in todo[u]
                         \/ \E u \in Threads : cur'[u] = b
      BY <2>1 DEF EachLiveIsHeld, Live
    <3>. QED
      BY <2>4, <2>5, <2>6, <2>8 DEF IInv, EachLiveIsHeld
  <2>. QED
    BY <2>9, <2>10, <2>11, <2>12 DEF Ownership
<1>. QED
  BY <1>1, <1>2 DEF AwaitLinks

\* A coroutine is over; those parked on its task go to the thread's list.
LEMMA DetachMoves ==
  ASSUME IInv, NEW t \in Workers, Detach(t)
  PROVE  Ownership'
<1>. DEFINE c == cur[t]
<1>1. /\ t \in Threads /\ c # NoCoro /\ todo[t] = {}
      /\ waiters \in [Coros -> SUBSET Coros] /\ todo \in [Threads -> SUBSET Coros]
      /\ cur \in [Threads -> Coros \cup {NoCoro}]
  BY DEF IInv, TypeOK, Discipline, Detach, InBody, Threads
<1>2. c \in Live /\ c \in Coros /\ NoCoro \notin Live
  BY <1>1, TaskPoolAssumption DEF IInv, EachHeldIsLive, TypeOK, Live
<1>3. /\ done' = done \cup {c} /\ UNCHANGED <<created, ring>> /\ Occupied' = Occupied
      /\ waiters' = [waiters EXCEPT ![c] = {}]
      /\ todo' = [todo EXCEPT ![t] = waiters[c]]
      /\ cur' = [cur EXCEPT ![t] = NoCoro]
  BY DEF Detach, queue, Occupied, Queued
<1>4. c = cur[t]
  OBVIOUS
<1>. HIDE DEF c
<1>5. Live' = Live \ {c}
  BY <1>3 DEF Live
<1>6. \A e \in Coros : waiters'[e] = IF e = c THEN {} ELSE waiters[e]
  BY <1>1, <1>3
<1>7. \A u \in Threads : /\ cur'[u] = IF u = t THEN NoCoro ELSE cur[u]
                         /\ todo'[u] = IF u = t THEN waiters[c] ELSE todo[u]
  BY <1>1, <1>3
<1>8. EachHeldIsLive'
  BY <1>1, <1>2, <1>3, <1>4, <1>5, <1>6, <1>7
     DEF IInv, EachHeldIsLive, HeldOncePerKind, KindsAreApart
<1>9. HeldOncePerKind'
  BY <1>1, <1>2, <1>3, <1>6, <1>7 DEF IInv, HeldOncePerKind, KindsAreApart
<1>10. KindsAreApart'
  BY <1>1, <1>2, <1>3, <1>6, <1>7
     DEF IInv, HeldOncePerKind, KindsAreApart, EachHeldIsLive
<1>11. EachLiveIsHeld'
  BY <1>1, <1>2, <1>3, <1>4, <1>5, <1>6, <1>7 DEF IInv, EachLiveIsHeld
<1>. QED
  BY <1>8, <1>9, <1>10, <1>11 DEF Ownership
-----------------------------------------------------------------------------
(* What each action does to the shape of the state: types and Discipline.  *)
Shape == TypeOK /\ Discipline

LEMMA WorkersAreThreads ==
  /\ \A t \in Workers : t \in Threads /\ t \notin Mains
  /\ \A t \in Mains : t \in Threads /\ t \notin Workers
BY TaskPoolAssumption DEF Threads

LEMMA FetchShape ==
  ASSUME IInv, NEW t \in Workers, Fetch(t) \/ FetchSleeps(t)
  PROVE  Shape'
<1>. t \in Threads /\ t \notin Mains
  BY WorkersAreThreads
<1>1. CASE Fetch(t)
  <2>1. ring[qhead] \in Coros /\ ring[qhead] # NoCoro
    BY <1>1, Popped, TaskPoolAssumption DEF IInv, EachHeldIsLive, Live, Fetch, TypeOK
  <2>2. TypeOK'
    BY <1>1, <2>1, WrapStays DEF IInv, TypeOK, Fetch, Goto, tasks, coros
  <2>3. Discipline'
    BY <1>1, <2>1 DEF IInv, TypeOK, Discipline, InBody, Fetch, Goto, coros
  <2>. QED
    BY <2>2, <2>3 DEF Shape
<1>2. CASE FetchSleeps(t)
  BY <1>2 DEF IInv, TypeOK, Discipline, InBody, FetchSleeps, Goto, tasks, coros, queue, Shape
<1>. QED
  BY <1>1, <1>2

LEMMA ScheduleShape ==
  ASSUME IInv, NEW t \in Threads, Schedules(t)
  PROVE  Shape'
<1>1. CASE Push(t)
  <2>1. PICK c \in todo[t] : /\ ring' = [ring EXCEPT ![qtail] = c]
                             /\ todo' = [todo EXCEPT ![t] = @ \ {c}]
    BY <1>1 DEF Push
  <2>2. TypeOK'
    BY <1>1, <2>1, WrapStays, WorkersAreThreads DEF IInv, TypeOK, Push, Goto, tasks, coros
  <2>3. Discipline'
    BY <1>1, <2>1 DEF IInv, TypeOK, Discipline, InBody, Push, Goto, coros
  <2>. QED
    BY <2>2, <2>3 DEF Shape
<1>2. CASE Signal(t)
  <2>. DEFINE next == IF todo[t] = {} THEN after[t] ELSE "push"
  <2>1. UNCHANGED <<tasks, coros, queue, cur, todo, after, on>>
    BY <1>2 DEF Signal
  <2>2. /\ pc[t] = "signal"
        /\ t \in Workers => after[t] \in {"body", "broadcast"}
        /\ t \in Mains => after[t] = "main"
    BY <1>2, WorkersAreThreads DEF Signal, IInv, Discipline
  <2>3. \/ pc' = [pc EXCEPT ![t] = next]
        \/ \E w \in At("asleep") : pc' = [pc EXCEPT ![t] = next, ![w] = "fetch"]
    BY <1>2 DEF Signal, Goto
  <2>4. next \in {after[t], "push"} /\ (next = "push" <=> todo[t] # {})
    BY <2>2, WorkersAreThreads DEF Threads
  <2>. HIDE DEF next
  <2>5. pc \in [Threads -> WorkerPc \cup MainPc]
    BY DEF IInv, TypeOK
  <2>6. /\ pc'[t] = next
        /\ \A u \in Threads \ {t} :
             pc'[u] = pc[u] \/ (pc[u] = "asleep" /\ pc'[u] = "fetch")
    BY <2>2, <2>3, <2>5 DEF At
  <2>7. TypeOK'
    <3>1. next \in WorkerPc \cup MainPc /\ (t \in Workers => next \in WorkerPc)
          /\ (t \in Mains => next \in MainPc)
      BY <2>2, <2>4, WorkersAreThreads DEF Threads
    <3>2. pc' \in [Threads -> WorkerPc \cup MainPc]
      BY <2>3, <2>5, <3>1 DEF At
    <3>3. \A u \in Workers : pc'[u] \in WorkerPc
      BY <2>6, <3>1, WorkersAreThreads DEF IInv, TypeOK
    <3>4. \A u \in Mains : pc'[u] \in MainPc
      BY <2>6, <3>1, WorkersAreThreads DEF IInv, TypeOK
    <3>. QED
      BY <2>1, <3>2, <3>3, <3>4 DEF IInv, TypeOK, tasks, coros, queue
  <2>8. Discipline'
    BY <2>1, <2>2, <2>4, <2>6, WorkersAreThreads
       DEF IInv, Discipline, InBody, coros, Threads
  <2>. QED
    BY <2>7, <2>8 DEF Shape
<1>. QED
  BY <1>1, <1>2 DEF Schedules

LEMMA CallShape ==
  ASSUME IInv, NEW t \in Threads, NEW c \in Coros, Call(t, c),
         pc[t] = Home(t)
  PROVE  Shape'
<1>1. TypeOK'
  BY WorkersAreThreads DEF IInv, TypeOK, Call, Home, Goto, coros, queue
<1>2. Discipline'
  BY WorkersAreThreads DEF IInv, TypeOK, Discipline, InBody, Call, Home, Goto, coros, Threads
<1>. QED
  BY <1>1, <1>2 DEF Shape

LEMMA AwaitShape ==
  ASSUME IInv, NEW t \in Workers,
         \/ \E d \in Coros : AwaitBegins(t, d)
         \/ AwaitChecks(t) \/ AwaitLinks(t) \/ AwaitResumes(t)
  PROVE  Shape'
<1>. t \in Threads /\ t \notin Mains
  BY WorkersAreThreads
<1>1. ASSUME pc[t] \in {"body", "check", "link", "resume"}
      PROVE  /\ cur[t] \in Coros /\ cur[t] # NoCoro
             /\ \A u \in Threads : cur[u] = cur[t] => u = t
  BY <1>1 DEF IInv, TypeOK, Discipline, InBody, HeldOncePerKind
<1>2. ASSUME NEW d \in Coros, AwaitBegins(t, d) PROVE Shape'
  <2>1. TypeOK'
    BY <1>1, <1>2 DEF IInv, TypeOK, AwaitBegins, Goto, tasks, queue
  <2>2. Discipline'
    BY <1>1, <1>2 DEF IInv, TypeOK, Discipline, InBody, AwaitBegins, Goto
  <2>. QED
    BY <2>1, <2>2 DEF Shape
<1>3. CASE AwaitChecks(t)
  <2>1. TypeOK'
    <3>1. PICK place \in {"link", "resume"} : pc' = [pc EXCEPT ![t] = place]
      BY <1>3 DEF AwaitChecks, Goto
    <3>2. UNCHANGED <<tasks, coros, queue, cur, todo, after, on>>
      BY <1>3 DEF AwaitChecks
    <3>. QED
      BY <3>1, <3>2 DEF IInv, TypeOK, tasks, coros, queue
  <2>2. Discipline'
    BY <1>3 DEF IInv, TypeOK, Discipline, InBody, AwaitChecks, Goto, coros
  <2>. QED
    BY <2>1, <2>2 DEF Shape
<1>4. CASE AwaitLinks(t)
  <2>1. TypeOK'
    <3>1. PICK place \in {"fetch", "resume"} : pc' = [pc EXCEPT ![t] = place]
      BY <1>4 DEF AwaitLinks, Goto
    <3>2. waiters' \in [Coros -> SUBSET Coros] /\ cur' \in [Threads -> Coros \cup {NoCoro}]
      BY <1>1, <1>4 DEF IInv, TypeOK, AwaitLinks
    <3>3. UNCHANGED <<created, done, outcome, coros, queue, todo, after, on>>
      BY <1>4 DEF AwaitLinks
    <3>4. /\ pc' \in [Threads -> WorkerPc \cup MainPc]
          /\ \A u \in Workers : pc'[u] \in WorkerPc
          /\ \A u \in Mains : pc'[u] \in MainPc
      BY <3>1, WorkersAreThreads DEF IInv, TypeOK
    <3>. QED
      BY <3>2, <3>3, <3>4 DEF IInv, TypeOK, coros, queue
  <2>2. Discipline'
    BY <1>1, <1>4 DEF IInv, TypeOK, Discipline, InBody, AwaitLinks, Goto, coros
  <2>. QED
    BY <2>1, <2>2 DEF Shape
<1>5. CASE AwaitResumes(t)
  <2>1. TypeOK'
    <3>1. awaiting' \in [Coros -> Coros \cup {NoCoro}]
      BY <1>5 DEF IInv, TypeOK, AwaitResumes
    <3>2. UNCHANGED <<tasks, left, queue, cur, todo, after, on>>
      BY <1>5 DEF AwaitResumes
    <3>3. pc' = [pc EXCEPT ![t] = "body"]
      BY <1>5 DEF AwaitResumes, Goto
    <3>. QED
      BY <3>1, <3>2, <3>3 DEF IInv, TypeOK, tasks, queue
  <2>2. Discipline'
    BY <1>1, <1>5 DEF IInv, TypeOK, Discipline, InBody, AwaitResumes, Goto
  <2>. QED
    BY <2>1, <2>2 DEF Shape
<1>. QED
  BY <1>2, <1>3, <1>4, <1>5

LEMMA EndShape ==
  ASSUME IInv, NEW t \in Workers, Finish(t) \/ Detach(t) \/ Broadcast(t)
  PROVE  Shape'
<1>. t \in Threads /\ t \notin Mains
  BY WorkersAreThreads
<1>1. ASSUME pc[t] \in {"body", "detach"}
      PROVE  cur[t] \in Live /\ cur[t] \in Coros
  BY <1>1 DEF IInv, TypeOK, Discipline, InBody, EachHeldIsLive, Live
<1>2. CASE Finish(t)
  <2>1. TypeOK'
    <3>1. outcome' \in [Coros -> Ends \cup {"none"}]
      BY <1>2 DEF IInv, TypeOK, Finish
    <3>. QED
      BY <1>2, <3>1 DEF IInv, TypeOK, Finish, Goto, coros, queue
  <2>2. Discipline'
    BY <1>2 DEF IInv, TypeOK, Discipline, InBody, Finish, Goto, coros
  <2>. QED
    BY <2>1, <2>2 DEF Shape
<1>3. CASE Detach(t)
  <2>1. TypeOK'
    BY <1>1, <1>3 DEF IInv, TypeOK, Detach, Goto, coros, queue, Live
  <2>2. Discipline'
    BY <1>1, <1>3 DEF IInv, TypeOK, Discipline, InBody, Detach, Goto, coros
  <2>. QED
    BY <2>1, <2>2 DEF Shape
<1>4. CASE Broadcast(t)
  <2>1. TypeOK'
    BY <1>4, WorkersAreThreads DEF IInv, TypeOK, Broadcast, tasks, coros, queue
  <2>2. Discipline'
    BY <1>4 DEF IInv, TypeOK, Discipline, InBody, Broadcast, coros
  <2>. QED
    BY <2>1, <2>2 DEF Shape
<1>. QED
  BY <1>2, <1>3, <1>4

LEMMA WaitShape ==
  ASSUME IInv, NEW t \in Threads,
         \/ Waits(t) \/ SpuriousWake(t)
         \/ \E d \in Coros : (t \in Mains /\ MainWaits(t, d)) \/ (t \in Workers /\ BodyWaits(t, d))
  PROVE  Shape'
<1>1. CASE WaitChecks(t)
  BY <1>1, WorkersAreThreads
     DEF IInv, TypeOK, Discipline, InBody, WaitChecks, Goto, tasks, coros, queue, Shape
<1>2. CASE WaitReturns(t)
  <2>1. TypeOK'
    BY <1>2, WorkersAreThreads DEF IInv, TypeOK, WaitReturns, Home, Goto, tasks, coros, queue, Threads
  <2>2. Discipline'
    BY <1>2, WorkersAreThreads
       DEF IInv, TypeOK, Discipline, InBody, WaitReturns, Home, Goto, coros, Threads
  <2>. QED
    BY <2>1, <2>2 DEF Shape
<1>3. CASE SpuriousWake(t)
  BY <1>3, WorkersAreThreads
     DEF IInv, TypeOK, Discipline, InBody, SpuriousWake, Goto, tasks, coros, queue, Shape
<1>4. ASSUME NEW d \in Coros, t \in Mains, MainWaits(t, d) PROVE Shape'
  BY <1>4, WorkersAreThreads
     DEF IInv, TypeOK, Discipline, InBody, MainWaits, WaitBegins, Goto, tasks, queue, Shape
<1>5. ASSUME NEW d \in Coros, t \in Workers, BodyWaits(t, d) PROVE Shape'
  <2>1. TypeOK'
    <3>1. /\ left' = [left EXCEPT ![cur[t]] = @ \ {d}] /\ on' = [on EXCEPT ![t] = d]
          /\ pc' = [pc EXCEPT ![t] = "wait"] /\ pc[t] = "body"
          /\ UNCHANGED <<created, done, outcome, waiters, awaiting, ring, qhead, qtail, cur, todo, after>>
      BY <1>5 DEF BodyWaits, WaitBegins, Goto, tasks, queue
    <3>2. left' \in [Coros -> SUBSET Coros] /\ on' \in [Threads -> Coros \cup {NoCoro}]
      BY <1>5, <3>1, WorkersAreThreads DEF IInv, TypeOK
    <3>3. /\ pc' \in [Threads -> WorkerPc \cup MainPc]
          /\ \A m \in Mains : pc'[m] \in MainPc
          /\ \A w \in Workers : pc'[w] \in WorkerPc
      BY <1>5, <3>1, WorkersAreThreads DEF IInv, TypeOK, WorkerPc, MainPc
    <3>. QED
      BY <3>1, <3>2, <3>3 DEF IInv, TypeOK
  <2>2. Discipline'
    BY <1>5, WorkersAreThreads
       DEF IInv, TypeOK, Discipline, InBody, BodyWaits, WaitBegins, Goto
  <2>. QED
    BY <2>1, <2>2 DEF Shape
<1>. QED
  BY <1>1, <1>2, <1>3, <1>4, <1>5 DEF Waits
-----------------------------------------------------------------------------
LEMMA InitHolds == Init => IInv
<1>. SUFFICES ASSUME Init PROVE IInv
  OBVIOUS
<1>1. Occupied = {}
  <2>1. qhead = 0 /\ qtail = 0 /\ 0 \in Slots
    BY TaskPoolAssumption DEF Init, Slots
  <2>2. Queued = 0
    BY <2>1, Distance DEF Queued
  <2>3. ASSUME NEW i \in Slots PROVE ~((i - qhead) % QCAP < 0)
    BY <2>1, Distance DEF Slots
  <2>. QED
    BY <2>2, <2>3 DEF Occupied
<1>2. TypeOK
  BY TaskPoolAssumption, WorkersAreThreads DEF Init, TypeOK, Slots, Threads
<1>3. Discipline
  BY TaskPoolAssumption DEF Init, Discipline, InBody, Threads
<1>4. Ownership
  BY <1>1, TaskPoolAssumption
     DEF Init, Ownership, EachHeldIsLive, HeldOncePerKind, KindsAreApart, EachLiveIsHeld, Live
<1>. QED
  BY <1>2, <1>3, <1>4 DEF IInv, Ownership

LEMMA NextKeeps ==
  ASSUME IInv, RingIsAmple, [Next]_vars
  PROVE  IInv'
<1>. USE WorkersAreThreads
<1>1. ASSUME NEW t \in Workers, Fetch(t) \/ FetchSleeps(t) PROVE IInv'
  <2>1. Ownership'
    BY <1>1, FetchMoves, PlacesKept DEF FetchSleeps, tasks, IInv, Ownership
  <2>. QED
    BY <1>1, <2>1, FetchShape DEF Shape, Ownership, IInv
<1>2. ASSUME NEW t \in Threads, Schedules(t) PROVE IInv'
  <2>1. Ownership'
    BY <1>2, PushMoves, PlacesKept DEF Schedules, Signal, tasks, IInv, Ownership
  <2>. QED
    BY <1>2, <2>1, ScheduleShape DEF Shape, Ownership, IInv
<1>3. ASSUME NEW t \in Threads, NEW c \in Coros \ created, Call(t, c), pc[t] = Home(t)
      PROVE  IInv'
  <2>1. todo[t] = {}
    BY <1>3 DEF IInv, Discipline, Home
  <2>2. Ownership'
    BY <1>3, <2>1, CallMoves
  <2>. QED
    BY <1>3, <2>2, CallShape DEF Shape, Ownership, IInv
<1>4. ASSUME NEW t \in Workers, NEW c \in Coros, BodyCalls(t, c) PROVE IInv'
  BY <1>3, <1>4 DEF BodyCalls, Home
<1>5. ASSUME NEW t \in Mains, NEW c \in Coros, MainCalls(t, c) PROVE IInv'
  BY <1>3, <1>5 DEF MainCalls, Home
<1>6. ASSUME NEW t \in Workers,
             \/ \E d \in Coros : AwaitBegins(t, d)
             \/ AwaitChecks(t) \/ AwaitLinks(t) \/ AwaitResumes(t)
      PROVE  IInv'
  <2>1. Ownership'
    BY <1>6, ParkMoves, PlacesKept
       DEF AwaitBegins, AwaitChecks, AwaitResumes, tasks, IInv, Ownership
  <2>. QED
    BY <1>6, <2>1, AwaitShape DEF Shape, Ownership, IInv
<1>7. ASSUME NEW t \in Workers, Finish(t) \/ Detach(t) \/ Broadcast(t) PROVE IInv'
  <2>1. Ownership'
    BY <1>7, DetachMoves, PlacesKept DEF Finish, Broadcast, tasks, IInv, Ownership
  <2>. QED
    BY <1>7, <2>1, EndShape DEF Shape, Ownership, IInv
<1>8. ASSUME NEW t \in Threads, Shape', UNCHANGED <<created, done, waiters, queue, cur, todo>>
      PROVE  IInv'
  BY <1>8, PlacesKept DEF Shape, Ownership, IInv
<1>9. ASSUME NEW t \in Threads, Waits(t) \/ SpuriousWake(t) PROVE IInv'
  BY <1>8, <1>9, WaitShape DEF Waits, WaitChecks, WaitReturns, SpuriousWake, tasks
<1>10. ASSUME NEW t \in Mains, NEW d \in Coros, MainWaits(t, d) PROVE IInv'
  BY <1>8, <1>10, WaitShape DEF MainWaits, WaitBegins, tasks
<1>11. ASSUME NEW t \in Workers, NEW d \in Coros, BodyWaits(t, d) PROVE IInv'
  BY <1>8, <1>11, WaitShape DEF BodyWaits, WaitBegins, tasks
<1>12. CASE UNCHANGED vars
  <2>1. TypeOK'
    BY <1>12 DEF vars, tasks, coros, queue, IInv, TypeOK
  <2>2. Discipline'
    BY <1>12 DEF vars, tasks, coros, queue, IInv, Discipline, InBody
  <2>3. Ownership'
    BY <1>12, PlacesKept DEF vars, tasks, queue, IInv, Ownership
  <2>. QED
    BY <2>1, <2>2, <2>3 DEF IInv, Ownership
<1>13. ASSUME NEW t \in Workers, WorkerStep(t) PROVE IInv'
  <2>1. CASE Fetch(t) \/ FetchSleeps(t)
    BY <1>1, <2>1
  <2>2. CASE Schedules(t)
    BY <1>2, <2>2
  <2>3. CASE Waits(t) \/ \E c \in Coros : BodyWaits(t, c)
    BY <1>9, <1>11, <2>3
  <2>4. CASE \/ \E c \in Coros : AwaitBegins(t, c)
             \/ AwaitChecks(t) \/ AwaitLinks(t) \/ AwaitResumes(t)
    BY <1>6, <2>4
  <2>5. CASE Finish(t) \/ Detach(t) \/ Broadcast(t)
    BY <1>7, <2>5
  <2>6. CASE \E c \in Coros : BodyCalls(t, c)
    BY <1>4, <2>6
  <2>. QED
    BY <1>13, <2>1, <2>2, <2>3, <2>4, <2>5, <2>6 DEF WorkerStep
<1>14. ASSUME NEW t \in Mains, MainStep(t) \/ \E c \in Coros : MainCalls(t, c) \/ MainWaits(t, c)
       PROVE  IInv'
  <2>1. CASE Schedules(t)
    BY <1>2, <2>1
  <2>2. CASE Waits(t) \/ \E c \in Coros : MainWaits(t, c)
    BY <1>9, <1>10, <2>2
  <2>3. CASE \E c \in Coros : MainCalls(t, c)
    BY <1>5, <2>3
  <2>. QED
    BY <1>14, <2>1, <2>2, <2>3 DEF MainStep
<1>. QED
  BY <1>12, <1>13, <1>14, <1>9 DEF Next

LEMMA OnePlaceEach == ASSUME IInv PROVE OwnedOnce
<1>1. ASSUME NEW c \in Coros, c \notin Live PROVE Places(c) = {}
  <2>1. c # NoCoro
    BY TaskPoolAssumption
  <2>. QED
    BY <1>1, <2>1 DEF IInv, EachHeldIsLive, Places
<1>2. ASSUME NEW c \in Coros, c \in Live PROVE \E p \in Places(c) : Places(c) = {p}
  <2>. c # NoCoro
    BY TaskPoolAssumption
  <2>1. CASE \E i \in Occupied : ring[i] = c
    <3>1. PICK i \in Occupied : ring[i] = c
      BY <2>1
    <3>2. /\ \A j \in Occupied : ring[j] = c => j = i
          /\ \A d \in Coros : c \notin waiters[d]
          /\ \A t \in Threads : c \notin todo[t] /\ cur[t] # c
      BY <3>1 DEF IInv, HeldOncePerKind, KindsAreApart
    <3>3. Places(c) = {<<"ready", i>>}
      BY <3>1, <3>2 DEF Places
    <3>. QED
      BY <3>3
  <2>2. CASE \E d \in Coros : c \in waiters[d]
    <3>1. PICK d \in Coros : c \in waiters[d]
      BY <2>2
    <3>2. /\ \A j \in Occupied : ring[j] # c
          /\ \A e \in Coros : c \in waiters[e] => e = d
          /\ \A t \in Threads : c \notin todo[t] /\ cur[t] # c
      BY <3>1 DEF IInv, HeldOncePerKind, KindsAreApart
    <3>3. Places(c) = {<<"parked", d>>}
      BY <3>1, <3>2 DEF Places
    <3>. QED
      BY <3>3
  <2>3. CASE \E t \in Threads : c \in todo[t]
    <3>1. PICK t \in Threads : c \in todo[t]
      BY <2>3
    <3>2. /\ \A j \in Occupied : ring[j] # c
          /\ \A e \in Coros : c \notin waiters[e]
          /\ \A u \in Threads : (c \in todo[u] => u = t) /\ cur[u] # c
      BY <3>1 DEF IInv, HeldOncePerKind, KindsAreApart
    <3>3. Places(c) = {<<"woken", t>>}
      BY <3>1, <3>2 DEF Places
    <3>. QED
      BY <3>3
  <2>4. CASE \E t \in Threads : cur[t] = c
    <3>1. PICK t \in Threads : cur[t] = c
      BY <2>4
    <3>2. /\ \A j \in Occupied : ring[j] # c
          /\ \A e \in Coros : c \notin waiters[e]
          /\ \A u \in Threads : c \notin todo[u] /\ (cur[u] = c => u = t)
      BY <3>1 DEF IInv, HeldOncePerKind, KindsAreApart
    <3>3. Places(c) = {<<"running", t>>}
      BY <3>1, <3>2 DEF Places
    <3>. QED
      BY <3>3
  <2>. QED
    BY <1>2, <2>1, <2>2, <2>3, <2>4 DEF IInv, EachLiveIsHeld
<1>. QED
  BY <1>1, <1>2 DEF OwnedOnce, Live

LEMMA Invariant == Spec /\ []RingIsAmple => []IInv
<1>1. IInv /\ RingIsAmple /\ [Next]_vars => IInv'
  BY NextKeeps
<1>. QED
  BY <1>1, InitHolds, PTL DEF Spec

(* As long as fewer coroutines are alive than the ring has slots, the      *)
(* ring, the lists of waiters and the threads hold coroutines only.        *)
THEOREM TypeCorrect == Spec /\ []RingIsAmple => []TypeOK
<1>1. IInv => TypeOK
  BY DEF IInv
<1>. QED
  BY <1>1, Invariant, PTL

(* As long as fewer coroutines are alive than the ring has slots, every    *)
(* coroutine that has been called and has not ended is in exactly one      *)
(* place, with any number of workers and whatever awaits what: no          *)
(* continuation is lost and no state object is run by two workers.         *)
THEOREM ResumedOnce == Spec /\ []RingIsAmple => []OwnedOnce
<1>1. IInv => OwnedOnce
  BY OnePlaceEach
<1>. QED
  BY <1>1, Invariant, PTL
-----------------------------------------------------------------------------
(* What a coroutine finds when it comes back: while it is parked its state *)
(* names the task it waits for, from then on a task that is done.          *)
ParkedOn == /\ \A d \in Coros : \A c \in waiters[d] : awaiting[c] = d
            /\ \A d \in done : waiters[d] = {}
            /\ \A c \in Coros \ created : awaiting[c] = NoCoro

BackFrom == /\ \A i \in Occupied : awaiting[ring[i]] \in done \cup {NoCoro}
            /\ \A t \in Threads : \A c \in todo[t] : awaiting[c] \in done \cup {NoCoro}
            /\ \A t \in Threads : pc[t] = "resume" => awaiting[cur[t]] \in done
            /\ \A t \in Threads : pc[t] = "read" => on[t] \in done

Written == /\ \A d \in done : outcome[d] \in Ends
           /\ \A t \in Threads : pc[t] = "detach" => outcome[cur[t]] \in Ends

RInv == ParkedOn /\ BackFrom /\ Written

LEMMA ResultsInit == Init => RInv
<1>. SUFFICES ASSUME Init PROVE RInv
  OBVIOUS
<1>1. Occupied = {}
  <2>1. qhead = 0 /\ qtail = 0 /\ 0 \in Slots
    BY TaskPoolAssumption DEF Init, Slots
  <2>2. Queued = 0
    BY <2>1, Distance DEF Queued
  <2>3. ASSUME NEW i \in Slots PROVE ~((i - qhead) % QCAP < 0)
    BY <2>1, Distance DEF Slots
  <2>. QED
    BY <2>2, <2>3 DEF Occupied
<1>. QED
  BY <1>1 DEF Init, RInv, ParkedOn, BackFrom, Written

\* Steps that move no coroutine and end no wait.
LEMMA ResultsKept ==
  ASSUME RInv, UNCHANGED <<created, done, waiters, outcome, awaiting, queue, cur, todo>>,
         \A u \in Threads : \/ pc'[u] = pc[u] /\ (pc[u] = "read" => on'[u] = on[u])
                            \/ pc'[u] \notin {"resume", "detach", "read"}
                            \/ pc'[u] = "read" /\ on'[u] \in done
                            \/ pc'[u] = "resume" /\ awaiting[cur[u]] \in done
  PROVE  RInv'
<1>1. Occupied' = Occupied
  BY DEF queue, Occupied, Queued
<1>2. ring' = ring
  BY DEF queue
<1>3. ParkedOn'
  BY DEF RInv, ParkedOn
<1>4. BackFrom'
  BY <1>1, <1>2 DEF RInv, BackFrom
<1>5. Written'
  BY DEF RInv, Written
<1>. QED
  BY <1>3, <1>4, <1>5 DEF RInv

LEMMA ResultsFetch ==
  ASSUME IInv, RInv, NEW t \in Workers, Fetch(t)
  PROVE  RInv'
<1>1. /\ qhead \in Occupied /\ Occupied' = Occupied \ {qhead}
      /\ UNCHANGED <<created, done, outcome, waiters, left, awaiting, ring, todo, on>>
  BY Popped DEF IInv, Fetch, tasks, coros
<1>2. /\ \A u \in Threads \ {t} : pc'[u] = pc[u] /\ cur'[u] = cur[u]
      /\ cur'[t] = ring[qhead] /\ pc'[t] \in {"body", "resume"}
      /\ pc'[t] = "resume" => awaiting[ring[qhead]] # NoCoro
  BY WorkersAreThreads DEF IInv, TypeOK, Fetch, Goto
<1>3. ParkedOn'
  BY <1>1 DEF RInv, ParkedOn
<1>4. BackFrom'
  BY <1>1, <1>2 DEF RInv, BackFrom
<1>5. Written'
  BY <1>1, <1>2 DEF RInv, Written
<1>. QED
  BY <1>3, <1>4, <1>5 DEF RInv

LEMMA ResultsSchedule ==
  ASSUME IInv, RingIsAmple, RInv, NEW t \in Threads, Schedules(t)
  PROVE  RInv'
<1>1. CASE Push(t)
  <2>1. PICK c \in todo[t] : /\ ring' = [ring EXCEPT ![qtail] = c]
                             /\ todo' = [todo EXCEPT ![t] = @ \ {c}]
    BY <1>1 DEF Push
  <2>2. qtail \notin Occupied /\ Occupied' = Occupied \cup {qtail}
    BY <1>1, RoomToPush, Pushed DEF IInv, Push
  <2>3. /\ UNCHANGED <<created, done, outcome, waiters, left, awaiting, cur, on>>
        /\ pc' = [pc EXCEPT ![t] = "signal"]
    BY <1>1 DEF Push, tasks, coros, Goto
  <2>4. /\ ring \in [Slots -> Coros \cup {NoCoro}] /\ qtail \in Slots
        /\ todo \in [Threads -> SUBSET Coros] /\ Occupied \subseteq Slots
        /\ pc \in [Threads -> WorkerPc \cup MainPc]
    BY DEF IInv, TypeOK, Occupied
  <2>5. ParkedOn'
    BY <2>3 DEF RInv, ParkedOn
  <2>6. BackFrom'
    BY <2>1, <2>2, <2>3, <2>4 DEF RInv, BackFrom
  <2>7. Written'
    BY <2>3, <2>4 DEF RInv, Written
  <2>. QED
    BY <2>5, <2>6, <2>7 DEF RInv
<1>2. CASE Signal(t)
  <2>1. after[t] \in {"body", "broadcast", "main"}
    BY <1>2 DEF Signal, IInv, Discipline
  <2>2. \A u \in Threads : pc'[u] = pc[u] \/ pc'[u] \notin {"resume", "detach", "read"}
    BY <1>2, <2>1 DEF Signal, Goto, At, IInv, TypeOK
  <2>. QED
    BY <1>2, <2>2, ResultsKept DEF Signal, tasks, coros
<1>. QED
  BY <1>1, <1>2 DEF Schedules

LEMMA ResultsCall ==
  ASSUME IInv, RInv, NEW t \in Threads, NEW c \in Coros \ created, Call(t, c)
  PROVE  RInv'
<1>1. /\ created' = created \cup {c} /\ todo' = [todo EXCEPT ![t] = {c}]
      /\ UNCHANGED <<done, outcome, waiters, left, awaiting, ring, cur, on>>
      /\ Occupied' = Occupied /\ pc' = [pc EXCEPT ![t] = "push"]
  BY DEF Call, coros, queue, Goto, Occupied, Queued
<1>2. awaiting[c] = NoCoro
  BY DEF RInv, ParkedOn
<1>3. ParkedOn'
  BY <1>1 DEF RInv, ParkedOn
<1>4. BackFrom'
  BY <1>1, <1>2 DEF RInv, BackFrom, IInv, TypeOK
<1>5. Written'
  BY <1>1 DEF RInv, Written, IInv, TypeOK
<1>. QED
  BY <1>3, <1>4, <1>5 DEF RInv

\* Only a running coroutine's own slot is written, and it is in no list.
LEMMA ResultsAwaitSlot ==
  ASSUME IInv, RInv, NEW t \in Workers, (\E d \in Coros : AwaitBegins(t, d)) \/ AwaitResumes(t)
  PROVE  RInv'
<1>. DEFINE c == cur[t]
<1>1. PICK e : awaiting' = [awaiting EXCEPT ![c] = e]
  BY DEF AwaitBegins, AwaitResumes
<1>2. /\ UNCHANGED <<created, done, outcome, waiters, ring, cur, todo, on>>
      /\ Occupied' = Occupied
  BY DEF AwaitBegins, AwaitResumes, tasks, queue, Occupied, Queued
<1>3. /\ \A u \in Threads \ {t} : pc'[u] = pc[u]
      /\ pc'[t] \in {"check", "body"} /\ pc[t] \in {"body", "resume"} /\ t \in Threads
  BY WorkersAreThreads DEF AwaitBegins, AwaitResumes, Goto, IInv, TypeOK
<1>4. c \in Live /\ c \in created /\ c \in Coros /\ c # NoCoro
  BY <1>3, TaskPoolAssumption DEF IInv, Discipline, InBody, EachHeldIsLive, Live, TypeOK
<1>5. /\ \A i \in Occupied : ring[i] # c
      /\ \A d \in Coros : c \notin waiters[d]
      /\ \A u \in Threads : c \notin todo[u] /\ (cur[u] = c => u = t)
  BY <1>3, <1>4 DEF IInv, KindsAreApart, HeldOncePerKind
<1>. HIDE DEF c
<1>6. \A b : b # c => awaiting'[b] = awaiting[b]
  <2>. SUFFICES ASSUME NEW b, b # c PROVE awaiting'[b] = awaiting[b]
    OBVIOUS
  <2>. QED
    BY <1>1
<1>7. ParkedOn'
  BY <1>2, <1>4, <1>5, <1>6 DEF RInv, ParkedOn
<1>8. BackFrom'
  BY <1>2, <1>3, <1>5, <1>6 DEF RInv, BackFrom
<1>9. Written'
  BY <1>2, <1>3 DEF RInv, Written
<1>. QED
  BY <1>7, <1>8, <1>9 DEF RInv

LEMMA ResultsPark ==
  ASSUME IInv, RInv, NEW t \in Workers, AwaitLinks(t)
  PROVE  RInv'
<1>. DEFINE c == cur[t]
            d == awaiting[c]
<1>1. CASE d \in done
  <2>1. pc' = [pc EXCEPT ![t] = "resume"]
        /\ UNCHANGED <<created, done, waiters, outcome, awaiting, queue, cur, todo, on>>
    BY <1>1 DEF AwaitLinks, Goto, coros
  <2>2. pc \in [Threads -> WorkerPc \cup MainPc]
    BY DEF IInv, TypeOK
  <2>. QED
    BY <1>1, <2>1, <2>2, ResultsKept
<1>2. CASE d \notin done
  <2>1. /\ waiters' = [waiters EXCEPT ![d] = @ \cup {c}]
        /\ pc' = [pc EXCEPT ![t] = "fetch"] /\ cur' = [cur EXCEPT ![t] = NoCoro]
        /\ UNCHANGED <<created, done, outcome, awaiting, ring, todo, on>>
        /\ Occupied' = Occupied
    BY <1>2 DEF AwaitLinks, Goto, coros, queue, Occupied, Queued
  <2>2. /\ d \in Coros /\ waiters \in [Coros -> SUBSET Coros] /\ done \subseteq Coros
        /\ pc \in [Threads -> WorkerPc \cup MainPc]
        /\ cur \in [Threads -> Coros \cup {NoCoro}]
    BY WorkersAreThreads DEF IInv, TypeOK, Discipline, AwaitLinks
  <2>3. /\ \A e \in Coros : \A b : b \in waiters'[e] <=> b \in waiters[e] \/ (e = d /\ b = c)
        /\ \A e \in done : waiters'[e] = waiters[e]
    BY <1>2, <2>1, <2>2
  <2>4. ParkedOn'
    BY <2>1, <2>3 DEF RInv, ParkedOn
  <2>5. BackFrom'
    BY <2>1, <2>2 DEF RInv, BackFrom
  <2>6. Written'
    BY <2>1, <2>2 DEF RInv, Written
  <2>. QED
    BY <2>4, <2>5, <2>6 DEF RInv
<1>. QED
  BY <1>1, <1>2

LEMMA ResultsEnd ==
  ASSUME IInv, RInv, NEW t \in Workers, Finish(t) \/ Detach(t)
  PROVE  RInv'
<1>. DEFINE c == cur[t]
<1>1. /\ t \in Threads /\ c \in Live /\ c \in Coros /\ c \notin done
      /\ pc \in [Threads -> WorkerPc \cup MainPc]
      /\ cur \in [Threads -> Coros \cup {NoCoro}] /\ outcome \in [Coros -> Ends \cup {"none"}]
      /\ todo \in [Threads -> SUBSET Coros] /\ waiters \in [Coros -> SUBSET Coros]
      /\ done \subseteq Coros
  BY WorkersAreThreads
     DEF Finish, Detach, IInv, TypeOK, Discipline, InBody, EachHeldIsLive, Live
<1>2. CASE Finish(t)
  <2>1. PICK end \in Ends : outcome' = [outcome EXCEPT ![c] = end]
    BY <1>2 DEF Finish
  <2>2. /\ pc' = [pc EXCEPT ![t] = "detach"]
        /\ UNCHANGED <<created, done, waiters, awaiting, ring, cur, todo, on>>
        /\ Occupied' = Occupied
    BY <1>2 DEF Finish, Goto, coros, queue, Occupied, Queued
  <2>3. ParkedOn'
    BY <2>2 DEF RInv, ParkedOn
  <2>4. BackFrom'
    BY <1>1, <2>2 DEF RInv, BackFrom
  <2>5. Written'
    BY <1>1, <2>1, <2>2 DEF RInv, Written
  <2>. QED
    BY <2>3, <2>4, <2>5 DEF RInv
<1>3. CASE Detach(t)
  <2>1. /\ done' = done \cup {c} /\ UNCHANGED <<created, outcome, awaiting, ring, on>>
        /\ waiters' = [waiters EXCEPT ![c] = {}]
        /\ todo' = [todo EXCEPT ![t] = waiters[c]]
        /\ cur' = [cur EXCEPT ![t] = NoCoro]
        /\ Occupied' = Occupied
        /\ pc[t] = "detach"
    BY <1>3 DEF Detach, coros, queue, Occupied, Queued
  <2>2. PICK place \in {"broadcast", "push"} : pc' = [pc EXCEPT ![t] = place]
    BY <1>3 DEF Detach, Goto
  <2>. HIDE DEF c
  <2>3. /\ \A e \in Coros : waiters'[e] = IF e = c THEN {} ELSE waiters[e]
        /\ \A u \in Threads : todo'[u] = IF u = t THEN waiters[c] ELSE todo[u]
        /\ \A u \in Threads \ {t} : cur'[u] = cur[u] /\ pc'[u] = pc[u]
        /\ pc'[t] \in {"broadcast", "push"}
    BY <1>1, <2>1, <2>2
  <2>4. ParkedOn'
    BY <1>1, <2>1, <2>3 DEF RInv, ParkedOn
  <2>5. BackFrom'
    BY <1>1, <2>1, <2>3 DEF RInv, BackFrom, ParkedOn
  <2>6. outcome[c] \in Ends
    BY <1>1, <2>1 DEF RInv, Written, c
  <2>7. Written'
    BY <2>1, <2>3, <2>6 DEF RInv, Written
  <2>. QED
    BY <2>4, <2>5, <2>7 DEF RInv
<1>. QED
  BY <1>2, <1>3

LEMMA ResultsNext ==
  ASSUME ~OutOfMemory, IInv, RingIsAmple, RInv, [Next]_vars
  PROVE  RInv'
<1>. USE WorkersAreThreads
<1>. pc \in [Threads -> WorkerPc \cup MainPc]
  BY DEF IInv, TypeOK
<1>1. ASSUME NEW t \in Threads, FetchSleeps(t) PROVE RInv'
  BY <1>1, ResultsKept DEF FetchSleeps, Goto, tasks, coros
<1>2. ASSUME NEW t \in Threads, AwaitChecks(t) PROVE RInv'
  <2>1. PICK place \in {"link", "resume"} :
          /\ pc' = [pc EXCEPT ![t] = place]
          /\ place = "resume" => awaiting[cur[t]] \in done
    BY <1>2 DEF AwaitChecks, Goto
  <2>. QED
    BY <1>2, <2>1, ResultsKept DEF AwaitChecks, tasks, coros
<1>3. ASSUME NEW t \in Threads, Broadcast(t) PROVE RInv'
  <2>1. \A u \in Threads : pc'[u] = pc[u] \/ pc'[u] \in {"fetch", "wait"}
    BY <1>3 DEF Broadcast
  <2>. QED
    BY <1>3, <2>1, ResultsKept DEF Broadcast, tasks, coros
<1>4. ASSUME NEW t \in Threads, Waits(t) \/ SpuriousWake(t) PROVE RInv'
  <2>1. CASE WaitChecks(t)
    BY <2>1, ResultsKept DEF WaitChecks, Goto, tasks, coros
  <2>2. CASE WaitReturns(t)
    <3>1. on \in [Threads -> Coros \cup {NoCoro}]
      BY DEF IInv, TypeOK
    <3>. QED
      BY <2>2, <3>1, ResultsKept DEF WaitReturns, Home, Goto, tasks, coros
  <2>3. CASE SpuriousWake(t)
    BY <2>3, ResultsKept DEF SpuriousWake, Goto, tasks, coros
  <2>. QED
    BY <1>4, <2>1, <2>2, <2>3 DEF Waits
<1>5. ASSUME NEW t \in Threads, NEW d \in Coros, pc[t] # "read", WaitBegins(t, d)
      PROVE  RInv'
  <2>1. on \in [Threads -> Coros \cup {NoCoro}]
    BY DEF IInv, TypeOK
  <2>. QED
    BY <1>5, <2>1, ResultsKept DEF WaitBegins, Goto, tasks
<1>6. ASSUME NEW t \in Workers, NEW c \in Coros, BodyWaits(t, c) \/ BodyCalls(t, c) PROVE RInv'
  BY <1>5, <1>6, ResultsCall DEF BodyWaits, BodyCalls
<1>7. ASSUME NEW t \in Mains, NEW c \in Coros, MainWaits(t, c) \/ MainCalls(t, c) PROVE RInv'
  BY <1>5, <1>7, ResultsCall DEF MainWaits, MainCalls
<1>8. ASSUME NEW t \in Workers, WorkerStep(t) PROVE RInv'
  <2>1. CASE Fetch(t) \/ FetchSleeps(t)
    BY <1>1, <2>1, ResultsFetch
  <2>2. CASE Schedules(t)
    BY <2>2, ResultsSchedule
  <2>3. CASE Waits(t)
    BY <1>4, <2>3
  <2>4. CASE AwaitChecks(t) \/ AwaitLinks(t)
    BY <1>2, <2>4, ResultsPark
  <2>5. CASE AwaitResumes(t) \/ \E c \in Coros : AwaitBegins(t, c)
    BY <2>5, ResultsAwaitSlot
  <2>6. CASE Finish(t) \/ Detach(t)
    BY <2>6, ResultsEnd
  <2>7. CASE Broadcast(t)
    BY <1>3, <2>7
  <2>8. CASE \E c \in Coros : BodyCalls(t, c) \/ BodyWaits(t, c)
    BY <1>6, <2>8
  <2>. QED
    BY <1>8, <2>1, <2>2, <2>3, <2>4, <2>5, <2>6, <2>7, <2>8 DEF WorkerStep
<1>9. ASSUME NEW t \in Mains, MainStep(t) PROVE RInv'
  BY <1>4, <1>9, ResultsSchedule DEF MainStep
<1>10. CASE UNCHANGED vars
  BY <1>10, ResultsKept DEF vars, tasks, coros
<1>. QED
  BY <1>4, <1>7, <1>8, <1>9, <1>10 DEF Next

LEMMA ResultsInvariant == ~OutOfMemory => (Spec /\ []RingIsAmple => [](IInv /\ RInv))
<1>. SUFFICES ASSUME ~OutOfMemory PROVE Spec /\ []RingIsAmple => [](IInv /\ RInv)
  OBVIOUS
<1>1. IInv /\ RingIsAmple /\ RInv /\ [Next]_vars => RInv'
  BY ResultsNext
<1>. QED
  BY <1>1, Invariant, ResultsInit, PTL DEF Spec

(* When memory for the waiters does not run out, whoever comes out of an   *)
(* await or of task_wait finds the outcome of the task it waited for       *)
(* written: the fast path that reads `done` without the lock included.     *)
THEOREM ResultsAreThere == ~OutOfMemory => (Spec /\ []RingIsAmple => []AwaitersReadResults)
<1>1. IInv /\ RInv => AwaitersReadResults
  BY DEF AwaitersReadResults, RInv, BackFrom, Written
<1>. QED
  BY <1>1, ResultsInvariant, PTL

(* A task that is done has no waiter left: nobody parks on it after it has *)
(* woken those it had.                                                     *)
THEOREM NobodyLeftParked == ~OutOfMemory => (Spec /\ []RingIsAmple => []NobodyParkedOnDone)
<1>1. IInv /\ RInv => NobodyParkedOnDone
  BY DEF NobodyParkedOnDone, RInv, ParkedOn
<1>. QED
  BY <1>1, ResultsInvariant, PTL

(* A done task stays done and keeps its outcome: only the coroutine itself *)
(* writes it, and it is not alive any more.                                *)
THEOREM OutcomeKept == Spec /\ []RingIsAmple => OutcomeIsFinal
<1>1. ASSUME IInv, [Next]_vars
      PROVE  [done \subseteq done' /\ \A c \in done : outcome'[c] = outcome[c]]_vars
  <2>1. ASSUME NEW t \in Workers, Finish(t)
        PROVE  done' = done /\ \A c \in done : outcome'[c] = outcome[c]
    <3>1. cur[t] \notin done
      BY <1>1, <2>1, WorkersAreThreads
         DEF Finish, IInv, Discipline, InBody, EachHeldIsLive, Live
    <3>2. PICK end : outcome' = [outcome EXCEPT ![cur[t]] = end]
      BY <2>1 DEF Finish
    <3>3. done \subseteq Coros /\ outcome \in [Coros -> Ends \cup {"none"}]
      BY <1>1 DEF IInv, TypeOK
    <3>. QED
      BY <2>1, <3>1, <3>2, <3>3 DEF Finish
  <2>2. ASSUME NEW t \in Workers, WorkerStep(t)
        PROVE  done \subseteq done' /\ \A c \in done : outcome'[c] = outcome[c]
    <3>1. CASE Finish(t)
      BY <2>1, <3>1
    <3>2. CASE ~Finish(t)
      BY <2>2, <3>2
         DEF WorkerStep, Fetch, FetchSleeps, Schedules, Push, Signal, Waits, WaitChecks,
             WaitReturns, AwaitChecks, AwaitLinks, AwaitResumes, Detach, Broadcast,
             BodyCalls, Call, AwaitBegins, BodyWaits, WaitBegins, tasks
    <3>. QED
      BY <3>1, <3>2
  <2>3. ASSUME NEW t \in Mains, MainStep(t) \/ \E c \in Coros : MainCalls(t, c) \/ MainWaits(t, c)
        PROVE  done' = done /\ outcome' = outcome
    BY <2>3 DEF MainStep, Schedules, Push, Signal, Waits, WaitChecks, WaitReturns,
                MainCalls, Call, MainWaits, WaitBegins, tasks
  <2>4. ASSUME NEW t \in Threads, SpuriousWake(t) PROVE done' = done /\ outcome' = outcome
    BY <2>4 DEF SpuriousWake, tasks
  <2>. QED
    BY <1>1, <2>2, <2>3, <2>4 DEF Next
<1>2. IInv /\ [Next]_vars
        => [done \subseteq done' /\ \A c \in done : outcome'[c] = outcome[c]]_vars
  BY <1>1
<1>. QED
  BY <1>2, Invariant, PTL DEF Spec, OutcomeIsFinal
-----------------------------------------------------------------------------
(* The wakes.  An entry of the ring comes with a wake to be made, and the  *)
(* wake makes a worker that will look at the ring.                         *)
Signalling == At("signal")
Fetching == At("fetch")
Sleeping == At("asleep")

LEMMA AtPart ==
  ASSUME NEW place
  PROVE  /\ At(place) \subseteq Threads
         /\ IsFiniteSet(At(place)) /\ Cardinality(At(place)) \in Nat
<1>1. IsFiniteSet(Threads)
  BY TaskPoolAssumption, FS_Union DEF Threads
<1>2. At(place) \subseteq Threads
  BY DEF At
<1>. QED
  BY <1>1, <1>2, FS_Subset, FS_CardinalityType

\* What every step but four does to the wakes: nobody new is asleep, and
\* nobody who was awake for an entry is no longer.
LEMMA WakesKept ==
  ASSUME IInv, WakesCoverWork, UNCHANGED <<qhead, qtail>>,
         pc' \in [Threads -> WorkerPc \cup MainPc],
         \A u \in Threads : /\ pc'[u] = "asleep" => pc[u] = "asleep"
                            /\ pc[u] \in {"signal", "fetch"} => pc'[u] = pc[u]
  PROVE  WakesCoverWork'
<1>1. Sleeping' \subseteq Sleeping /\ Signalling \subseteq Signalling' /\ Fetching \subseteq Fetching'
  BY DEF Sleeping, Signalling, Fetching, At
<1>2. IsFiniteSet(Signalling') /\ IsFiniteSet(Fetching')
  BY AtPart, FS_Subset, TaskPoolAssumption, FS_Union DEF Signalling, Fetching, At, Threads
<1>3. /\ Cardinality(Signalling) <= Cardinality(Signalling')
      /\ Cardinality(Fetching) <= Cardinality(Fetching')
  BY <1>1, <1>2, FS_Subset
<1>4. /\ Cardinality(Signalling) \in Nat /\ Cardinality(Fetching) \in Nat
      /\ Cardinality(Signalling') \in Nat /\ Cardinality(Fetching') \in Nat
  BY <1>2, AtPart, FS_CardinalityType DEF Signalling, Fetching
<1>5. Queued' = Queued /\ Queued \in Nat
  BY QueuedRange, TaskPoolAssumption DEF IInv, Queued, Slots
<1>. QED
  BY <1>1, <1>3, <1>4, <1>5 DEF WakesCoverWork, Signalling, Fetching, Sleeping

LEMMA WakesFetch ==
  ASSUME IInv, WakesCoverWork, NEW t \in Workers, Fetch(t) \/ FetchSleeps(t)
  PROVE  WakesCoverWork'
<1>. t \in Threads
  BY WorkersAreThreads
<1>1. pc[t] = "fetch" /\ pc \in [Threads -> WorkerPc \cup MainPc]
  BY DEF IInv, TypeOK, Fetch, FetchSleeps
<1>2. /\ Queued = IF qtail >= qhead THEN qtail - qhead ELSE qtail - qhead + QCAP
      /\ qhead \in Slots /\ qtail \in Slots
  BY QueuedRange DEF IInv, TypeOK
<1>3. CASE Fetch(t)
  <2>1. PICK place \in {"body", "resume"} : pc' = [pc EXCEPT ![t] = place]
    BY <1>3 DEF Fetch, Goto
  <2>2. /\ Sleeping' = Sleeping /\ Signalling' = Signalling
        /\ Fetching' = Fetching \ {t} /\ t \in Fetching
    BY <1>1, <2>1 DEF Sleeping, Signalling, Fetching, At
  <2>3. Cardinality(Fetching') = Cardinality(Fetching) - 1
    BY <2>2, AtPart, FS_RemoveElement DEF Fetching
  <2>4. qhead # qtail /\ qhead' = Wrap(qhead) /\ qtail' = qtail /\ Wrap(qhead) \in Slots
    BY <1>2, <1>3, WrapStays DEF Fetch
  <2>5. Queued' = IF qtail' >= qhead' THEN qtail' - qhead' ELSE qtail' - qhead' + QCAP
    BY <1>2, <2>4, Distance DEF Queued
  <2>6. Queued' = Queued - 1
    BY <1>2, <2>4, <2>5, NextSlot, TaskPoolAssumption DEF Slots
  <2>7. Queued \in Int /\ Cardinality(Signalling) \in Nat /\ Cardinality(Fetching) \in Nat
    BY <1>2, AtPart, TaskPoolAssumption DEF Slots, Signalling, Fetching
  <2>. QED
    BY <2>2, <2>3, <2>6, <2>7 DEF WakesCoverWork, Signalling, Fetching, Sleeping
<1>4. CASE FetchSleeps(t)
  <2>1. Queued' = 0
    BY <1>2, <1>4, TaskPoolAssumption DEF FetchSleeps, Queued, queue, Slots
  <2>2. IsFiniteSet(At("signal")') /\ IsFiniteSet(At("fetch")')
    BY TaskPoolAssumption, FS_Union, FS_Subset DEF At, Threads
  <2>3. Cardinality(At("signal")') \in Nat /\ Cardinality(At("fetch")') \in Nat
    BY <2>2, FS_CardinalityType
  <2>. QED
    BY <2>1, <2>3 DEF WakesCoverWork
<1>. QED
  BY <1>3, <1>4

LEMMA WakesSchedule ==
  ASSUME IInv, RingIsAmple, WakesCoverWork, NEW t \in Threads, Schedules(t)
  PROVE  WakesCoverWork'
<1>1. pc \in [Threads -> WorkerPc \cup MainPc]
  BY DEF IInv, TypeOK
<1>2. Cardinality(Signalling) \in Nat /\ Cardinality(Fetching) \in Nat
  BY AtPart DEF Signalling, Fetching
<1>3. CASE Push(t)
  <2>1. pc[t] = "push" /\ pc' = [pc EXCEPT ![t] = "signal"]
    BY <1>3 DEF Push, Goto
  <2>2. /\ Sleeping' = Sleeping /\ Fetching' = Fetching
        /\ Signalling' = Signalling \cup {t} /\ t \notin Signalling
    BY <1>1, <2>1 DEF Sleeping, Signalling, Fetching, At
  <2>3. Cardinality(Signalling') = Cardinality(Signalling) + 1
    BY <2>2, AtPart, FS_AddElement DEF Signalling
  <2>4. Queued + 1 < QCAP
    BY <1>3, RoomToPush DEF Push
  <2>5. /\ Queued = IF qtail >= qhead THEN qtail - qhead ELSE qtail - qhead + QCAP
        /\ qhead \in Slots /\ qtail \in Slots
    BY QueuedRange DEF IInv, TypeOK
  <2>6. qtail' = Wrap(qtail) /\ qhead' = qhead /\ Wrap(qtail) \in Slots
    BY <1>3, <2>5, WrapStays DEF Push
  <2>7. Queued' = IF qtail' >= qhead' THEN qtail' - qhead' ELSE qtail' - qhead' + QCAP
    BY <2>5, <2>6, Distance DEF Queued
  <2>8. Queued' = Queued + 1 /\ Queued \in Int
    BY <2>4, <2>5, <2>6, <2>7, NextSlot, TaskPoolAssumption DEF Slots
  <2>. QED
    BY <1>2, <2>2, <2>3, <2>8 DEF WakesCoverWork, Signalling, Fetching, Sleeping
<1>4. CASE Signal(t)
  <2>. DEFINE next == IF todo[t] = {} THEN after[t] ELSE "push"
  <2>1. /\ pc[t] = "signal" /\ UNCHANGED <<qhead, qtail>>
        /\ \/ Sleeping = {} /\ pc' = [pc EXCEPT ![t] = next]
           \/ \E w \in Sleeping : pc' = [pc EXCEPT ![t] = next, ![w] = "fetch"]
    BY <1>4 DEF Signal, Goto, queue, Sleeping
  <2>2. next \in {"body", "broadcast", "main", "push"}
    BY <2>1, WorkersAreThreads DEF IInv, Discipline, Threads
  <2>. HIDE DEF next
  <2>3. CASE Sleeping = {} /\ pc' = [pc EXCEPT ![t] = next]
    <3>1. Sleeping' = {}
      BY <1>1, <2>2, <2>3 DEF Sleeping, At
    <3>. QED
      BY <3>1 DEF WakesCoverWork, Sleeping
  <2>4. ASSUME NEW w \in Sleeping, pc' = [pc EXCEPT ![t] = next, ![w] = "fetch"]
        PROVE  WakesCoverWork'
    <3>1. w \in Threads /\ pc[w] = "asleep" /\ w # t
      BY <2>1 DEF Sleeping, At
    <3>2. /\ Signalling' = Signalling \ {t} /\ t \in Signalling
          /\ Fetching' = Fetching \cup {w} /\ w \notin Fetching
      BY <1>1, <2>1, <2>2, <2>4, <3>1 DEF Signalling, Fetching, At
    <3>3. /\ Cardinality(Signalling') = Cardinality(Signalling) - 1
          /\ Cardinality(Fetching') = Cardinality(Fetching) + 1
      BY <3>2, AtPart, FS_AddElement, FS_RemoveElement DEF Signalling, Fetching
    <3>4. Queued' = Queued /\ Queued \in Nat
      BY <2>1, QueuedRange, TaskPoolAssumption DEF IInv, Queued, Slots
    <3>5. Queued <= Cardinality(Signalling) + Cardinality(Fetching)
      BY <2>4 DEF WakesCoverWork, Sleeping, Signalling, Fetching
    <3>. QED
      BY <1>2, <3>3, <3>4, <3>5 DEF WakesCoverWork, Signalling, Fetching
  <2>. QED
    BY <2>1, <2>3, <2>4
<1>. QED
  BY <1>3, <1>4 DEF Schedules

\* A thread that is neither at a wake nor looking at the ring goes somewhere
\* else than to sleep.
LEMMA WakesElsewhere ==
  ASSUME IInv, IInv', WakesCoverWork, UNCHANGED queue, NEW t \in Threads,
         pc[t] \notin {"signal", "fetch"}, NEW place, place # "asleep",
         pc' = [pc EXCEPT ![t] = place]
  PROVE  WakesCoverWork'
<1>1. pc \in [Threads -> WorkerPc \cup MainPc] /\ pc' \in [Threads -> WorkerPc \cup MainPc]
  BY DEF IInv, TypeOK
<1>2. \A u \in Threads : /\ pc'[u] = "asleep" => pc[u] = "asleep"
                         /\ pc[u] \in {"signal", "fetch"} => pc'[u] = pc[u]
  BY <1>1
<1>. QED
  BY <1>1, <1>2, WakesKept DEF queue

LEMMA WakesNext ==
  ASSUME IInv, RingIsAmple, WakesCoverWork, [Next]_vars
  PROVE  WakesCoverWork'
<1>. USE WorkersAreThreads
<1>1. IInv'
  BY NextKeeps
<1>2. pc \in [Threads -> WorkerPc \cup MainPc] /\ pc' \in [Threads -> WorkerPc \cup MainPc]
  BY <1>1 DEF IInv, TypeOK
<1>3. ASSUME NEW t \in Threads, WaitChecks(t) PROVE WakesCoverWork'
  <2>1. PICK place \in {"read", "waiting"} : pc' = [pc EXCEPT ![t] = place]
    BY <1>3 DEF WaitChecks, Goto
  <2>. QED
    BY <1>1, <1>3, <2>1, WakesElsewhere DEF WaitChecks
<1>4. ASSUME NEW t \in Threads, WaitReturns(t) PROVE WakesCoverWork'
  <2>1. PICK place \in {"body", "main"} : pc' = [pc EXCEPT ![t] = place]
    BY <1>4 DEF WaitReturns, Home, Goto
  <2>. QED
    BY <1>1, <1>4, <2>1, WakesElsewhere DEF WaitReturns
<1>5. ASSUME NEW t \in Threads, SpuriousWake(t) PROVE WakesCoverWork'
  <2>1. CASE pc[t] = "asleep" /\ Goto(t, "fetch")
    BY <1>1, <1>5, <2>1, WakesElsewhere DEF SpuriousWake, Goto
  <2>2. CASE pc[t] = "waiting" /\ Goto(t, "wait")
    BY <1>1, <1>5, <2>2, WakesElsewhere DEF SpuriousWake, Goto
  <2>. QED
    BY <1>5, <2>1, <2>2 DEF SpuriousWake
<1>6. ASSUME NEW t \in Threads, NEW c, Call(t, c), pc[t] \in {"body", "main"}
      PROVE  WakesCoverWork'
  BY <1>1, <1>6, WakesElsewhere DEF Call, Goto
<1>7. ASSUME NEW t \in Threads, NEW d, WaitBegins(t, d), pc[t] \in {"body", "main"}
      PROVE  WakesCoverWork'
  BY <1>1, <1>7, WakesElsewhere DEF WaitBegins, Goto
<1>8. ASSUME NEW t \in Workers, AwaitChecks(t) \/ AwaitLinks(t) PROVE WakesCoverWork'
  <2>1. /\ pc[t] \in {"check", "link"} /\ UNCHANGED queue
        /\ \E place \in {"resume", "link", "fetch"} : pc' = [pc EXCEPT ![t] = place]
    BY <1>8 DEF AwaitChecks, AwaitLinks, Goto
  <2>. QED
    BY <1>1, <2>1, WakesElsewhere
<1>9. ASSUME NEW t \in Workers, AwaitResumes(t) \/ \E d \in Coros : AwaitBegins(t, d)
      PROVE  WakesCoverWork'
  <2>1. /\ pc[t] \in {"resume", "body"} /\ UNCHANGED queue
        /\ \E place \in {"body", "check"} : pc' = [pc EXCEPT ![t] = place]
    BY <1>9 DEF AwaitResumes, AwaitBegins, Goto
  <2>. QED
    BY <1>1, <2>1, WakesElsewhere
<1>10. ASSUME NEW t \in Workers, Finish(t) \/ Detach(t) PROVE WakesCoverWork'
  <2>1. /\ pc[t] \in {"body", "detach"} /\ UNCHANGED queue
        /\ \E place \in {"detach", "broadcast", "push"} : pc' = [pc EXCEPT ![t] = place]
    BY <1>10 DEF Finish, Detach, Goto
  <2>. QED
    BY <1>1, <2>1, WakesElsewhere
<1>11. ASSUME NEW t \in Workers, Broadcast(t) PROVE WakesCoverWork'
  <2>1. UNCHANGED <<qhead, qtail>>
    BY <1>11 DEF Broadcast, queue
  <2>2. \A u \in Threads : /\ pc'[u] = "asleep" => pc[u] = "asleep"
                           /\ pc[u] \in {"signal", "fetch"} => pc'[u] = pc[u]
    BY <1>11 DEF Broadcast
  <2>. QED
    BY <1>2, <2>1, <2>2, WakesKept
<1>12. ASSUME NEW t \in Workers, WorkerStep(t) PROVE WakesCoverWork'
  <2>1. CASE Fetch(t) \/ FetchSleeps(t)
    BY <2>1, WakesFetch
  <2>2. CASE Schedules(t)
    BY <2>2, WakesSchedule
  <2>3. CASE Waits(t)
    BY <1>3, <1>4, <2>3 DEF Waits
  <2>4. CASE AwaitChecks(t) \/ AwaitLinks(t)
    BY <1>8, <2>4
  <2>5. CASE AwaitResumes(t) \/ \E c \in Coros : AwaitBegins(t, c)
    BY <1>9, <2>5
  <2>6. CASE Finish(t) \/ Detach(t)
    BY <1>10, <2>6
  <2>7. CASE Broadcast(t)
    BY <1>11, <2>7
  <2>8. CASE \E c \in Coros : BodyCalls(t, c) \/ BodyWaits(t, c)
    BY <1>6, <1>7, <2>8 DEF BodyCalls, BodyWaits
  <2>. QED
    BY <1>12, <2>1, <2>2, <2>3, <2>4, <2>5, <2>6, <2>7, <2>8 DEF WorkerStep
<1>13. ASSUME NEW t \in Mains, MainStep(t) \/ \E c \in Coros : MainCalls(t, c) \/ MainWaits(t, c)
       PROVE  WakesCoverWork'
  <2>1. CASE Schedules(t)
    BY <2>1, WakesSchedule
  <2>2. CASE Waits(t)
    BY <1>3, <1>4, <2>2 DEF Waits
  <2>3. CASE \E c \in Coros : MainCalls(t, c) \/ MainWaits(t, c)
    BY <1>6, <1>7, <2>3 DEF MainCalls, MainWaits
  <2>. QED
    BY <1>13, <2>1, <2>2, <2>3 DEF MainStep
<1>14. CASE UNCHANGED vars
  BY <1>2, <1>14, WakesKept DEF vars, queue
<1>. QED
  BY <1>5, <1>12, <1>13, <1>14 DEF Next
-----------------------------------------------------------------------------
(* The broadcast.  The thread that makes a task done still has it to make. *)
Owes(u) == \/ pc[u] = "broadcast"
           \/ pc[u] \in {"push", "signal"} /\ after[u] = "broadcast"

LEMMA OwedKept ==
  ASSUME BroadcastOwed, done' = done,
         \A t \in Threads : pc'[t] = "waiting" => pc[t] = "waiting" /\ on'[t] = on[t],
         \A u \in Workers : Owes(u) => Owes(u)'
  PROVE  BroadcastOwed'
<1>. SUFFICES ASSUME NEW t \in Threads, pc'[t] = "waiting", on'[t] \in done'
              PROVE  \E u \in Workers : Owes(u)'
  BY DEF BroadcastOwed, At, Owes
<1>. QED
  BY DEF BroadcastOwed, At, Owes

\* A thread that owes no broadcast, before or after, and does not go to
\* sleep in task_wait either.
LEMMA OwedElsewhere ==
  ASSUME IInv, BroadcastOwed, done' = done, NEW t \in Threads, ~Owes(t),
         NEW place, place # "waiting", pc' = [pc EXCEPT ![t] = place],
         \A u \in Threads \ {t} : on'[u] = on[u] /\ after'[u] = after[u]
  PROVE  BroadcastOwed'
<1>1. pc \in [Threads -> WorkerPc \cup MainPc]
  BY DEF IInv, TypeOK
<1>2. \A u \in Threads : pc'[u] = "waiting" => pc[u] = "waiting" /\ on'[u] = on[u]
  BY <1>1
<1>3. \A u \in Workers : Owes(u) => Owes(u)'
  BY <1>1, WorkersAreThreads DEF Owes
<1>. QED
  BY <1>2, <1>3, OwedKept

LEMMA OwedSchedule ==
  ASSUME IInv, BroadcastOwed, NEW t \in Threads, Schedules(t)
  PROVE  BroadcastOwed'
<1>1. pc \in [Threads -> WorkerPc \cup MainPc]
  BY DEF IInv, TypeOK
<1>2. done' = done /\ on' = on /\ after' = after
  BY DEF Schedules, Push, Signal, tasks
<1>3. CASE Push(t)
  <2>1. pc[t] = "push" /\ pc' = [pc EXCEPT ![t] = "signal"]
    BY <1>3 DEF Push, Goto
  <2>2. \A u \in Threads : pc'[u] = "waiting" => pc[u] = "waiting"
    BY <1>1, <2>1
  <2>3. \A u \in Workers : Owes(u) => Owes(u)'
    BY <1>1, <1>2, <2>1, WorkersAreThreads DEF Owes
  <2>. QED
    BY <1>2, <2>2, <2>3, OwedKept
<1>4. CASE Signal(t)
  <2>. DEFINE next == IF todo[t] = {} THEN after[t] ELSE "push"
  <2>1. /\ pc[t] = "signal"
        /\ \/ pc' = [pc EXCEPT ![t] = next]
           \/ \E w \in At("asleep") : pc' = [pc EXCEPT ![t] = next, ![w] = "fetch"]
    BY <1>4 DEF Signal, Goto
  <2>2. /\ next \in {"body", "broadcast", "main", "push"}
        /\ after[t] = "broadcast" => next \in {"broadcast", "push"}
    BY <2>1, WorkersAreThreads DEF IInv, Discipline, Threads
  <2>. HIDE DEF next
  <2>3. \A u \in Threads : \/ u = t /\ pc'[u] = next
                           \/ u # t /\ pc'[u] = pc[u]
                           \/ u # t /\ pc[u] = "asleep" /\ pc'[u] = "fetch"
    BY <1>1, <2>1 DEF At
  <2>4. \A u \in Threads : pc'[u] = "waiting" => pc[u] = "waiting"
    BY <2>2, <2>3
  <2>5. \A u \in Workers : Owes(u) => Owes(u)'
    BY <1>2, <2>1, <2>2, <2>3, WorkersAreThreads DEF Owes
  <2>. QED
    BY <1>2, <2>4, <2>5, OwedKept
<1>. QED
  BY <1>3, <1>4 DEF Schedules

\* The task is made done by a thread that owes its broadcast from then on.
LEMMA OwedDetach ==
  ASSUME IInv, NEW t \in Workers, Detach(t)
  PROVE  BroadcastOwed'
<1>1. pc \in [Threads -> WorkerPc \cup MainPc] /\ after \in [Threads -> {"fetch", "body", "broadcast", "main"}]
  BY DEF IInv, TypeOK
<1>2. Owes(t)'
  BY <1>1, WorkersAreThreads DEF Detach, Goto, Owes
<1>. QED
  BY <1>2 DEF BroadcastOwed, Owes

LEMMA OwedNext ==
  ASSUME IInv, BroadcastOwed, [Next]_vars
  PROVE  BroadcastOwed'
<1>. USE WorkersAreThreads
<1>1. pc \in [Threads -> WorkerPc \cup MainPc]
  BY DEF IInv, TypeOK
<1>2. ASSUME NEW t \in Threads, WaitChecks(t) PROVE BroadcastOwed'
  <2>1. CASE on[t] \in done
    BY <1>2, <2>1, OwedElsewhere DEF WaitChecks, Goto, Owes, tasks
  <2>2. CASE on[t] \notin done
    <3>1. /\ done' = done /\ on' = on /\ after' = after
          /\ pc[t] = "wait" /\ pc' = [pc EXCEPT ![t] = "waiting"]
      BY <1>2, <2>2 DEF WaitChecks, Goto, tasks
    <3>2. \A u \in Threads : pc'[u] = "waiting" => u = t \/ pc[u] = "waiting"
      BY <1>1, <3>1
    <3>3. \A u \in Workers : Owes(u) => Owes(u)'
      BY <1>1, <3>1 DEF Owes
    <3>4. ASSUME NEW u \in Threads, pc'[u] = "waiting", on'[u] \in done'
          PROVE  \E w \in Workers : Owes(w)
      BY <2>2, <3>1, <3>2, <3>4 DEF BroadcastOwed, At, Owes
    <3>. QED
      BY <3>3, <3>4 DEF BroadcastOwed, At, Owes
  <2>. QED
    BY <2>1, <2>2
<1>3. ASSUME NEW t \in Threads, WaitReturns(t) PROVE BroadcastOwed'
  <2>1. PICK place \in {"body", "main"} : pc' = [pc EXCEPT ![t] = place]
    BY <1>3 DEF WaitReturns, Home, Goto
  <2>2. /\ pc[t] = "read" /\ done' = done /\ after' = after
        /\ \A u \in Threads \ {t} : on'[u] = on[u]
    BY <1>3 DEF WaitReturns, tasks, IInv, TypeOK
  <2>. QED
    BY <2>1, <2>2, OwedElsewhere DEF Owes
<1>4. ASSUME NEW t \in Threads, SpuriousWake(t) PROVE BroadcastOwed'
  <2>1. /\ pc[t] \in {"asleep", "waiting"} /\ UNCHANGED <<done, on, after>>
        /\ \E place \in {"fetch", "wait"} : pc' = [pc EXCEPT ![t] = place]
    BY <1>4 DEF SpuriousWake, Goto, tasks
  <2>. QED
    BY <2>1, OwedElsewhere DEF Owes
<1>5. ASSUME NEW t \in Threads, NEW c, Call(t, c), pc[t] \in {"body", "main"}
      PROVE  BroadcastOwed'
  <2>1. \A u \in Threads \ {t} : on'[u] = on[u] /\ after'[u] = after[u]
    BY <1>5 DEF Call, IInv, TypeOK
  <2>. QED
    BY <1>5, <2>1, OwedElsewhere DEF Call, Goto, Owes
<1>6. ASSUME NEW t \in Threads, NEW d, WaitBegins(t, d), pc[t] \in {"body", "main"}
      PROVE  BroadcastOwed'
  <2>1. \A u \in Threads \ {t} : on'[u] = on[u] /\ after'[u] = after[u]
    BY <1>6 DEF WaitBegins, IInv, TypeOK
  <2>. QED
    BY <1>6, <2>1, OwedElsewhere DEF WaitBegins, Goto, Owes, tasks
<1>7. ASSUME NEW t \in Workers,
             \/ Fetch(t) \/ FetchSleeps(t) \/ AwaitChecks(t) \/ AwaitLinks(t)
             \/ AwaitResumes(t) \/ (\E d \in Coros : AwaitBegins(t, d)) \/ Finish(t)
      PROVE  BroadcastOwed'
  <2>1. UNCHANGED <<done, on, after>>
    BY <1>7 DEF Fetch, FetchSleeps, AwaitChecks, AwaitLinks, AwaitResumes, AwaitBegins, Finish, tasks
  <2>2. pc[t] \in {"fetch", "check", "link", "resume", "body"}
    BY <1>7 DEF Fetch, FetchSleeps, AwaitChecks, AwaitLinks, AwaitResumes, AwaitBegins, Finish
  <2>3. \E place \in {"asleep", "fetch", "check", "link", "resume", "body", "detach"} :
          pc' = [pc EXCEPT ![t] = place]
    BY <1>7 DEF Fetch, FetchSleeps, AwaitChecks, AwaitLinks, AwaitResumes, AwaitBegins, Finish, Goto
  <2>. QED
    BY <2>1, <2>2, <2>3, OwedElsewhere DEF Owes
<1>8. ASSUME NEW t \in Workers, Broadcast(t) PROVE BroadcastOwed'
  <2>1. \A u \in Threads : pc'[u] # "waiting"
    BY <1>8 DEF Broadcast
  <2>. QED
    BY <2>1 DEF BroadcastOwed, At
<1>9. ASSUME NEW t \in Workers, WorkerStep(t) PROVE BroadcastOwed'
  <2>1. CASE Schedules(t)
    BY <2>1, OwedSchedule
  <2>2. CASE Waits(t)
    BY <1>2, <1>3, <2>2 DEF Waits
  <2>3. CASE Detach(t)
    BY <2>3, OwedDetach
  <2>4. CASE \E c \in Coros : BodyCalls(t, c) \/ BodyWaits(t, c)
    BY <1>5, <1>6, <2>4 DEF BodyCalls, BodyWaits
  <2>. QED
    BY <1>7, <1>8, <1>9, <2>1, <2>2, <2>3, <2>4 DEF WorkerStep
<1>10. ASSUME NEW t \in Mains, MainStep(t) \/ \E c \in Coros : MainCalls(t, c) \/ MainWaits(t, c)
       PROVE  BroadcastOwed'
  BY <1>2, <1>3, <1>5, <1>6, <1>10, OwedSchedule DEF MainStep, Waits, MainCalls, MainWaits
<1>11. CASE UNCHANGED vars
  BY <1>11, OwedKept DEF vars, tasks, Owes
<1>. QED
  BY <1>4, <1>9, <1>10, <1>11 DEF Next

(* No wake is missed: while a worker sleeps every entry of the ring has a  *)
(* wake to come or an awake worker of its own, and a thread asleep on a    *)
(* finished task has a broadcast to come.  The wake is counted against the *)
(* entry when it is pushed, although it is made after the unlock.          *)
THEOREM NoWakeIsMissed == Spec /\ []RingIsAmple => []NoWakeMissed
<1>1. Init => WakesCoverWork /\ BroadcastOwed
  BY WorkersAreThreads DEF Init, WakesCoverWork, BroadcastOwed, At, Threads
<1>2. IInv /\ RingIsAmple /\ NoWakeMissed /\ [Next]_vars => NoWakeMissed'
  BY WakesNext, OwedNext DEF NoWakeMissed
<1>. QED
  BY <1>1, <1>2, Invariant, PTL DEF Spec, NoWakeMissed
=============================================================================
