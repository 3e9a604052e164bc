----------------------------- MODULE SyncProofs ------------------------------
(* Theorems about the latch, the barrier and the reader/writer lock, for   *)
(* any finite sets of threads and any sizes: each has an inductive         *)
(* invariant of its own over the state they share in MCSync, and a step of *)
(* one is a step of no other.                                              *)
EXTENDS MCSync, FiniteSetTheorems, TLAPS

LEMMA ThreadsFinite == IsFiniteSet(Threads)
BY SyncAssumption, FS_Union DEF Threads

LEMMA PartFinite == ASSUME NEW S, S \subseteq Threads PROVE IsFiniteSet(S) /\ Cardinality(S) \in Nat
BY ThreadsFinite, FS_Subset, FS_CardinalityType

\* The three synchronisers count as this module does.
LEMMA SameCount == ASSUME NEW S PROVE /\ Latch!Cardinality(S) = Cardinality(S)
                                      /\ Meeting!Cardinality(S) = Cardinality(S)
                                      /\ Lock!Cardinality(S) = Cardinality(S)
BY DEF Latch!Cardinality, Meeting!Cardinality, Lock!Cardinality, Cardinality

\* What the cardinality of a set of threads is when one of them comes.
LEMMA OneMore ==
  ASSUME NEW S, S \subseteq Threads, NEW t \in Threads, t \notin S
  PROVE  Cardinality(S \cup {t}) = Cardinality(S) + 1
BY PartFinite, FS_AddElement

LEMMA OneLess ==
  ASSUME NEW S, S \subseteq Threads, NEW t \in S
  PROVE  Cardinality(S \ {t}) = Cardinality(S) - 1
BY PartFinite, FS_RemoveElement

LEMMA NoneOrSome ==
  ASSUME NEW S, S \subseteq Threads
  PROVE  Cardinality(S) = 0 <=> S = {}
BY PartFinite, FS_EmptySet

\* Those who have a token that only one can have.
LEMMA AtMostOne ==
  ASSUME NEW S, S \subseteq Threads, \A t, u \in S : t = u
  PROVE  Cardinality(S) = IF S = {} THEN 0 ELSE 1
<1>1. CASE S = {}
  BY <1>1, NoneOrSome
<1>2. CASE S # {}
  <2>1. PICK t \in S : S = {t}
    BY <1>2
  <2>. QED
    BY <2>1, FS_Singleton
<1>. QED
  BY <1>1, <1>2
-----------------------------------------------------------------------------
(* The latch.  Its one token is in the gate or with the thread that opens  *)
(* it or hands it on, from the last of `n` countDown() calls on.           *)
Handing == {t \in Threads : where[t] \in {"opening", "passing"}}
Opened == Cardinality(Latch!Counted) >= size

LatchInv ==
  /\ size \in LatchSizes
  /\ gate \in {0, 1}
  /\ where \in [Threads -> {"counting", "opening", "waiting", "passing", "over"}]
  /\ \A c \in Counters : where[c] \in {"counting", "opening", "over"}
  /\ \A w \in Waiters : where[w] \in {"waiting", "passing", "over"}
  /\ count = size - Cardinality(Latch!Counted)
  /\ \A t, u \in Handing : t = u
  /\ gate = 1 => Handing = {}
  /\ (gate = 1 \/ Handing # {}) <=> Opened
  /\ (\E w \in Waiters : where[w] # "waiting") => Opened

LEMMA CountedPart == Latch!Counted \subseteq Threads /\ Latch!Counted \subseteq Counters
BY DEF Latch!Counted, Threads

LEMMA LatchInit ==
  ASSUME Latch!Init
  PROVE  LatchInv
<1>1. Latch!Counted = {}
  BY SyncAssumption DEF Latch!Init, Latch!Counted, Latch!At, Latch!Calls, Threads
<1>2. Cardinality(Latch!Counted) = 0
  BY <1>1, FS_EmptySet
<1>3. size \in LatchSizes /\ size \in Int
  BY SyncAssumption DEF Latch!Init
<1>4. Handing = {}
  BY DEF Handing, Latch!Init, Latch!Calls, Threads
<1>. QED
  BY <1>2, <1>3, <1>4, SyncAssumption DEF Latch!Init, LatchInv, Opened, Latch!Calls, Threads

\* A countDown() that makes its add is counted from then on.
LEMMA LatchCounts ==
  ASSUME LatchInv, NEW c \in Counters, Latch!CountDown(c)
  PROVE  LatchInv'
<1>. DEFINE n == Cardinality(Latch!Counted)
<1>1. /\ c \in Threads /\ where[c] = "counting"
      /\ where' = [where EXCEPT ![c] = IF count - 1 = 0 THEN "opening" ELSE "over"]
      /\ count' = count - 1 /\ UNCHANGED <<size, gate>>
  BY DEF Latch!CountDown, Latch!Goto, Threads
<1>2. Latch!Counted' = Latch!Counted \cup {c} /\ c \notin Latch!Counted
  BY <1>1 DEF LatchInv, Latch!Counted, Latch!At, Latch!Calls, Threads
<1>3. n \in Nat /\ n' = n + 1
  BY <1>1, <1>2, CountedPart, OneMore, PartFinite
<1>4. size \in Int /\ count = size - n
  BY SyncAssumption DEF LatchInv
<1>5. CASE count - 1 = 0
  <2>1. n + 1 = size /\ ~Opened /\ Opened'
    BY <1>1, <1>3, <1>4, <1>5 DEF Opened
  <2>2. Handing' = {c}
    BY <1>1, <1>5, <2>1 DEF LatchInv, Handing
  <2>. QED
    BY <1>1, <1>3, <1>4, <1>5, <2>1, <2>2, SyncAssumption DEF LatchInv, Threads
<1>6. CASE count - 1 # 0
  <2>1. Opened' <=> Opened
    BY <1>1, <1>3, <1>4, <1>6 DEF Opened
  <2>2. Handing' = Handing
    BY <1>1, <1>6 DEF LatchInv, Handing
  <2>. QED
    BY <1>1, <1>3, <1>4, <1>6, <2>1, <2>2, SyncAssumption DEF LatchInv, Threads
<1>. QED
  BY <1>5, <1>6

\* The other steps move the token.
LEMMA LatchHands ==
  ASSUME LatchInv, NEW t \in Threads,
         \/ t \in Counters /\ Latch!Open(t)
         \/ t \in Waiters /\ (Latch!Pass(t) \/ Latch!PassOn(t))
  PROVE  LatchInv'
<1>1. UNCHANGED <<size, count>> /\ where[t] # "counting"
  BY DEF Latch!Open, Latch!Pass, Latch!PassOn, Latch!Goto
<1>2. \E there \in {"passing", "over"} : where' = [where EXCEPT ![t] = there]
  BY DEF Latch!Open, Latch!Pass, Latch!PassOn, Latch!Goto
<1>3. Latch!Counted' = Latch!Counted
  BY <1>1, <1>2 DEF LatchInv, Latch!Counted, Latch!At, Latch!Calls, Threads
<1>4. Opened' <=> Opened
  BY <1>1, <1>3 DEF Opened
<1>5. CASE t \in Counters /\ Latch!Open(t)
  <2>1. Handing = {t} /\ Handing' = {} /\ gate' = 1
    BY <1>5 DEF Latch!Open, Latch!Goto, Latch!Send, LatchInv, Handing
  <2>. QED
    BY <1>1, <1>3, <1>4, <1>5, <2>1, SyncAssumption DEF LatchInv, Latch!Open, Latch!Goto
<1>6. CASE t \in Waiters /\ Latch!Pass(t)
  <2>1. Handing = {} /\ Handing' = {t} /\ gate' = 0 /\ gate = 1
    BY <1>6 DEF Latch!Pass, Latch!Goto, Latch!Receive, LatchInv, Handing
  <2>. QED
    BY <1>1, <1>3, <1>4, <1>6, <2>1, SyncAssumption DEF LatchInv, Latch!Pass, Latch!Goto
<1>7. CASE t \in Waiters /\ Latch!PassOn(t)
  <2>1. Handing = {t} /\ Handing' = {} /\ gate' = 1
    BY <1>7 DEF Latch!PassOn, Latch!Goto, Latch!Send, LatchInv, Handing
  <2>. QED
    BY <1>1, <1>3, <1>4, <1>7, <2>1, SyncAssumption DEF LatchInv, Latch!PassOn, Latch!Goto
<1>. QED
  BY <1>5, <1>6, <1>7

LEMMA LatchSteps ==
  ASSUME LatchInv, NEW t \in Threads, Latch!Step(t)
  PROVE  LatchInv'
BY LatchCounts, LatchHands DEF Latch!Step

LEMMA LatchKeeps ==
  ASSUME LatchInv
  PROVE  Latch!NobodyPassesEarly /\ Latch!OneToken
<1>1. Latch!NobodyPassesEarly
  BY SameCount DEF LatchInv, Opened, Latch!NobodyPassesEarly
<1>2. Latch!At("opening") \cup Latch!At("passing") = Handing
  BY DEF LatchInv, Handing, Latch!At, Latch!Calls, Threads
<1>3. Cardinality(Handing) = IF Handing = {} THEN 0 ELSE 1
  BY AtMostOne DEF LatchInv, Handing
<1>4. gate + Cardinality(Handing) = IF Opened THEN 1 ELSE 0
  BY <1>3 DEF LatchInv
<1>5. /\ Latch!Cardinality(Handing) = Cardinality(Handing)
      /\ Latch!Cardinality(Latch!Counted) = Cardinality(Latch!Counted)
  BY SameCount
<1>6. Latch!OneToken
  BY <1>2, <1>4, <1>5 DEF Opened, Latch!OneToken
<1>. QED
  BY <1>1, <1>6
-----------------------------------------------------------------------------
(* The barrier.  Before the last arrival there is no token; from then on   *)
(* one thread posts them, as many as the barrier is for and no more, and   *)
(* each is in the gate or has let a thread out.                            *)
Here(p) == {t \in Threads : where[t] = p}
Come == Threads \ Here("arriving")

BarrierInv ==
  /\ size \in Nat /\ size \in BarrierSizes
  /\ gate \in Nat /\ second \in Nat
  /\ where \in [Threads -> {"arriving", "posting", "waiting", "left"}]
  /\ count = Cardinality(Come)
  /\ second = gate + Cardinality(Here("left"))
  /\ second <= size
  /\ Here("posting") # {} => second < size
  /\ \A t, u \in Here("posting") : t = u
  /\ count < size => second = 0 /\ Here("posting") = {}

LEMMA HerePart == ASSUME NEW p PROVE Here(p) \subseteq Threads /\ Come \subseteq Threads
BY DEF Here, Come

LEMMA SameMeeting ==
  ASSUME NEW p
  PROVE  /\ Meeting!At(p) = Here(p)
         /\ Meeting!Cardinality(Here(p)) = Cardinality(Here(p))
         /\ Meeting!Cardinality(Threads) = Cardinality(Threads)
         /\ Meeting!Cardinality(Come) = Cardinality(Come)
BY SameCount DEF Meeting!At, Here

LEMMA BarrierInit ==
  ASSUME Meeting!Init
  PROVE  BarrierInv
<1>1. Come = {} /\ Here("left") = {} /\ Here("posting") = {}
  BY DEF Meeting!Init, Come, Here
<1>2. Cardinality(Come) = 0 /\ Cardinality(Here("left")) = 0
  BY <1>1, FS_EmptySet
<1>. QED
  BY <1>1, <1>2, SyncAssumption DEF Meeting!Init, BarrierInv

LEMMA BarrierSteps ==
  ASSUME BarrierInv, NEW t \in Threads, Meeting!Step(t)
  PROVE  BarrierInv'
<1>. DEFINE out == Cardinality(Here("left"))
<1>1. out \in Nat /\ Cardinality(Come) \in Nat
  BY HerePart, PartFinite
<1>2. CASE Meeting!Arrive(t)
  <2>1. /\ where[t] = "arriving" /\ count' = count + 1
        /\ where' = [where EXCEPT ![t] = IF count + 1 = size THEN "posting" ELSE "waiting"]
        /\ UNCHANGED <<size, gate, second>>
    BY <1>2 DEF Meeting!Arrive, Meeting!Goto
  <2>2. Come' = Come \cup {t} /\ t \notin Come /\ Here("left")' = Here("left")
    BY <2>1 DEF BarrierInv, Come, Here
  <2>3. Cardinality(Come') = Cardinality(Come) + 1
    BY <2>2, HerePart, OneMore
  <2>4. Here("posting")' = IF count + 1 = size THEN Here("posting") \cup {t} ELSE Here("posting")
    BY <2>1 DEF BarrierInv, Here
  <2>5. where' \in [Threads -> {"arriving", "posting", "waiting", "left"}]
    BY <2>1 DEF BarrierInv
  <2>6. count + 1 = size => second = 0 /\ Here("posting") = {} /\ second < size
    BY <1>1 DEF BarrierInv
  <2>. QED
    BY <1>1, <2>1, <2>2, <2>3, <2>4, <2>5, <2>6 DEF BarrierInv
<1>3. CASE Meeting!Post(t)
  <2>1. /\ t \in Here("posting") /\ gate' = gate + 1 /\ second' = second + 1
        /\ where' = [where EXCEPT ![t] = IF second + 1 < size THEN "posting" ELSE "waiting"]
        /\ UNCHANGED <<size, count>>
    BY <1>3 DEF Meeting!Post, Here
  <2>2. Come' = Come /\ Here("left")' = Here("left")
    BY <2>1 DEF BarrierInv, Come, Here
  <2>3. Here("posting")' = IF second + 1 < size THEN {t} ELSE {}
    BY <2>1 DEF BarrierInv, Here
  <2>4. where' \in [Threads -> {"arriving", "posting", "waiting", "left"}]
    BY <2>1 DEF BarrierInv
  <2>5. second < size /\ ~(count < size)
    BY <2>1 DEF BarrierInv
  <2>. QED
    BY <1>1, <2>1, <2>2, <2>3, <2>4, <2>5 DEF BarrierInv
<1>4. CASE Meeting!Leave(t)
  <2>1. /\ where[t] = "waiting" /\ gate > 0 /\ gate' = gate - 1
        /\ where' = [where EXCEPT ![t] = "left"]
        /\ UNCHANGED <<size, count, second>>
    BY <1>4 DEF Meeting!Leave, Meeting!Goto
  <2>2. /\ Come' = Come /\ Here("posting")' = Here("posting")
        /\ Here("left")' = Here("left") \cup {t} /\ t \notin Here("left")
    BY <2>1 DEF BarrierInv, Come, Here
  <2>3. Cardinality(Here("left")') = out + 1
    BY <2>2, HerePart, OneMore
  <2>4. where' \in [Threads -> {"arriving", "posting", "waiting", "left"}]
    BY <2>1 DEF BarrierInv
  <2>. QED
    BY <1>1, <2>1, <2>2, <2>3, <2>4 DEF BarrierInv
<1>. QED
  BY <1>2, <1>3, <1>4 DEF Meeting!Step

LEMMA BarrierKeeps ==
  ASSUME BarrierInv
  PROVE  Meeting!NobodyLeavesEarly /\ Meeting!TokensAccounted
<1>1. Cardinality(Here("left")) \in Nat /\ Cardinality(Come) \in Nat
  BY HerePart, PartFinite
<1>2. Meeting!NobodyLeavesEarly
  <2>1. SUFFICES ASSUME Here("left") # {} PROVE Cardinality(Come) >= size
    BY SameMeeting DEF Meeting!NobodyLeavesEarly, Come
  <2>2. Cardinality(Here("left")) # 0
    BY <2>1, HerePart, NoneOrSome
  <2>3. second # 0
    BY <1>1, <2>2 DEF BarrierInv
  <2>. QED
    BY <1>1, <2>3 DEF BarrierInv
<1>3. Cardinality(Here("posting")) <= 1
  <2>1. Cardinality(Here("posting")) = IF Here("posting") = {} THEN 0 ELSE 1
    BY HerePart, AtMostOne DEF BarrierInv
  <2>. QED
    BY <2>1
<1>4. Here("posting") # {} => second < size /\ gate < size
  BY <1>1 DEF BarrierInv
<1>5. Meeting!TokensAccounted
  BY <1>3, <1>4, SameMeeting DEF BarrierInv, Meeting!TokensAccounted
<1>. QED
  BY <1>2, <1>5
-----------------------------------------------------------------------------
(* The reader/writer lock.  The mutex's token is in its channel or with    *)
(* one thread.  The write token is in its channel, with one writer, or     *)
(* with the readers as a body: from the step in which the first of them    *)
(* takes it until the last gives it back.                                  *)
InMutex == {"countIn", "takeWrite", "letIn", "countOut", "giveWrite", "letOut"}
CountedAt == {"takeWrite", "letIn", "reading", "leaving", "countOut"}
HolderAt == {"letIn", "reading", "leaving", "countOut", "giveWrite"}
LockPlaces == InMutex \cup CountedAt \cup {"out", "entering", "writeWait", "writing"}

Within(ps) == {t \in Threads : where[t] \in ps}
ReadersHold == Within(HolderAt) # {}
Writers == Within({"writing"})

LockInv ==
  /\ gate \in {0, 1} /\ second \in {0, 1}
  /\ where \in [Threads -> LockPlaces]
  /\ count = Cardinality(Within(CountedAt))
  /\ \A t, u \in Within(InMutex) : t = u
  /\ gate = 1 <=> Within(InMutex) = {}
  /\ \A t, u \in Writers : t = u
  /\ Writers # {} => ~ReadersHold
  /\ second = 1 <=> Writers = {} /\ ~ReadersHold
  /\ \A t \in Threads : /\ where[t] = "takeWrite" => Within(CountedAt) = {t}
                        /\ where[t] = "giveWrite" => Within(CountedAt) = {}

LEMMA WithinPart == ASSUME NEW ps PROVE Within(ps) \subseteq Threads
BY DEF Within

LEMMA LockInit ==
  ASSUME Lock!Init
  PROVE  LockInv
<1>1. \A ps : "out" \notin ps => Within(ps) = {}
  BY DEF Lock!Init, Within
<1>2. /\ Within(CountedAt) = {} /\ Within(InMutex) = {} /\ Within(HolderAt) = {} /\ Writers = {}
  BY <1>1 DEF CountedAt, InMutex, HolderAt, Writers
<1>3. Cardinality(Within(CountedAt)) = 0
  BY <1>2, FS_EmptySet
<1>4. where \in [Threads -> LockPlaces]
  BY DEF Lock!Init, LockPlaces
<1>. QED
  BY <1>2, <1>3, <1>4 DEF Lock!Init, LockInv, ReadersHold

\* How a step of one thread from one place to another changes the sets.
LEMMA Moves ==
  ASSUME LockInv, NEW t \in Threads, NEW old, where[t] = old,
         NEW new \in LockPlaces, where' = [where EXCEPT ![t] = new]
  PROVE  /\ where' \in [Threads -> LockPlaces]
         /\ \A ps : Within(ps)' = IF new \in ps THEN Within(ps) \cup {t} ELSE Within(ps) \ {t}
         /\ \A ps : t \in Within(ps) <=> old \in ps
BY DEF LockInv, Within

LEMMA CountMoves ==
  ASSUME LockInv, NEW t \in Threads
  PROVE  /\ where[t] \notin CountedAt => Cardinality(Within(CountedAt) \cup {t}) = count + 1
         /\ where[t] \in CountedAt => Cardinality(Within(CountedAt) \ {t}) = count - 1
         /\ count \in Nat
         /\ count = 0 <=> Within(CountedAt) = {}
<1>1. Within(CountedAt) \subseteq Threads /\ count = Cardinality(Within(CountedAt))
  BY WithinPart DEF LockInv
<1>2. t \in Within(CountedAt) <=> where[t] \in CountedAt
  BY DEF Within
<1>. QED
  BY <1>1, <1>2, OneMore, OneLess, PartFinite, NoneOrSome

\* A thread whose step leaves the two tokens and the count where they are.
LEMMA LockWalks ==
  ASSUME LockInv, NEW t \in Threads,
         Lock!ReadLock(t) \/ Lock!WriteLock(t) \/ Lock!ReadUnlock(t)
  PROVE  LockInv'
<1>1. UNCHANGED <<gate, second, count>>
  BY DEF Lock!ReadLock, Lock!WriteLock, Lock!ReadUnlock
<1>2. \E old \in {"out", "reading"}, new \in {"entering", "writeWait", "leaving"} :
         /\ where[t] = old /\ where' = [where EXCEPT ![t] = new]
         /\ old = "reading" <=> new = "leaving"
  BY DEF Lock!ReadLock, Lock!WriteLock, Lock!ReadUnlock, Lock!Goto
<1>3. where' \in [Threads -> LockPlaces]
  BY <1>2 DEF LockInv, LockPlaces, CountedAt
<1>4. /\ Within(CountedAt)' = Within(CountedAt) /\ Within(InMutex)' = Within(InMutex)
      /\ Within(HolderAt)' = Within(HolderAt) /\ Writers' = Writers
  BY <1>2, <1>3 DEF LockInv, Within, CountedAt, InMutex, HolderAt, Writers
<1>5. \A u \in Threads : where'[u] \in {"takeWrite", "giveWrite"} => where[u] = where'[u]
  BY <1>2 DEF LockInv
<1>. QED
  BY <1>1, <1>3, <1>4, <1>5 DEF LockInv, ReadersHold

LEMMA LockReaderComes ==
  ASSUME LockInv, NEW t \in Threads,
         Lock!EnterMutex(t) \/ Lock!CountIn(t) \/ Lock!TakeWrite(t) \/ Lock!LetIn(t)
  PROVE  LockInv'
<1>0. count \in Nat /\ (count = 0 <=> Within(CountedAt) = {})
  BY CountMoves
<1>. USE DEF InMutex, CountedAt, HolderAt, LockPlaces
<1>1. CASE Lock!EnterMutex(t)
  <2>1. /\ where[t] = "entering" /\ where' = [where EXCEPT ![t] = "countIn"]
        /\ gate = 1 /\ gate' = 0 /\ UNCHANGED <<second, count>>
    BY <1>1 DEF Lock!EnterMutex, Lock!Goto, Lock!Acquire, LockInv
  <2>2. /\ Within(CountedAt)' = Within(CountedAt) /\ Within(HolderAt)' = Within(HolderAt)
        /\ Writers' = Writers
        /\ Within(InMutex) = {} /\ Within(InMutex)' = {t}
        /\ where' \in [Threads -> LockPlaces]
    BY <2>1 DEF LockInv, Within, Writers
  <2>3. \A u \in Threads : where'[u] \notin {"takeWrite", "giveWrite"}
    BY <2>1, <2>2 DEF LockInv, Within
  <2>. QED
    BY <2>1, <2>2, <2>3 DEF LockInv, ReadersHold
<1>2. CASE Lock!CountIn(t)
  <2>1. /\ where[t] = "countIn"
        /\ where' = [where EXCEPT ![t] = IF count + 1 = 1 THEN "takeWrite" ELSE "letIn"]
        /\ count' = count + 1 /\ UNCHANGED <<gate, second>>
    BY <1>2 DEF Lock!CountIn, Lock!Goto
  <2>2. /\ Within(CountedAt)' = Within(CountedAt) \cup {t}
        /\ Writers' = Writers /\ Within(InMutex) = {t} /\ Within(InMutex)' = {t}
        /\ where' \in [Threads -> LockPlaces]
    BY <2>1 DEF LockInv, Within, Writers
  <2>3. count' = Cardinality(Within(CountedAt)')
    BY <2>1, <2>2, CountMoves
  <2>4. \A u \in Threads : where[u] # "takeWrite" /\ where[u] # "giveWrite"
    BY <2>1, <2>2 DEF LockInv, Within
  <2>5. CASE count + 1 = 1
    <3>1. Within(CountedAt) = {}
      BY <1>0, <2>5
    <3>2. Within(HolderAt) = {} /\ Within(HolderAt)' = {}
      BY <2>1, <2>4, <2>5, <3>1 DEF LockInv, Within
    <3>3. \A u \in Threads : where'[u] # "giveWrite" /\ (where'[u] = "takeWrite" => u = t)
      BY <2>1, <2>4 DEF LockInv
    <3>. QED
      BY <2>1, <2>2, <2>3, <3>1, <3>2, <3>3 DEF LockInv, ReadersHold
  <2>6. CASE count + 1 # 1
    <3>1. Within(CountedAt) # {}
      BY <1>0, <2>6
    <3>2. ReadersHold /\ ReadersHold'
      BY <2>1, <2>4, <2>6, <3>1 DEF LockInv, Within, ReadersHold
    <3>3. \A u \in Threads : where'[u] # "giveWrite" /\ where'[u] # "takeWrite"
      BY <2>1, <2>4, <2>6 DEF LockInv
    <3>. QED
      BY <2>1, <2>2, <2>3, <3>2, <3>3 DEF LockInv
  <2>. QED
    BY <2>5, <2>6
<1>3. CASE Lock!TakeWrite(t)
  <2>1. /\ where[t] = "takeWrite" /\ where' = [where EXCEPT ![t] = "letIn"]
        /\ second = 1 /\ second' = 0 /\ UNCHANGED <<gate, count>>
    BY <1>3 DEF Lock!TakeWrite, Lock!Goto, Lock!Acquire, LockInv
  <2>2. /\ Within(CountedAt)' = Within(CountedAt) /\ Within(InMutex)' = Within(InMutex)
        /\ Writers' = Writers /\ t \in Within(HolderAt)' /\ Within(InMutex) = {t}
        /\ where' \in [Threads -> LockPlaces]
    BY <2>1 DEF LockInv, Within, Writers
  <2>3. \A u \in Threads : where'[u] \notin {"takeWrite", "giveWrite"}
    BY <2>1, <2>2 DEF LockInv, Within
  <2>. QED
    BY <2>1, <2>2, <2>3 DEF LockInv, ReadersHold
<1>4. CASE Lock!LetIn(t)
  <2>1. /\ where[t] = "letIn" /\ where' = [where EXCEPT ![t] = "reading"]
        /\ gate' = gate + 1 /\ UNCHANGED <<second, count>>
    BY <1>4 DEF Lock!LetIn, Lock!Goto, Lock!Signal
  <2>2. /\ Within(CountedAt)' = Within(CountedAt) /\ Within(HolderAt)' = Within(HolderAt)
        /\ Writers' = Writers /\ Within(InMutex) = {t} /\ Within(InMutex)' = {}
        /\ where' \in [Threads -> LockPlaces]
    BY <2>1 DEF LockInv, Within, Writers
  <2>3. \A u \in Threads : where'[u] \notin {"takeWrite", "giveWrite"}
    BY <2>1, <2>2 DEF LockInv, Within
  <2>. QED
    BY <2>1, <2>2, <2>3 DEF LockInv, ReadersHold
<1>. QED
  BY <1>1, <1>2, <1>3, <1>4

LEMMA LockReaderGoes ==
  ASSUME LockInv, NEW t \in Threads,
         Lock!LeaveMutex(t) \/ Lock!CountOut(t) \/ Lock!GiveWrite(t) \/ Lock!LetOut(t)
  PROVE  LockInv'
<1>. USE DEF InMutex, CountedAt, HolderAt, LockPlaces
<1>1. CASE Lock!LeaveMutex(t)
  <2>1. /\ where[t] = "leaving" /\ where' = [where EXCEPT ![t] = "countOut"]
        /\ gate = 1 /\ gate' = 0 /\ UNCHANGED <<second, count>>
    BY <1>1 DEF Lock!LeaveMutex, Lock!Goto, Lock!Acquire, LockInv
  <2>2. /\ Within(CountedAt)' = Within(CountedAt) /\ Within(HolderAt)' = Within(HolderAt)
        /\ Writers' = Writers
        /\ Within(InMutex) = {} /\ Within(InMutex)' = {t}
        /\ where' \in [Threads -> LockPlaces]
    BY <2>1 DEF LockInv, Within, Writers
  <2>3. \A u \in Threads : where'[u] \notin {"takeWrite", "giveWrite"}
    BY <2>1, <2>2 DEF LockInv, Within
  <2>. QED
    BY <2>1, <2>2, <2>3 DEF LockInv, ReadersHold
<1>2. CASE Lock!CountOut(t)
  <2>1. /\ where[t] = "countOut"
        /\ where' = [where EXCEPT ![t] = IF count - 1 = 0 THEN "giveWrite" ELSE "letOut"]
        /\ count' = count - 1 /\ UNCHANGED <<gate, second>>
    BY <1>2 DEF Lock!CountOut, Lock!Goto
  <2>2. /\ Within(CountedAt)' = Within(CountedAt) \ {t}
        /\ Writers' = Writers /\ Within(InMutex) = {t} /\ Within(InMutex)' = {t}
        /\ where' \in [Threads -> LockPlaces]
    BY <2>1 DEF LockInv, Within, Writers
  <2>3. count' = Cardinality(Within(CountedAt)')
    BY <2>1, <2>2, CountMoves
  <2>4. \A u \in Threads : where[u] # "takeWrite" /\ where[u] # "giveWrite"
    BY <2>1, <2>2 DEF LockInv, Within
  <2>5. ReadersHold
    BY <2>1 DEF ReadersHold, Within
  <2>6. CASE count - 1 = 0
    <3>1. Within(CountedAt)' = {}
      BY <2>1, <2>2, <2>3, <2>6, WithinPart, NoneOrSome
    <3>2. ReadersHold'
      BY <2>1, <2>2, <2>6 DEF ReadersHold, Within
    <3>3. \A u \in Threads : where'[u] # "takeWrite"
      BY <2>1, <2>4 DEF LockInv
    <3>. QED
      BY <2>1, <2>2, <2>3, <2>5, <3>1, <3>2, <3>3 DEF LockInv
  <2>7. CASE count - 1 # 0
    <3>1. Within(CountedAt)' # {}
      <4>1. Cardinality(Within(CountedAt)') # 0
        BY <2>1, <2>3, <2>7
      <4>. QED
        BY <4>1, FS_EmptySet
    <3>2. \A u \in Threads : where'[u] # "giveWrite" /\ where'[u] # "takeWrite"
      BY <2>1, <2>4, <2>7 DEF LockInv
    <3>3. ReadersHold'
      BY <3>1, <3>2 DEF Within, ReadersHold
    <3>. QED
      BY <2>1, <2>2, <2>3, <2>5, <3>2, <3>3 DEF LockInv
  <2>. QED
    BY <2>6, <2>7
<1>3. CASE Lock!GiveWrite(t)
  <2>1. /\ where[t] = "giveWrite" /\ where' = [where EXCEPT ![t] = "letOut"]
        /\ second' = second + 1 /\ UNCHANGED <<gate, count>>
    BY <1>3 DEF Lock!GiveWrite, Lock!Goto, Lock!Signal, LockInv
  <2>2. /\ Within(CountedAt) = {} /\ Within(CountedAt)' = {} /\ Within(InMutex)' = Within(InMutex)
        /\ Writers' = Writers /\ Within(InMutex) = {t} /\ t \in Within(HolderAt)
        /\ where' \in [Threads -> LockPlaces]
    BY <2>1 DEF LockInv, Within, Writers
  <2>3. \A u \in Threads : where'[u] \notin {"takeWrite", "giveWrite"}
    BY <2>1, <2>2 DEF LockInv, Within
  <2>4. Within(HolderAt)' = {} /\ Writers = {} /\ second = 0
    BY <2>2, <2>3 DEF LockInv, Within, ReadersHold
  <2>. QED
    BY <2>1, <2>2, <2>3, <2>4 DEF LockInv, ReadersHold
<1>4. CASE Lock!LetOut(t)
  <2>1. /\ where[t] = "letOut" /\ where' = [where EXCEPT ![t] = "out"]
        /\ gate' = gate + 1 /\ UNCHANGED <<second, count>>
    BY <1>4 DEF Lock!LetOut, Lock!Goto, Lock!Signal
  <2>2. /\ Within(CountedAt)' = Within(CountedAt) /\ Within(HolderAt)' = Within(HolderAt)
        /\ Writers' = Writers /\ Within(InMutex) = {t} /\ Within(InMutex)' = {}
        /\ where' \in [Threads -> LockPlaces]
    BY <2>1 DEF LockInv, Within, Writers
  <2>3. \A u \in Threads : where'[u] \notin {"takeWrite", "giveWrite"}
    BY <2>1, <2>2 DEF LockInv, Within
  <2>. QED
    BY <2>1, <2>2, <2>3 DEF LockInv, ReadersHold
<1>. QED
  BY <1>1, <1>2, <1>3, <1>4

LEMMA LockWriter ==
  ASSUME LockInv, NEW t \in Threads, Lock!EnterWrite(t) \/ Lock!WriteUnlock(t)
  PROVE  LockInv'
<1>. USE DEF InMutex, CountedAt, HolderAt, LockPlaces
<1>1. \E old, new \in {"writeWait", "writing", "out"} :
         where[t] = old /\ where' = [where EXCEPT ![t] = new]
  BY DEF Lock!EnterWrite, Lock!WriteUnlock, Lock!Goto
<1>2. UNCHANGED <<gate, count>>
  BY DEF Lock!EnterWrite, Lock!WriteUnlock
<1>3. /\ Within(CountedAt)' = Within(CountedAt) /\ Within(HolderAt)' = Within(HolderAt)
      /\ Within(InMutex)' = Within(InMutex)
      /\ where' \in [Threads -> LockPlaces]
      /\ \A u \in Threads : where'[u] \in {"takeWrite", "giveWrite"} => where[u] = where'[u]
  BY <1>1 DEF LockInv, Within
<1>4. CASE Lock!EnterWrite(t)
  <2>1. second = 1 /\ second' = 0 /\ Writers = {} /\ ~ReadersHold /\ Writers' = {t}
    BY <1>4 DEF Lock!EnterWrite, Lock!Goto, Lock!Acquire, LockInv, Within, Writers
  <2>. QED
    BY <1>2, <1>3, <2>1 DEF LockInv, ReadersHold
<1>5. CASE Lock!WriteUnlock(t)
  <2>1. second = 0 /\ second' = 1 /\ Writers = {t} /\ ~ReadersHold /\ Writers' = {}
    BY <1>5 DEF Lock!WriteUnlock, Lock!Goto, Lock!Signal, LockInv, Within, Writers
  <2>. QED
    BY <1>2, <1>3, <2>1 DEF LockInv, ReadersHold
<1>. QED
  BY <1>4, <1>5

LEMMA LockSteps ==
  ASSUME LockInv, NEW t \in Threads, Lock!Lock(t) \/ Lock!Inside(t) \/ Lock!Unlock(t)
  PROVE  LockInv'
BY LockWalks, LockReaderComes, LockReaderGoes, LockWriter
   DEF Lock!Lock, Lock!Inside, Lock!Unlock

LEMMA LockKeeps ==
  ASSUME LockInv
  PROVE  Lock!TokensAccounted /\ Lock!ReadersPassWriters
<1>. USE DEF InMutex, CountedAt, HolderAt
<1>1. /\ \A ps : {t \in Threads : where[t] \in ps} = Within(ps)
      /\ \A p : Lock!At(p) = {t \in Threads : where[t] = p}
  BY DEF Within, Lock!At
<1>2. Lock!InMutex = InMutex /\ Lock!Counted = CountedAt
  BY DEF Lock!InMutex, Lock!Counted
<1>3. /\ Lock!Cardinality(Within(CountedAt)) = Cardinality(Within(CountedAt))
      /\ Lock!Cardinality(Within(InMutex)) = Cardinality(Within(InMutex))
  BY SameCount
<1>4. gate + Cardinality(Within(InMutex)) = 1
  <2>1. Cardinality(Within(InMutex)) = IF Within(InMutex) = {} THEN 0 ELSE 1
    BY WithinPart, AtMostOne DEF LockInv
  <2>. QED
    BY <2>1 DEF LockInv
<1>5. Lock!At("letIn") \cup Lock!At("letOut") # {} => gate = 0
  BY <1>1 DEF LockInv, Within
<1>6. Lock!At("giveWrite") \cup Lock!At("writing") # {} => second = 0
  BY <1>1 DEF LockInv, Within, Writers, ReadersHold
<1>7. count = Cardinality(Within(CountedAt))
  BY DEF LockInv
<1>8. Lock!TokensAccounted
  <2>1. /\ {t \in Threads : where[t] \in Lock!Counted} = Within(CountedAt)
        /\ {t \in Threads : where[t] \in Lock!InMutex} = Within(InMutex)
    BY <1>2 DEF Within
  <2>. QED
    BY <1>3, <1>4, <1>5, <1>6, <1>7, <2>1 DEF Lock!TokensAccounted
<1>9. Lock!ReadersPassWriters
  BY <1>1 DEF LockInv, Within, Lock!ReadersPassWriters
<1>. QED
  BY <1>8, <1>9
-----------------------------------------------------------------------------
(* What a behaviour is about never changes, and what it is about keeps its *)
(* invariant; in the loop and in the pool nobody is near the lock.         *)
SyncInv ==
  /\ kind = "latch" => LatchInv
  /\ kind = "barrier" => BarrierInv
  /\ kind \notin {"latch", "barrier"} => LockInv

LEMMA SyncStays ==
  ASSUME SyncInv, UNCHANGED <<kind, syncVars>>
  PROVE  SyncInv'
<1>1. UNCHANGED <<kind, size, count, gate, second, where>>
  BY DEF syncVars
<1>2. LatchInv => LatchInv'
  BY <1>1 DEF LatchInv, Handing, Opened, Latch!Counted, Latch!At, Latch!Calls, Threads
<1>3. BarrierInv => BarrierInv'
  BY <1>1 DEF BarrierInv, Here, Come
<1>4. LockInv => LockInv'
  BY <1>1 DEF LockInv, Within, Writers, ReadersHold, InMutex, CountedAt, HolderAt, LockPlaces
<1>. QED
  BY <1>1, <1>2, <1>3, <1>4 DEF SyncInv

LEMMA SyncBegins == SyncInit => SyncInv
<1>. SUFFICES ASSUME SyncInit PROVE SyncInv
  OBVIOUS
<1>1. \/ kind = "latch" /\ Latch!Init
      \/ kind = "barrier" /\ Meeting!Init
      \/ kind \notin {"latch", "barrier"} /\ Lock!Init
  BY DEF SyncInit
<1>. QED
  BY <1>1, LatchInit, BarrierInit, LockInit DEF SyncInv

LEMMA SyncGoesOn == SyncInv /\ [SyncNext]_allVars => SyncInv'
<1>. SUFFICES ASSUME SyncInv, [SyncNext]_allVars PROVE SyncInv'
  OBVIOUS
<1>1. CASE Loop \/ Task
  BY <1>1, SyncStays DEF Loop, Task
<1>2. ASSUME NEW t \in Threads, Step(t) PROVE SyncInv'
  <2>1. kind' = kind
    BY <1>2 DEF Step
  <2>2. CASE kind = "latch" /\ Latch!Step(t)
    BY <2>1, <2>2, LatchSteps DEF SyncInv
  <2>3. CASE kind = "barrier" /\ Meeting!Step(t)
    BY <2>1, <2>3, BarrierSteps DEF SyncInv
  <2>4. CASE kind = "rwlock" /\ (Lock!Inside(t) \/ Lock!Unlock(t))
    BY <2>1, <2>4, LockSteps DEF SyncInv
  <2>. QED
    BY <1>2, <2>2, <2>3, <2>4 DEF Step
<1>3. ASSUME NEW t \in Threads, Ask(t) PROVE SyncInv'
  BY <1>3, LockSteps DEF Ask, SyncInv
<1>4. CASE UNCHANGED allVars
  BY <1>4, SyncStays DEF allVars
<1>. QED
  BY <1>1, <1>2, <1>3, <1>4 DEF SyncNext

LEMMA SyncInvariant == SyncSpec => []SyncInv
BY SyncBegins, SyncGoesOn, PTL DEF SyncSpec

(* Nobody comes through a latch before as many countDown() calls as it was *)
(* made for, nor leaves a barrier before its last arrival, whatever the    *)
(* order in which any number of threads come.                              *)
THEOREM NobodyEarly == SyncSpec => []NobodyThroughEarly
<1>1. SyncInv => NobodyThroughEarly
  BY LatchKeeps, BarrierKeeps DEF SyncInv, NobodyThroughEarly
<1>. QED
  BY <1>1, SyncInvariant, PTL

(* No token of a latch, a barrier or the lock is lost or made twice: each  *)
(* is in its channel or with one thread, so that no send of one ever       *)
(* blocks; and while somebody reads, no reader waits for the write lock.   *)
THEOREM TokensKept == SyncSpec => []TokensAccounted
<1>1. SyncInv => TokensAccounted
  BY LatchKeeps, BarrierKeeps, LockKeeps DEF SyncInv, TokensAccounted
<1>. QED
  BY <1>1, SyncInvariant, PTL
-----------------------------------------------------------------------------
(* The refinement: the threads at "reading" and those at "writing" are the *)
(* readers and the writers of the abstract lock.                           *)
Reading == Lock!At("reading")
Writing == Lock!At("writing")

LEMMA Nobody ==
  ASSUME kind \in {"latch", "barrier"}, SyncInv
  PROVE  Reading = {} /\ Writing = {}
<1>1. \A t \in Threads : where[t] # "reading" /\ where[t] # "writing"
  BY DEF SyncInv, LatchInv, BarrierInv
<1>. QED
  BY <1>1 DEF Reading, Writing, Lock!At

LEMMA LockRefines ==
  ASSUME LockInv, NEW t \in Threads, Lock!Lock(t) \/ Lock!Inside(t) \/ Lock!Unlock(t)
  PROVE  Lock!Shared!Next \/ UNCHANGED <<Reading, Writing>>
<1>. USE DEF Reading, Writing, Lock!At
<1>1. CASE Lock!LetIn(t)
  <2>1. where[t] = "letIn" /\ where' = [where EXCEPT ![t] = "reading"]
    BY <1>1 DEF Lock!LetIn, Lock!Goto
  <2>2. Writing = {}
    BY <2>1 DEF LockInv, Writers, Within, ReadersHold, HolderAt
  <2>3. Reading' = Reading \cup {t} /\ Writing' = Writing /\ t \notin Reading
    BY <2>1 DEF LockInv
  <2>4. Lock!Shared!Read(t)
    BY <2>2, <2>3 DEF Lock!Shared!Read
  <2>. QED
    BY <2>4 DEF Lock!Shared!Next
<1>2. CASE Lock!ReadUnlock(t)
  <2>1. where[t] = "reading" /\ where' = [where EXCEPT ![t] = "leaving"]
    BY <1>2 DEF Lock!ReadUnlock, Lock!Goto
  <2>2. Reading' = Reading \ {t} /\ Writing' = Writing \ {t} /\ t \in Reading
    BY <2>1 DEF LockInv
  <2>3. Lock!Shared!Leave(t)
    BY <2>2 DEF Lock!Shared!Leave
  <2>. QED
    BY <2>3 DEF Lock!Shared!Next
<1>3. CASE Lock!EnterWrite(t)
  <2>1. where[t] = "writeWait" /\ where' = [where EXCEPT ![t] = "writing"] /\ second = 1
    BY <1>3 DEF Lock!EnterWrite, Lock!Goto, Lock!Acquire, LockInv
  <2>2. Writing = {} /\ Reading = {}
    BY <2>1 DEF LockInv, Writers, Within, ReadersHold, HolderAt
  <2>3. Reading' = Reading /\ Writing' = {t}
    BY <2>1, <2>2 DEF LockInv
  <2>4. Lock!Shared!Write(t)
    BY <2>2, <2>3 DEF Lock!Shared!Write
  <2>. QED
    BY <2>4 DEF Lock!Shared!Next
<1>4. CASE Lock!WriteUnlock(t)
  <2>1. where[t] = "writing" /\ where' = [where EXCEPT ![t] = "out"]
    BY <1>4 DEF Lock!WriteUnlock, Lock!Goto
  <2>2. Reading' = Reading \ {t} /\ Writing' = Writing \ {t} /\ t \in Writing
    BY <2>1 DEF LockInv
  <2>3. Lock!Shared!Leave(t)
    BY <2>2 DEF Lock!Shared!Leave
  <2>. QED
    BY <2>3 DEF Lock!Shared!Next
<1>5. CASE \/ Lock!Lock(t) \/ Lock!EnterMutex(t) \/ Lock!CountIn(t) \/ Lock!TakeWrite(t)
           \/ Lock!LeaveMutex(t) \/ Lock!CountOut(t) \/ Lock!GiveWrite(t) \/ Lock!LetOut(t)
  <2>1. \E new \in LockPlaces \ {"reading", "writing"} :
          where[t] \notin {"reading", "writing"} /\ where' = [where EXCEPT ![t] = new]
    BY <1>5 DEF Lock!Lock, Lock!ReadLock, Lock!WriteLock, Lock!EnterMutex, Lock!CountIn,
                Lock!TakeWrite, Lock!LeaveMutex, Lock!CountOut, Lock!GiveWrite, Lock!LetOut,
                Lock!Goto, LockPlaces, InMutex, CountedAt
  <2>. QED
    BY <2>1 DEF LockInv
<1>. QED
  BY <1>1, <1>2, <1>3, <1>4, <1>5 DEF Lock!Inside, Lock!Unlock

(* Readers exclude writers and writers each other: every step of the lock  *)
(* that Concurrency.pol builds of two semaphores and an atomic count is a  *)
(* step of the abstract lock or a stutter.                                 *)
THEOREM LockIsShared == SyncSpec => ImplementsSharedLock
<1>1. SyncInit => Lock!Shared!Init
  <2>. SUFFICES ASSUME SyncInit PROVE Lock!Shared!Init
    OBVIOUS
  <2>1. CASE kind \in {"latch", "barrier"}
    BY <2>1, SyncBegins, Nobody DEF Lock!Shared!Init, Reading, Writing
  <2>2. CASE kind \notin {"latch", "barrier"}
    <3>1. Lock!Init
      BY <2>2 DEF SyncInit
    <3>. QED
      BY <3>1 DEF Lock!Init, Lock!At, Lock!Shared!Init
  <2>. QED
    BY <2>1, <2>2
<1>2. SyncInv /\ SyncInv' /\ [SyncNext]_allVars => [Lock!Shared!Next]_<<Reading, Writing>>
  <2>. SUFFICES ASSUME SyncInv, SyncInv', [SyncNext]_allVars
                PROVE  Lock!Shared!Next \/ UNCHANGED <<Reading, Writing>>
    OBVIOUS
  <2>1. CASE kind \in {"latch", "barrier"}
    <3>1. kind' = kind
      BY DEF SyncNext, Loop, Task, Step, Ask, allVars
    <3>2. Reading = {} /\ Writing = {}
      BY <2>1, Nobody
    <3>3. \A t \in Threads : where'[t] # "reading" /\ where'[t] # "writing"
      BY <2>1, <3>1 DEF SyncInv, LatchInv, BarrierInv
    <3>. QED
      BY <3>2, <3>3 DEF Reading, Writing, Lock!At
  <2>2. CASE kind \notin {"latch", "barrier"}
    <3>1. LockInv
      BY <2>2 DEF SyncInv
    <3>2. ASSUME NEW t \in Threads, Step(t) \/ Ask(t)
          PROVE  Lock!Shared!Next \/ UNCHANGED <<Reading, Writing>>
      BY <2>2, <3>1, <3>2, LockRefines DEF Step, Ask
    <3>3. CASE Loop \/ Task \/ UNCHANGED allVars
      BY <3>3 DEF Loop, Task, allVars, syncVars, Reading, Writing, Lock!At
    <3>. QED
      BY <3>2, <3>3 DEF SyncNext
  <2>. QED
    BY <2>1, <2>2
<1>. QED
  BY <1>1, <1>2, SyncInvariant, PTL
  DEF SyncSpec, ImplementsSharedLock, Lock!ImplementsSharedLock, Lock!Shared!Spec,
      Lock!Shared!vars, Reading, Writing
-----------------------------------------------------------------------------
(* The loop.  The split of Parallel is right for every size of int, every *)
(* range and every number of hands that the arithmetic has room for.       *)


\* What integer division gives: the quotient whose multiple is just below.
LEMMA Quotient ==
  ASSUME NEW a \in Nat, NEW b \in Nat \ {0}
  PROVE  /\ a \div b \in Nat
         /\ b * (a \div b) <= a
         /\ a < b * (a \div b) + b
  BY SMT

\* Larger by a unit, larger by the factor.
LEMMA TimesMonotone ==
  ASSUME NEW v \in Nat, NEW w \in Nat, v < w, NEW k \in Nat
  PROVE  v * k + k <= w * k
<1>1. w = v + (w - v) /\ w - v \in Nat \ {0}
  OBVIOUS
<1>2. \A d \in Nat \ {0} : (v + d) * k >= v * k + k
  <2>1. TAKE d \in Nat \ {0}
  <2>2. (v + d) * k = v * k + d * k
    BY SMT
  <2>3. d * k >= k
    BY SMT
  <2> QED
    BY <2>2, <2>3, SMT
<1> QED
  BY <1>1, <1>2

\* An int is kept as it is.
LEMMA WrapKeeps ==
  ASSUME NEW x \in Ints
  PROVE  Wrap(x) = x
  BY ParallelAssumption, SMT DEF Wrap, Ints
-----------------------------------------------------------------------------
\* The arguments are a range that was considered.
Arguments == \E range \in Ranges : from = range[1] /\ to = range[2]

\* Once the number of hands is known, there is room for it.
Room == workers # 0 => /\ workers \in 1..(to - from)
                       /\ to - from + workers <= Half
                       /\ to + workers <= Half

\* Where the caller is tells how far the hands are.
Progress ==
  /\ pc = "entry" => workers = 0
  /\ pc = "start" => started < workers /\ joined = 0
  /\ pc = "join" => started = workers /\ joined < workers
  /\ pc = "returned" => /\ started = workers /\ joined = workers
                        /\ workers = 0 => to <= from

\* A hand is within its slice, or its slice is empty and it is at the start of it.
Place(w) == /\ Lo(w) <= next[w]
            /\ next[w] <= Hi(w) \/ next[w] = Lo(w)
Places == \A w \in 0..(started - 1) : Place(w)

\* The calls made are those for the indices that the hands have passed.
CallsMade == \A i \in Ints : \A w \in 0..(workers - 1) :
               <<i, w>> \in calls <=> w < started /\ Lo(w) <= i /\ i < next[w]

\* Whoever has been joined was at the end of its slice.
JoinedAreOver == \A w \in 0..(joined - 1) : next[w] >= Hi(w)

Types == /\ from \in Ints /\ to \in Ints
         /\ workers \in Ints /\ started \in 0..workers /\ joined \in 0..started
         /\ next \in [0..(started - 1) -> Ints]
         /\ calls \subseteq Ints \X (0..(workers - 1))
         /\ pc \in {"entry", "start", "join", "returned"}

IInv == /\ Arguments /\ Types /\ Room /\ Progress
        /\ Places /\ CallsMade /\ JoinedAreOver
-----------------------------------------------------------------------------
\* With room, nothing wraps: the slices are what they are meant to be.
LEMMA Slices ==
  ASSUME Types, Room, workers # 0
  PROVE  /\ Chunk \in Nat \ {0}
         /\ to - from <= workers * Chunk
         /\ \A w \in 0..(workers - 1) :
              /\ w * Chunk \in Nat
              /\ Lo(w) = from + w * Chunk
              /\ Hi(w) = IF Lo(w) + Chunk > to THEN to ELSE Lo(w) + Chunk
              /\ Lo(w) \in Ints /\ Hi(w) \in Ints
<1> DEFINE range == to - from
           sum == range + workers - 1
<1>1. /\ Half \in Nat /\ from \in Int /\ to \in Int /\ workers \in Nat \ {0}
      /\ range \in Nat \ {0} /\ workers <= range
      /\ range + workers <= Half /\ to + workers <= Half
      /\ -Half <= from /\ to < Half
  BY ParallelAssumption DEF Types, Room, Ints
<1>2. Count = range /\ Wrap(Count + workers - 1) = sum /\ sum \in Nat
  <2>1. range \in Ints /\ sum \in Ints
    BY <1>1 DEF Ints
  <2> QED
    BY <2>1, <1>1, WrapKeeps DEF Count
<1>3. Chunk = sum \div workers
  BY <1>2, <1>1 DEF Chunk
<1>4. /\ Chunk \in Nat
      /\ workers * Chunk <= sum
      /\ sum < workers * Chunk + workers
  BY <1>3, <1>2, <1>1, Quotient
<1> HIDE DEF range, sum
<1>5. workers * Chunk \in Nat
  BY <1>4, <1>1, SMT
<1>6. to - from <= workers * Chunk
  BY <1>5, <1>4, <1>1 DEF range, sum
<1>7. Chunk # 0
  <2>1. SUFFICES ASSUME Chunk = 0 PROVE FALSE
    OBVIOUS
  <2>2. workers * Chunk = 0
    BY <2>1, <1>1, SMT
  <2> QED
    BY <2>2, <1>6, <1>1 DEF range
<1>8. ASSUME NEW w \in 0..(workers - 1)
      PROVE  /\ w * Chunk \in Nat
             /\ Lo(w) = from + w * Chunk
             /\ Hi(w) = IF Lo(w) + Chunk > to THEN to ELSE Lo(w) + Chunk
             /\ Lo(w) \in Ints /\ Hi(w) \in Ints
  <2>1. w \in Nat /\ w < workers
    BY <1>1
  <2>2. w * Chunk \in Nat
    BY <2>1, <1>4, SMT
  <2>3. w * Chunk + Chunk <= workers * Chunk
    BY <2>1, <1>1, <1>4, TimesMonotone
  <2>4. w * Chunk + Chunk < Half /\ from + w * Chunk + Chunk < Half
    BY <2>2, <2>3, <1>1, <1>4, <1>5 DEF range, sum
  <2>5. Wrap(w * Chunk) = w * Chunk
    <3>1. w * Chunk \in Ints
      BY <2>2, <2>4, <1>1, <1>4 DEF Ints
    <3> QED
      BY <3>1, WrapKeeps
  <2>6. from + w * Chunk \in Ints
    BY <2>2, <2>4, <1>1, <1>4 DEF Ints
  <2>7. Lo(w) = from + w * Chunk
    BY <2>5, <2>6, WrapKeeps DEF Lo
  <2>8. Lo(w) + Chunk \in Ints
    BY <2>7, <2>2, <2>4, <1>1, <1>4 DEF Ints
  <2>9. Hi(w) = IF Lo(w) + Chunk > to THEN to ELSE Lo(w) + Chunk
    BY <2>8, WrapKeeps DEF Hi
  <2> QED
    BY <2>2, <2>7, <2>6, <2>8, <2>9 DEF Types
<1> QED
  BY <1>4, <1>6, <1>7, <1>8

\* The slices do not move while the loop runs.
LEMMA SlicesStay ==
  ASSUME UNCHANGED <<from, to, workers>>
  PROVE  \A w : Lo(w)' = Lo(w) /\ Hi(w)' = Hi(w)
  BY DEF Lo, Hi, Chunk, Count, Wrap
-----------------------------------------------------------------------------
LEMMA InitHolds == Init => IInv
<1> SUFFICES ASSUME Init PROVE IInv
  OBVIOUS
<1>1. Arguments /\ workers = 0 /\ started = 0 /\ joined = 0 /\ calls = {} /\ pc = "entry"
      /\ next = [w \in {} |-> 0]
  BY DEF Init, Arguments
<1>2. from \in Ints /\ to \in Ints
  BY <1>1, ParallelAssumption DEF Arguments
<1>3. 0 \in Ints /\ 0..(started - 1) = {} /\ 0..(workers - 1) = {} /\ 0..(joined - 1) = {}
  BY <1>1, ParallelAssumption DEF Ints
<1>4. Types
  BY <1>1, <1>2, <1>3 DEF Types
<1> QED
  BY <1>1, <1>3, <1>4 DEF IInv, Room, Progress, Places, CallsMade, JoinedAreOver

\* The length of the range is an int.
LEMMA CountIsSize ==
  ASSUME RangesFit, Arguments, Types
  PROVE  Count = to - from /\ to - from < Half
<1>1. PICK range \in Ranges : from = range[1] /\ to = range[2]
  BY DEF Arguments
<1>2. PICK width \in Widths : TRUE
  BY ParallelAssumption
<1>3. Half \in Nat /\ from \in Int /\ to \in Int /\ width \in Int
  BY ParallelAssumption DEF Types, Ints
<1>4. to - from < Half /\ from - to <= Half
  BY <1>1, <1>3 DEF RangesFit
<1>5. to - from \in Ints
  BY <1>3, <1>4 DEF Ints
<1> QED
  BY <1>4, <1>5, WrapKeeps DEF Count

\* The hands are no more than the machine offers, and no more than the items.
LEMMA HandsFit ==
  ASSUME RangesFit, Arguments, Types, Count > 0, NEW width \in Widths
  PROVE  LET hands == Hands(width, Count)
         IN /\ hands \in 1..(to - from)
            /\ to - from + hands <= Half
            /\ to + hands <= Half
<1>1. PICK range \in Ranges : from = range[1] /\ to = range[2]
  BY DEF Arguments
<1> DEFINE least == IF width < 1 THEN 1 ELSE width
<1>2. to - from + least <= Half /\ to + least <= Half
  BY <1>1 DEF RangesFit
<1>3. Half \in Nat /\ from \in Int /\ to \in Int /\ width \in Int
  BY ParallelAssumption DEF Types, Ints
<1> QED
  BY <1>2, <1>3, CountIsSize DEF Hands

LEMMA NextHolds ==
  ASSUME RangesFit, IInv, [Next]_vars
  PROVE  IInv'
<1> USE DEF IInv
<1>1. /\ Half \in Nat \ {0, 1} /\ from \in Int /\ to \in Int
      /\ workers \in Int /\ started \in Nat /\ joined \in Nat
      /\ \A x \in Ints : x \in Int
  BY ParallelAssumption DEF Types, Ints
<1>2. CASE Nothing
  <2>1. to - from <= 0
    BY <1>2, CountIsSize DEF Nothing
  <2>2. Arguments' /\ Types' /\ Room' /\ Progress'
    BY <1>2, <2>1, <1>1 DEF Nothing, Arguments, Types, Room, Progress
  <2>3. Places' /\ CallsMade' /\ JoinedAreOver'
    BY <1>2, SlicesStay DEF Nothing, Places, Place, CallsMade, JoinedAreOver
  <2> QED
    BY <2>2, <2>3
<1>3. CASE Enter
  <2>1. PICK width \in Widths : workers' = Hands(width, Count)
    BY <1>3 DEF Enter
  <2>2. /\ workers' \in 1..(to - from)
        /\ to - from + workers' <= Half
        /\ to + workers' <= Half
    BY <2>1, <1>3, HandsFit DEF Enter
  <2>3. /\ pc = "entry" /\ pc' = "start" /\ workers = 0 /\ started = 0 /\ joined = 0
        /\ calls = {} /\ UNCHANGED <<from, to, started, next, joined, calls>>
    <3>1. pc = "entry" /\ workers = 0
      BY <1>3 DEF Enter, Progress
    <3>2. started = 0 /\ joined = 0 /\ calls = {}
      BY <3>1, <1>1 DEF Types
    <3> QED
      BY <3>1, <3>2, <1>3 DEF Enter
  <2>4. workers' \in Ints \ {0} /\ workers' \in Nat /\ to - from < Half
    BY <2>2, <1>1, CountIsSize DEF Ints
  <2>5. 0..(started - 1) = {} /\ 0..(joined - 1) = {}
    BY <2>3
  <2>6. Arguments' /\ Room' /\ Progress'
    BY <2>2, <2>3, <2>4 DEF Arguments, Room, Progress
  <2>7. Types'
    BY <2>3, <2>4 DEF Types
  <2>8. Places' /\ JoinedAreOver'
    BY <2>3, <2>5 DEF Places, JoinedAreOver
  <2>9. CallsMade'
    <3>1. \A w \in 0..(workers' - 1) : ~(w < 0)
      BY <2>4
    <3> QED
      BY <2>3, <3>1 DEF CallsMade
  <2> QED
    BY <2>6, <2>7, <2>8, <2>9
<1>4. CASE Start
  <2>1. /\ UNCHANGED <<from, to, workers, joined, calls>>
        /\ pc = "start" /\ started < workers /\ joined = 0 /\ workers # 0
        /\ started' = started + 1
    BY <1>4, <1>1 DEF Start, Progress
  <2>2. \A w : Lo(w)' = Lo(w) /\ Hi(w)' = Hi(w)
    BY <2>1, SlicesStay
  <2>3. Lo(started) \in Ints
    BY <2>1, <1>1, Slices
  <2>4. /\ next' \in [0..started -> Ints]
        /\ next'[started] = Lo(started)
        /\ \A w \in 0..(started - 1) : next'[w] = next[w]
    BY <1>4, <1>1, <2>3 DEF Start, Types
  <2>5. Arguments' /\ Types' /\ Room'
    <3>1. started' \in 0..workers' /\ joined' \in 0..started' /\ started' - 1 = started
      BY <2>1, <1>1
    <3>2. pc' \in {"start", "join"}
      BY <1>4 DEF Start
    <3>3. Types'
      BY <3>1, <3>2, <2>1, <2>4 DEF Types
    <3> QED
      BY <3>3, <2>1 DEF Arguments, Room
  <2>6. Progress'
    BY <1>4, <2>1, <1>1 DEF Progress, Start
  <2>7. Places'
    <3>1. ASSUME NEW w \in 0..started PROVE Place(w)'
      <4>1. CASE w = started
        BY <4>1, <2>2, <2>3, <2>4, <1>1 DEF Place
      <4>2. CASE w # started
        BY <4>2, <3>1, <2>2, <2>4, <1>1 DEF Place, Places
      <4> QED
        BY <4>1, <4>2
    <3> QED
      BY <3>1, <2>1, <1>1 DEF Places
  <2>8. CallsMade'
    <3>1. ASSUME NEW i \in Ints, NEW w \in 0..(workers - 1)
          PROVE  <<i, w>> \in calls <=> w < started + 1 /\ Lo(w) <= i /\ i < next'[w]
      <4>1. CASE w < started
        BY <4>1, <3>1, <1>1, <2>4 DEF CallsMade
      <4>2. CASE w = started
        BY <4>2, <3>1, <1>1, <2>4, <2>3 DEF CallsMade
      <4>3. CASE w > started
        BY <4>3, <3>1, <1>1 DEF CallsMade
      <4> QED
        BY <4>1, <4>2, <4>3, <3>1, <1>1
    <3> QED
      BY <3>1, <2>1, <2>2 DEF CallsMade
  <2>9. JoinedAreOver'
    BY <2>1, <1>1 DEF JoinedAreOver
  <2> QED
    BY <2>5, <2>6, <2>7, <2>8, <2>9
<1>5. CASE Join
  <2>1. /\ UNCHANGED <<from, to, workers, started, next, calls>>
        /\ started = workers /\ joined < workers /\ joined' = joined + 1
        /\ next[joined] >= Hi(joined)
    BY <1>5 DEF Join, Progress
  <2>2. \A w : Lo(w)' = Lo(w) /\ Hi(w)' = Hi(w)
    BY <2>1, SlicesStay
  <2>3. Arguments' /\ Types' /\ Room'
    <3>1. joined' \in 0..started' /\ pc' \in {"join", "returned"}
      BY <2>1, <1>1, <1>5 DEF Join
    <3> QED
      BY <3>1, <2>1 DEF Arguments, Types, Room
  <2>4. Progress'
    BY <2>1, <1>1, <1>5 DEF Progress, Join
  <2>5. Places' /\ CallsMade'
    BY <2>1, <2>2 DEF Places, Place, CallsMade
  <2>6. JoinedAreOver'
    <3>1. ASSUME NEW w \in 0..joined PROVE next[w] >= Hi(w)
      BY <3>1, <2>1, <1>1 DEF JoinedAreOver
    <3> QED
      BY <3>1, <2>1, <2>2, <1>1 DEF JoinedAreOver
  <2> QED
    BY <2>3, <2>4, <2>5, <2>6
<1>6. ASSUME NEW w \in 0..(workers - 1), RunBody(w)
      PROVE  IInv'
  <2>1. /\ UNCHANGED <<from, to, workers, started, joined, pc>>
        /\ w \in 0..(started - 1) /\ workers # 0
        /\ next[w] < Hi(w)
        /\ calls' = calls \cup {<<next[w], w>>}
        /\ next' = [next EXCEPT ![w] = next[w] + 1]
    BY <1>6, <1>1 DEF RunBody
  <2>2. \A v : Lo(v)' = Lo(v) /\ Hi(v)' = Hi(v)
    BY <2>1, SlicesStay
  <2>3. Lo(w) \in Ints /\ Hi(w) \in Ints /\ next[w] \in Ints
    BY <2>1, <1>1, <1>6, Slices DEF Types
  <2>4. next[w] + 1 \in Ints
    BY <2>1, <2>3, <1>1 DEF Ints
  <2>5. /\ next' \in [0..(started - 1) -> Ints]
        /\ next'[w] = next[w] + 1
        /\ \A v \in 0..(started - 1) : v # w => next'[v] = next[v]
    BY <2>1, <2>4 DEF Types
  <2>6. Arguments' /\ Types' /\ Room' /\ Progress'
    <3>1. calls' \subseteq Ints \X (0..(workers - 1))
      BY <2>1, <2>3, <1>6 DEF Types
    <3> QED
      BY <3>1, <2>1, <2>5 DEF Arguments, Types, Room, Progress
  <2>7. Places'
    <3>1. ASSUME NEW v \in 0..(started - 1) PROVE Place(v)'
      <4>1. CASE v = w
        BY <4>1, <2>1, <2>2, <2>3, <2>5, <1>1 DEF Place, Places
      <4>2. CASE v # w
        BY <4>2, <2>2, <2>5 DEF Place, Places
      <4> QED
        BY <4>1, <4>2
    <3> QED
      BY <3>1, <2>1 DEF Places
  <2>8. CallsMade'
    <3>1. ASSUME NEW i \in Ints, NEW v \in 0..(workers - 1)
          PROVE  <<i, v>> \in calls' <=> v < started /\ Lo(v) <= i /\ i < next'[v]
      <4>1. <<i, v>> \in calls' <=> <<i, v>> \in calls \/ (i = next[w] /\ v = w)
        BY <2>1
      <4>2. CASE v = w
        <5>1. Lo(w) <= next[w]
          BY <2>1 DEF Places, Place
        <5> QED
          BY <4>1, <4>2, <5>1, <2>1, <2>3, <2>5, <1>1 DEF CallsMade
      <4>3. CASE v # w
        <5>1. CASE v < started
          BY <5>1, <4>1, <4>3, <3>1, <2>5, <1>1 DEF CallsMade
        <5>2. CASE ~(v < started)
          BY <5>2, <4>1, <4>3, <3>1 DEF CallsMade
        <5> QED
          BY <5>1, <5>2
      <4> QED
        BY <4>2, <4>3
    <3> QED
      BY <3>1, <2>1, <2>2 DEF CallsMade
  <2>9. JoinedAreOver'
    <3>1. ASSUME NEW v \in 0..(joined - 1) PROVE next'[v] >= Hi(v)
      <4>1. v \in 0..(started - 1) /\ next[v] >= Hi(v)
        BY <1>1 DEF JoinedAreOver, Types
      <4>2. v # w
        BY <4>1, <2>1, <2>3, <1>1
      <4> QED
        BY <4>1, <4>2, <2>5
    <3> QED
      BY <3>1, <2>1, <2>2 DEF JoinedAreOver
  <2> QED
    BY <2>6, <2>7, <2>8, <2>9
<1>7. CASE UNCHANGED vars
  <2>1. \A w : Lo(w)' = Lo(w) /\ Hi(w)' = Hi(w)
    BY <1>7, SlicesStay DEF vars
  <2> QED
    BY <1>7, <2>1 DEF vars, Arguments, Types, Room, Progress, Places, Place, CallsMade, JoinedAreOver
<1> QED
  BY <1>2, <1>3, <1>4, <1>5, <1>6, <1>7 DEF Next
-----------------------------------------------------------------------------
THEOREM Invariance == RangesFit => (Spec => []IInv)
<1> SUFFICES ASSUME RangesFit PROVE Spec => []IInv
  OBVIOUS
<1>1. Init => IInv
  BY InitHolds
<1>2. IInv /\ [Next]_vars => IInv'
  BY NextHolds
<1> QED
  BY <1>1, <1>2, PTL DEF Spec

\* Who is called is within the slice of the hand that called it.
LEMMA CallsWithin ==
  ASSUME IInv, NEW call \in calls
  PROVE  \E i \in Ints : \E w \in 0..(workers - 1) :
           /\ call = <<i, w>> /\ workers # 0
           /\ w \in 0..(started - 1)
           /\ Lo(w) <= i /\ i < next[w] /\ i < Hi(w)
<1>1. PICK i \in Ints, w \in 0..(workers - 1) : call = <<i, w>>
  BY DEF IInv, Types
<1>2. workers \in Int /\ started \in Int /\ i \in Int /\ workers # 0
  BY <1>1, ParallelAssumption DEF IInv, Types, Ints
<1>3. w < started /\ Lo(w) <= i /\ i < next[w]
  BY <1>1 DEF IInv, CallsMade
<1>4. w \in 0..(started - 1)
  BY <1>1, <1>2, <1>3
<1>5. Place(w)
  BY <1>4 DEF IInv, Places
<1>6. next[w] \in Int /\ Hi(w) \in Int /\ Lo(w) \in Int
  <2>1. next[w] \in Ints
    BY <1>4 DEF IInv, Types
  <2>2. Hi(w) \in Ints /\ Lo(w) \in Ints
    BY <1>1, <1>2, Slices DEF IInv
  <2> QED
    BY <2>1, <2>2, ParallelAssumption DEF Ints
<1>7. i < Hi(w)
  BY <1>2, <1>3, <1>5, <1>6 DEF Place
<1> QED
  BY <1>1, <1>2, <1>3, <1>4, <1>7

(* The types of the variables, for any size of int and any ranges with     *)
(* room.                                                                   *)
THEOREM TypeCorrect == RangesFit => (Spec => []TypeOK)
<1>1. IInv => TypeOK
  <2> SUFFICES ASSUME IInv PROVE TypeOK
    OBVIOUS
  <2>1. PICK range \in Ranges : from = range[1] /\ to = range[2]
    BY DEF IInv, Arguments
  <2>2. range = <<from, to>>
    BY <2>1, ParallelAssumption
  <2> QED
    BY <2>1, <2>2 DEF IInv, Types, TypeOK
<1> QED
  BY <1>1, Invariance, PTL

(* No hand calls the body for an index outside [from, to).                 *)
THEOREM CallsAreItems == RangesFit => (Spec => []OnlyItems)
<1>1. IInv => OnlyItems
  <2> SUFFICES ASSUME IInv, NEW call \in calls
               PROVE  from <= call[1] /\ call[1] < to
    BY DEF OnlyItems
  <2>1. PICK i \in Ints, w \in 0..(workers - 1) :
          /\ call = <<i, w>> /\ workers # 0 /\ Lo(w) <= i /\ i < Hi(w)
    BY CallsWithin
  <2>2. /\ Chunk \in Nat /\ w * Chunk \in Nat
        /\ Lo(w) = from + w * Chunk
        /\ Hi(w) = IF Lo(w) + Chunk > to THEN to ELSE Lo(w) + Chunk
    BY <2>1, Slices DEF IInv
  <2>3. from \in Int /\ to \in Int /\ i \in Int
    BY <2>1, ParallelAssumption DEF IInv, Types, Ints
  <2>4. from <= i /\ i < to
    BY <2>1, <2>2, <2>3
  <2> QED
    BY <2>1, <2>4
<1> QED
  BY <1>1, Invariance, PTL

(* No two hands call the body for the same index.                          *)
THEOREM HandsAreDisjoint == RangesFit => (Spec => []DisjointHands)
<1>1. IInv => DisjointHands
  <2> SUFFICES ASSUME IInv, NEW a \in calls, NEW b \in calls, a[1] = b[1]
               PROVE  a = b
    BY DEF DisjointHands
  <2>1. PICK i \in Ints, v \in 0..(workers - 1) :
          /\ a = <<i, v>> /\ workers # 0 /\ Lo(v) <= i /\ i < Hi(v)
    BY CallsWithin
  <2>2. PICK j \in Ints, w \in 0..(workers - 1) :
          /\ b = <<j, w>> /\ Lo(w) <= j /\ j < Hi(w)
    BY CallsWithin
  <2>3. i = j
    BY <2>1, <2>2
  <2>4. workers \in Int /\ from \in Int /\ to \in Int /\ i \in Int
    BY <2>1, ParallelAssumption DEF IInv, Types, Ints
  <2>5. ASSUME NEW x \in 0..(workers - 1), NEW y \in 0..(workers - 1), x < y,
               i < Hi(x), Lo(y) <= i
        PROVE  FALSE
    <3>1. /\ Chunk \in Nat
          /\ x * Chunk \in Nat /\ Lo(x) = from + x * Chunk
          /\ y * Chunk \in Nat /\ Lo(y) = from + y * Chunk
          /\ Hi(x) = IF Lo(x) + Chunk > to THEN to ELSE Lo(x) + Chunk
      BY <2>1, Slices DEF IInv
    <3>2. x * Chunk + Chunk <= y * Chunk
      BY <3>1, <2>4, <2>5, TimesMonotone
    <3> QED
      BY <3>1, <3>2, <2>4, <2>5
  <2>6. ~(v < w) /\ ~(w < v)
    BY <2>1, <2>2, <2>3, <2>5
  <2> QED
    BY <2>1, <2>2, <2>3, <2>4, <2>6
<1> QED
  BY <1>1, Invariance, PTL

(* So the hands share the range among them.                                *)
THEOREM ItemsAreShared == RangesFit => (Spec => []HandsShareItems)
<1>1. OnlyItems /\ DisjointHands => HandsShareItems
  BY DEF HandsShareItems
<1> QED
  BY <1>1, CallsAreItems, HandsAreDisjoint, PTL

(* When forRange returns, the body has run for every index of [from, to).  *)
THEOREM EveryItemIsCalled == RangesFit => (Spec => []AllItems)
<1>1. IInv => AllItems
  <2> SUFFICES ASSUME IInv, pc = "returned", NEW i \in Ints, from <= i, i < to
               PROVE  \E w \in 0..(workers - 1) : <<i, w>> \in calls
    BY DEF AllItems
  <2>1. workers \in Int /\ from \in Int /\ to \in Int /\ i \in Int
    BY ParallelAssumption DEF IInv, Types, Ints
  <2>2. workers # 0 /\ started = workers /\ joined = workers
    BY <2>1 DEF IInv, Progress
  <2>3. /\ Chunk \in Nat \ {0}
        /\ to - from <= workers * Chunk
    BY <2>2, Slices DEF IInv
  <2> DEFINE w == (i - from) \div Chunk
  <2>4. /\ i - from \in Nat
        /\ w \in Nat
        /\ Chunk * w <= i - from
        /\ i - from < Chunk * w + Chunk
    BY <2>1, <2>3, Quotient
  <2> HIDE DEF w
  <2>5. Chunk * w = w * Chunk /\ workers * Chunk \in Int
    BY <2>1, <2>3, <2>4, SMT
  <2>6. w < workers
    <3>1. SUFFICES ASSUME workers <= w PROVE FALSE
      BY <2>1, <2>4
    <3>2. workers \in Nat
      BY <2>1, <2>2 DEF IInv, Types
    <3>3. workers * Chunk <= w * Chunk
      <4>1. CASE workers = w
        BY <4>1, <2>5, <2>3, <2>4
      <4>2. CASE workers < w
        <5>1. workers * Chunk + Chunk <= w * Chunk
          BY <4>2, <3>2, <2>3, <2>4, TimesMonotone
        <5>2. w * Chunk \in Int
          BY <2>3, <2>4, SMT
        <5> QED
          BY <5>1, <5>2, <2>3, <2>5
      <4> QED
        BY <4>1, <4>2, <3>1, <2>1, <2>4
    <3>4. w * Chunk \in Int
      BY <2>3, <2>4, SMT
    <3> QED
      BY <3>3, <3>4, <2>1, <2>3, <2>4, <2>5
  <2>7. w \in 0..(workers - 1)
    BY <2>1, <2>4, <2>6
  <2>8. /\ w * Chunk \in Nat
        /\ Lo(w) = from + w * Chunk
        /\ Hi(w) = IF Lo(w) + Chunk > to THEN to ELSE Lo(w) + Chunk
        /\ Hi(w) \in Ints
    BY <2>2, <2>7, Slices DEF IInv
  <2>9. Lo(w) <= i /\ i < Hi(w)
    BY <2>1, <2>3, <2>4, <2>5, <2>8
  <2>10. next[w] >= Hi(w) /\ next[w] \in Ints
    BY <2>2, <2>7 DEF IInv, JoinedAreOver, Types
  <2>11. i < next[w]
    BY <2>1, <2>8, <2>9, <2>10, ParallelAssumption DEF Ints
  <2>12. <<i, w>> \in calls
    BY <2>2, <2>6, <2>7, <2>9, <2>11 DEF IInv, CallsMade
  <2> QED
    BY <2>7, <2>12
<1> QED
  BY <1>1, Invariance, PTL
-----------------------------------------------------------------------------
(* The pool: what is proved of it, at this instance.                       *)

Pool == INSTANCE TaskPoolProofs WITH pc <- place

\* They are the same tasks.
LEMMA SameTasks ==
  /\ Pool!TaskPoolAssumption
  /\ Tasks!Init => Pool!Init
  /\ Tasks!Next = Pool!Next
  /\ Tasks!RingIsAmple => Pool!RingIsAmple
  /\ Pool!TypeOK => Tasks!TypeOK
<1>1. Pool!TaskPoolAssumption
  <2>1. \A S : Tasks!IsFiniteSet(S) => Pool!IsFiniteSet(S)
    BY DEF Tasks!IsFiniteSet, Pool!IsFiniteSet
  <2> QED
    BY <2>1, TasksFit DEF Tasks!TaskPoolAssumption, Pool!TaskPoolAssumption
<1>2. Tasks!Threads = Pool!Threads /\ Tasks!Slots = Pool!Slots /\ Tasks!Queued = Pool!Queued
  BY DEF Tasks!Threads, Pool!Threads, Tasks!Slots, Pool!Slots, Tasks!Queued, Pool!Queued
<1>3. /\ \A i : Tasks!Wrap(i) = Pool!Wrap(i)
      /\ \A p : Tasks!At(p) = Pool!At(p)
      /\ \A t : Tasks!Home(t) = Pool!Home(t)
      /\ \A t, p : Tasks!Goto(t, p) = Pool!Goto(t, p)
  BY <1>2 DEF Tasks!Wrap, Pool!Wrap, Tasks!At, Pool!At, Tasks!Home, Pool!Home, Tasks!Goto, Pool!Goto
<1>4. /\ (UNCHANGED Tasks!tasks) = (UNCHANGED Pool!tasks)
      /\ (UNCHANGED Tasks!coros) = (UNCHANGED Pool!coros)
      /\ (UNCHANGED Tasks!queue) = (UNCHANGED Pool!queue)
  BY DEF Tasks!tasks, Pool!tasks, Tasks!coros, Pool!coros, Tasks!queue, Pool!queue
<1>5. Tasks!Next = Pool!Next
  <2>1. \A t : Tasks!Fetch(t) = Pool!Fetch(t)
    BY <1>2, <1>3, <1>4 DEF Tasks!Fetch, Pool!Fetch
  <2>2. \A t : Tasks!FetchSleeps(t) = Pool!FetchSleeps(t)
    BY <1>2, <1>3, <1>4 DEF Tasks!FetchSleeps, Pool!FetchSleeps
  <2>3. \A t : Tasks!Push(t) = Pool!Push(t)
    BY <1>2, <1>3, <1>4 DEF Tasks!Push, Pool!Push
  <2>4. \A t : Tasks!Signal(t) = Pool!Signal(t)
    BY <1>2, <1>3, <1>4 DEF Tasks!Signal, Pool!Signal
  <2>5. \A t : Tasks!AwaitChecks(t) = Pool!AwaitChecks(t)
    BY <1>2, <1>3, <1>4 DEF Tasks!AwaitChecks, Pool!AwaitChecks
  <2>6. \A t : Tasks!AwaitLinks(t) = Pool!AwaitLinks(t)
    BY <1>2, <1>3, <1>4 DEF Tasks!AwaitLinks, Pool!AwaitLinks
  <2>7. \A t : Tasks!AwaitResumes(t) = Pool!AwaitResumes(t)
    BY <1>2, <1>3, <1>4 DEF Tasks!AwaitResumes, Pool!AwaitResumes
  <2>8. \A t : Tasks!Finish(t) = Pool!Finish(t)
    BY <1>2, <1>3, <1>4 DEF Tasks!Finish, Pool!Finish
  <2>9. \A t : Tasks!Detach(t) = Pool!Detach(t)
    BY <1>2, <1>3, <1>4 DEF Tasks!Detach, Pool!Detach
  <2>10. \A t : Tasks!Broadcast(t) = Pool!Broadcast(t)
    BY <1>2, <1>3, <1>4 DEF Tasks!Broadcast, Pool!Broadcast
  <2>11. \A t : Tasks!WaitChecks(t) = Pool!WaitChecks(t)
    BY <1>2, <1>3, <1>4 DEF Tasks!WaitChecks, Pool!WaitChecks
  <2>12. \A t : Tasks!WaitReturns(t) = Pool!WaitReturns(t)
    BY <1>2, <1>3, <1>4 DEF Tasks!WaitReturns, Pool!WaitReturns
  <2>13. \A t : Tasks!SpuriousWake(t) = Pool!SpuriousWake(t)
    BY <1>2, <1>3, <1>4 DEF Tasks!SpuriousWake, Pool!SpuriousWake
  <2>14. \A t, c : Tasks!BodyCalls(t, c) = Pool!BodyCalls(t, c)
    BY <1>2, <1>3, <1>4 DEF Tasks!BodyCalls, Pool!BodyCalls, Tasks!Call, Pool!Call
  <2>15. \A t, c : Tasks!MainCalls(t, c) = Pool!MainCalls(t, c)
    BY <1>2, <1>3, <1>4 DEF Tasks!MainCalls, Pool!MainCalls, Tasks!Call, Pool!Call
  <2>16. \A t, c : Tasks!AwaitBegins(t, c) = Pool!AwaitBegins(t, c)
    BY <1>2, <1>3, <1>4 DEF Tasks!AwaitBegins, Pool!AwaitBegins
  <2>17. \A t, c : Tasks!MainWaits(t, c) = Pool!MainWaits(t, c)
    BY <1>2, <1>3, <1>4 DEF Tasks!MainWaits, Pool!MainWaits, Tasks!WaitBegins, Pool!WaitBegins
  <2>18. \A t, c : Tasks!BodyWaits(t, c) = Pool!BodyWaits(t, c)
    BY <1>2, <1>3, <1>4 DEF Tasks!BodyWaits, Pool!BodyWaits, Tasks!WaitBegins, Pool!WaitBegins
  <2> QED
    BY <1>2, <2>1, <2>2, <2>3, <2>4, <2>5, <2>6, <2>7, <2>8, <2>9,
       <2>10, <2>11, <2>12, <2>13, <2>14, <2>15, <2>16, <2>17, <2>18
    DEF Tasks!Next, Pool!Next, Tasks!WorkerStep, Pool!WorkerStep, Tasks!MainStep, Pool!MainStep,
        Tasks!Schedules, Pool!Schedules, Tasks!Waits, Pool!Waits
<1>6. Tasks!Init => Pool!Init
  BY <1>2 DEF Tasks!Init, Pool!Init
<1>7. Tasks!RingIsAmple => Pool!RingIsAmple
  <2>1. \A S : Tasks!Cardinality(S) = Pool!Cardinality(S)
    BY DEF Tasks!Cardinality, Pool!Cardinality
  <2> QED
    BY <2>1 DEF Tasks!RingIsAmple, Pool!RingIsAmple
<1>8. Pool!TypeOK => Tasks!TypeOK
  BY <1>2 DEF Tasks!TypeOK, Pool!TypeOK, Tasks!WorkerPc, Pool!WorkerPc, Tasks!MainPc, Pool!MainPc
<1> QED
  BY <1>1, <1>5, <1>6, <1>7, <1>8

\* The loop and the pool go on by themselves.
LEMMA EachAlone == SyncSpec => Spec /\ Pool!Spec
<1>1. SyncInit => Init /\ Pool!Init
  BY SameTasks DEF SyncInit
<1>2. [SyncNext]_allVars => [Next]_vars /\ [Pool!Next]_Pool!vars
  <2> SUFFICES ASSUME [SyncNext]_allVars PROVE [Next]_vars /\ [Pool!Next]_Pool!vars
    OBVIOUS
  <2>1. UNCHANGED poolVars => UNCHANGED Pool!vars
    BY DEF poolVars, Pool!vars, Pool!tasks, Pool!coros, Pool!queue
  <2>2. CASE Loop
    BY <2>1, <2>2 DEF Loop
  <2>3. CASE Task
    BY <2>3, SameTasks DEF Task
  <2>4. CASE \E t \in Threads : Step(t) \/ Ask(t)
    BY <2>1, <2>4 DEF Step, Ask
  <2>5. CASE UNCHANGED allVars
    BY <2>1, <2>5 DEF allVars
  <2> QED
    BY <2>2, <2>3, <2>4, <2>5 DEF SyncNext
<1> QED
  BY <1>1, <1>2, PTL DEF SyncSpec, Spec, Pool!Spec

\* A part of the threads is no more than all of them.
LEMMA NoMore ==
  ASSUME NEW S, NEW T, S \subseteq T, T \subseteq Threads
  PROVE  Cardinality(S) \in 0..Cardinality(T)
<1>1. IsFiniteSet(T) /\ Cardinality(T) \in Nat /\ Cardinality(S) \in Nat
  BY PartFinite
<1>2. Cardinality(S) <= Cardinality(T)
  BY <1>1, FS_Subset
<1> QED
  BY <1>1, <1>2

LEMMA SynchronisersTyped ==
  ASSUME SyncInv
  PROVE  CASE kind = "latch" -> Latch!TypeOK
           [] kind = "barrier" -> Meeting!TypeOK
           [] OTHER -> Lock!TypeOK
<1>1. LatchInv => Latch!TypeOK
  <2>1. Cardinality(Latch!Counted) \in 0..Cardinality(Counters) /\ Cardinality(Counters) \in Nat
    BY CountedPart, NoMore, PartFinite DEF Threads
  <2> QED
    BY <2>1, SameCount, SyncAssumption DEF LatchInv, Latch!TypeOK, Latch!Calls, Threads
<1>2. BarrierInv => Meeting!TypeOK
  <2>1. /\ Cardinality(Come) \in 0..Cardinality(Threads)
        /\ Cardinality(Here("left")) \in Nat
    BY HerePart, NoMore, PartFinite
  <2> QED
    BY <2>1, SameCount DEF BarrierInv, Meeting!TypeOK
<1>3. LockInv => Lock!TypeOK
  <2>1. Cardinality(Within(CountedAt)) \in 0..Cardinality(Threads)
    BY WithinPart, NoMore
  <2> QED
    BY <2>1, SameCount
       DEF LockInv, Lock!TypeOK, Lock!Places, Lock!InMutex, Lock!Counted, LockPlaces, InMutex,
           CountedAt
<1> QED
  BY <1>1, <1>2, <1>3 DEF SyncInv

(* Every variable of the five stays in its type, whatever the numbers of   *)
(* threads and the sizes, for ranges that have room and while fewer calls  *)
(* are alive than the ring has slots.                                      *)
THEOREM SyncTypeCorrect == RangesFit => (SyncSpec /\ []Tasks!RingIsAmple => []SyncTypeOK)
<1> SUFFICES ASSUME RangesFit PROVE SyncSpec /\ []Tasks!RingIsAmple => []SyncTypeOK
  OBVIOUS
<1>1. Spec => []TypeOK
  BY TypeCorrect
<1>2. Pool!Spec /\ []Pool!RingIsAmple => []Pool!TypeOK
  BY SameTasks, Pool!TypeCorrect
<1>3. SyncInv /\ TypeOK /\ Pool!TypeOK => SyncTypeOK
  BY SameTasks, SynchronisersTyped DEF SyncTypeOK
<1>4. Tasks!RingIsAmple => Pool!RingIsAmple
  BY SameTasks
<1> QED
  BY <1>1, <1>2, <1>3, <1>4, EachAlone, SyncInvariant, PTL
=============================================================================
