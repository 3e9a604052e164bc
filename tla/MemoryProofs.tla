---------------------------- MODULE MemoryProofs -----------------------------
(* That a ring is a window of its latest objects, that the vault of        *)
(* unloaded code loses none, and that a weak reference is null once what   *)
(* it was to begins to die, in every execution, for any sizes; and what    *)
(* follows for the memory that MCMemory puts together.                     *)
EXTENDS MCMemory, RegionProofs

-----------------------------------------------------------------------------
(* Around a circle of RingCap slots.                                       *)

LEMMA Circle ==
  ASSUME RingAssumption, NEW h \in 0..(RingCap - 1)
  PROVE  /\ \A k \in 1..RingCap : Wrapped(h + k - 1) \in 0..(RingCap - 1)
         /\ \A j, k \in 1..RingCap : Wrapped(h + j - 1) = Wrapped(h + k - 1) => j = k
         /\ \A i \in 0..(RingCap - 1) : \E k \in 1..RingCap : Wrapped(h + k - 1) = i
         /\ Wrapped(h + RingCap) = h /\ Wrapped(h + 1) \in 0..(RingCap - 1)
         /\ \A k \in 1..RingCap : Wrapped(Wrapped(h + 1) + k - 1) =
              IF k = RingCap THEN h ELSE Wrapped(h + (k + 1) - 1)
<1>1. RingCap \in Nat /\ RingCap > 0 /\ h \in Nat /\ h < RingCap
  BY DEF RingAssumption
<1>2. \A k \in 1..RingCap : Wrapped(h + k - 1) \in 0..(RingCap - 1)
  BY <1>1 DEF Wrapped
<1>3. \A j, k \in 1..RingCap : Wrapped(h + j - 1) = Wrapped(h + k - 1) => j = k
  BY <1>1 DEF Wrapped
<1>4. ASSUME NEW i \in 0..(RingCap - 1)
      PROVE  \E k \in 1..RingCap : Wrapped(h + k - 1) = i
  <2>1. CASE h <= i
    <3>1. i - h + 1 \in 1..RingCap /\ Wrapped(h + (i - h + 1) - 1) = i
      BY <1>1, <2>1 DEF Wrapped
    <3> QED BY <3>1
  <2>2. CASE ~(h <= i)
    <3>1. i - h + 1 + RingCap \in 1..RingCap /\ Wrapped(h + (i - h + 1 + RingCap) - 1) = i
      BY <1>1, <2>2 DEF Wrapped
    <3> QED BY <3>1
  <2> QED BY <2>1, <2>2
<1>5. Wrapped(h + RingCap) = h /\ Wrapped(h + 1) \in 0..(RingCap - 1)
  BY <1>1 DEF Wrapped
<1>6. \A k \in 1..RingCap : Wrapped(Wrapped(h + 1) + k - 1) =
        IF k = RingCap THEN h ELSE Wrapped(h + (k + 1) - 1)
  BY <1>1 DEF Wrapped
<1> QED BY <1>2, <1>3, <1>4, <1>5, <1>6
-----------------------------------------------------------------------------
(* The destructors that one step runs.                                     *)

Upwards(s) == \A i, j \in DOMAIN s : i < j => s[i] < s[j]

\* Objects that come in the order of their making, after all that have ended.
LEMMA EndIs ==
  ASSUME NEW S \in SUBSET Nat, ended \in Seq(S), Upwards(ended),
         NEW n \in Nat, NEW slots, DOMAIN slots = 1..n,
         \A k \in StillIn(slots) : ring[slots[k]].object \in S,
         \A j, k \in StillIn(slots) : j < k => ring[slots[j]].object < ring[slots[k]].object,
         \A i \in DOMAIN ended : \A k \in StillIn(slots) : ended[i] < ring[slots[k]].object,
         EndAll(slots)
  PROVE  /\ ended' \in Seq(S) /\ Upwards(ended')
         /\ Members(ended') = Members(ended) \cup {ring[slots[k]].object : k \in StillIn(slots)}
<1> DEFINE live == StillIn(slots)
           c == Cardinality(live)
           l == Len(ended)
<1>1. PICK turn \in [1..c -> live] :
        /\ \A j, k \in DOMAIN turn : j < k => turn[j] < turn[k]
        /\ ended' = ended \o [k \in DOMAIN turn |-> ring[slots[turn[k]]].object]
  BY DEF EndAll
<1>2. live \subseteq 1..n
  BY DEF StillIn
<1>3. IsFiniteSet(live) /\ c \in Nat
  <2>1. IsFiniteSet(1..n)
    BY FS_Interval
  <2>2. IsFiniteSet(live)
    BY <1>2, <2>1, FS_Subset
  <2> QED BY <2>2, FS_CardinalityType
<1>4. DOMAIN turn = 1..c /\ \A k \in 1..c : turn[k] \in live /\ turn[k] \in Int
  BY <1>1, <1>2
<1> HIDE DEF c
<1>5. \A j, k \in 1..c : turn[j] = turn[k] => j = k
  <2> SUFFICES ASSUME NEW j \in 1..c, NEW k \in 1..c, j # k PROVE turn[j] # turn[k]
    OBVIOUS
  <2>1. j < k \/ k < j
    BY <1>3
  <2> QED BY <1>1, <1>4, <2>1
<1>6. \A e \in live : \E k \in 1..c : turn[k] = e
  <2>1. turn \in Injection(1..c, live)
    BY <1>1, <1>4, <1>5 DEF Injection, IsInjective
  <2>2. Cardinality(1..c) = Cardinality(live) /\ IsFiniteSet(1..c)
    BY <1>3, FS_Interval DEF c
  <2>3. turn \in Surjection(1..c, live)
    BY <1>3, <2>1, <2>2, FS_Injection
  <2> QED BY <2>3 DEF Surjection
<1> DEFINE r == [k \in 1..c |-> ring[slots[turn[k]]].object]
<1>7. r \in Seq(S) /\ Len(r) = c /\ \A k \in 1..c : r[k] = ring[slots[turn[k]]].object
  BY <1>3, <1>4
<1>8. l \in Nat /\ DOMAIN ended = 1..l
  OBVIOUS
<1> HIDE DEF l
<1>9. /\ ended' \in Seq(S) /\ DOMAIN ended' = 1..(l + c)
      /\ \A i \in 1..l : ended'[i] = ended[i]
      /\ \A k \in 1..c : ended'[l + k] = r[k]
  <2>1. ended' = ended \o r
    BY <1>1, <1>4
  <2> HIDE DEF r
  <2>2. /\ ended' \in Seq(S) /\ Len(ended') = l + c
        /\ \A i \in 1..(l + c) : ended'[i] = IF i <= l THEN ended[i] ELSE r[i - l]
    BY <1>7, <2>1, ConcatProperties DEF l
  <2>3. DOMAIN ended' = 1..(l + c)
    BY <2>2
  <2>4. \A i \in 1..l : ended'[i] = ended[i]
    BY <1>3, <1>8, <2>2
  <2>5. \A k \in 1..c : l + k \in 1..(l + c) /\ ~(l + k <= l) /\ (l + k) - l = k
    BY <1>3, <1>8
  <2> QED BY <2>2, <2>3, <2>4, <2>5
<1>10. \A i \in 1..(l + c) : i \in 1..l \/ (i - l \in 1..c /\ l + (i - l) = i)
  BY <1>3, <1>8
<1>11. Upwards(ended')
  <2> SUFFICES ASSUME NEW i \in 1..(l + c), NEW j \in 1..(l + c), i < j
               PROVE  ended'[i] < ended'[j]
    BY <1>9 DEF Upwards
  <2>1. CASE i \in 1..l /\ j \in 1..l
    BY <1>8, <1>9, <2>1 DEF Upwards
  <2>2. CASE i \in 1..l /\ j \notin 1..l
    <3>1. j - l \in 1..c /\ ended'[j] = r[j - l]
      BY <1>9, <1>10, <2>2
    <3>2. r[j - l] = ring[slots[turn[j - l]]].object /\ turn[j - l] \in StillIn(slots)
      BY <1>4, <1>7, <3>1
    <3> QED BY <1>8, <1>9, <2>2, <3>1, <3>2
  <2>3. CASE i \notin 1..l
    <3>1. /\ i - l \in 1..c /\ ended'[i] = r[i - l]
          /\ j - l \in 1..c /\ ended'[j] = r[j - l] /\ i - l < j - l
      <4>1. i \in Int /\ j \in Int /\ l \in Int /\ j \notin 1..l
        BY <1>3, <1>8, <2>3
      <4>2. i - l \in 1..c /\ l + (i - l) = i /\ j - l \in 1..c /\ l + (j - l) = j
        BY <1>10, <2>3, <4>1
      <4>3. i - l < j - l
        BY <4>1
      <4> QED BY <1>9, <4>2, <4>3
    <3>2. turn[i - l] < turn[j - l] /\ turn[i - l] \in StillIn(slots) /\ turn[j - l] \in StillIn(slots)
      BY <1>1, <1>4, <3>1
    <3> QED BY <1>7, <3>1, <3>2
  <2> QED BY <2>1, <2>2, <2>3
<1>12. Members(ended') = Members(ended) \cup {ring[slots[k]].object : k \in live}
  <2>1. \A i \in 1..(l + c) : ended'[i] \in Members(ended) \cup {ring[slots[k]].object : k \in live}
    <3> SUFFICES ASSUME NEW i \in 1..(l + c)
                 PROVE  ended'[i] \in Members(ended) \cup {ring[slots[k]].object : k \in live}
      OBVIOUS
    <3>1. CASE i \in 1..l
      BY <1>8, <1>9, <3>1 DEF Members
    <3>2. CASE i \notin 1..l
      <4>1. i - l \in 1..c /\ ended'[i] = r[i - l]
        BY <1>9, <1>10, <3>2
      <4>2. r[i - l] = ring[slots[turn[i - l]]].object /\ turn[i - l] \in live
        BY <1>4, <1>7, <4>1
      <4> QED BY <4>1, <4>2
    <3> QED BY <3>1, <3>2
  <2>2. \A i \in 1..l : ended[i] \in Members(ended')
    <3>1. \A i \in 1..l : i \in DOMAIN ended'
      BY <1>3, <1>8, <1>9
    <3> QED BY <1>9, <3>1 DEF Members
  <2>3. \A e \in live : ring[slots[e]].object \in Members(ended')
    <3> SUFFICES ASSUME NEW e \in live PROVE ring[slots[e]].object \in Members(ended')
      OBVIOUS
    <3>1. PICK k \in 1..c : turn[k] = e
      BY <1>6
    <3>2. l + k \in DOMAIN ended' /\ ended'[l + k] = ring[slots[e]].object
      BY <1>3, <1>7, <1>8, <1>9, <3>1
    <3> QED BY <3>2 DEF Members
  <2>4. DOMAIN ended' = 1..(l + c) /\ DOMAIN ended = 1..l
    BY <1>8, <1>9
  <2> HIDE DEF live
  <2> QED BY <2>1, <2>2, <2>3, <2>4 DEF Members
<1> QED BY <1>9, <1>11, <1>12
-----------------------------------------------------------------------------
\* What stands in the ring while it is there: the latest, the oldest at the
\* head, and stamped by whether they were extracted.
Around ==
  ~torn =>
    /\ held <= made /\ (held < RingCap => head = 0 /\ made = held)
    /\ \A k \in 1..held :
         LET s == ring[Wrapped(head + k - 1)]
         IN  /\ s.object = made - held + k
             /\ s.stamp = IF s.object \in taken THEN "Freed" ELSE "Live"
    /\ \A i \in held..(RingCap - 1) : ring[i].stamp = "none"
Closed == torn => \A i \in DOMAIN ring : ring[i].stamp # "Live"

\* The objects that are not in the window.
Out == IF torn THEN made ELSE made - held
Past == Upwards(ended) /\ Members(ended) = (1..Out) \ taken

RingInv == RingTypeOK /\ Around /\ Closed /\ Past

LEMMA RingIs ==
  ASSUME RingAssumption, RingTypeOK, made \in 0..MaxMade
  PROVE  /\ RingCap \in Nat \ {0} /\ MaxMade \in Nat /\ DOMAIN ring = 0..(RingCap - 1)
         /\ \A i \in 0..(RingCap - 1) : /\ ring[i].stamp \in {"none", "Live", "Freed"}
                                        /\ ring[i].object \in 0..MaxMade
                                        /\ ring[i] = [stamp |-> ring[i].stamp, object |-> ring[i].object]
         /\ head \in 0..(RingCap - 1) /\ held \in 0..RingCap /\ made \in Nat
         /\ taken \subseteq 1..made /\ ended \in Seq(1..made)
  BY DEF RingAssumption, RingTypeOK

LEMMA RingInitInv == ASSUME RingAssumption, RingInit PROVE RingInv /\ made \in 0..MaxMade
<1>1. RingCap \in Nat \ {0} /\ MaxMade \in Nat
  BY DEF RingAssumption
<1>2. /\ head = 0 /\ held = 0 /\ made = 0 /\ taken = {} /\ ended = << >> /\ torn = FALSE
      /\ ring = [i \in 0..(RingCap - 1) |-> [stamp |-> "none", object |-> 0]]
  BY DEF RingInit
<1>3. RingTypeOK
  <2>1. ring \in [0..(RingCap - 1) -> [stamp : {"none", "Live", "Freed"}, object : 0..MaxMade]]
    BY <1>1, <1>2
  <2>2. head \in DOMAIN ring /\ held \in 0..RingCap /\ taken \subseteq 1..made
    BY <1>1, <1>2
  <2>3. ended \in Seq(1..made)
    BY <1>2
  <2> QED BY <2>1, <2>2, <2>3 DEF RingTypeOK
<1>4. Around
  BY <1>1, <1>2 DEF Around
<1>5. Past
  <2>1. DOMAIN ended = {}
    BY <1>2
  <2>2. 1..Out = {}
    BY <1>2 DEF Out
  <2> QED BY <2>1, <2>2 DEF Past, Upwards, Members
<1> QED BY <1>1, <1>2, <1>3, <1>4, <1>5 DEF RingInv, Closed

\* In the slots from the head on stand these objects, the live ones not taken.
LEMMA StandingIs ==
  ASSUME RingAssumption, RingInv, made \in 0..MaxMade, ~torn
  PROVE  /\ \A k \in 1..held :
              LET i == Wrapped(head + k - 1)
              IN  /\ i \in 0..(RingCap - 1) /\ ring[i].object = made - held + k
                  /\ ring[i].object \in 1..made /\ ring[i].object > made - held
                  /\ ring[i].stamp = "Live" <=> ring[i].object \notin taken
                  /\ ring[i].stamp # "none"
         /\ \A i \in 0..(RingCap - 1) : ring[i].stamp # "none" =>
              \E k \in 1..held : i = Wrapped(head + k - 1)
         /\ held <= made /\ made - held \in Nat
<1>1. /\ RingCap \in Nat \ {0} /\ head \in 0..(RingCap - 1) /\ held \in 0..RingCap /\ made \in Nat
  BY RingIs DEF RingInv
<1>2. /\ held <= made /\ (held < RingCap => head = 0 /\ made = held)
      /\ \A k \in 1..held :
           LET s == ring[Wrapped(head + k - 1)]
           IN  /\ s.object = made - held + k
               /\ s.stamp = IF s.object \in taken THEN "Freed" ELSE "Live"
      /\ \A i \in held..(RingCap - 1) : ring[i].stamp = "none"
  BY DEF RingInv, Around
<1>3. \A k \in 1..held : k \in 1..RingCap /\ made - held + k \in 1..made /\ made - held + k > made - held
  BY <1>1, <1>2
<1>4. ASSUME NEW i \in 0..(RingCap - 1), ring[i].stamp # "none"
      PROVE  \E k \in 1..held : i = Wrapped(head + k - 1)
  <2>0. \A j \in 0..(RingCap - 1) : \E k \in 1..RingCap : Wrapped(head + k - 1) = j
    BY <1>1, Circle
  <2>1. PICK k \in 1..RingCap : Wrapped(head + k - 1) = i
    BY <2>0
  <2>2. CASE held = RingCap
    BY <2>1, <2>2
  <2>3. CASE held # RingCap
    <3>1. head = 0 /\ i \notin held..(RingCap - 1)
      BY <1>1, <1>2, <1>4, <2>3
    <3>2. i + 1 \in 1..held /\ Wrapped(0 + (i + 1) - 1) = i
      BY <1>1, <3>1 DEF Wrapped
    <3> QED BY <3>1, <3>2
  <2> QED BY <2>2, <2>3
<1>5. \A k \in 1..RingCap : Wrapped(head + k - 1) \in 0..(RingCap - 1)
  BY <1>1, Circle
<1>6. made - held \in Nat
  BY <1>1, <1>2
<1> QED BY <1>2, <1>3, <1>4, <1>5, <1>6

LEMMA TakeInv ==
  ASSUME RingAssumption, RingInv, made \in 0..MaxMade, NEW i \in DOMAIN ring, Take(i)
  PROVE  RingInv' /\ made' \in 0..MaxMade
<1>1. /\ RingCap \in Nat \ {0} /\ DOMAIN ring = 0..(RingCap - 1)
      /\ \A j \in 0..(RingCap - 1) : /\ ring[j].stamp \in {"none", "Live", "Freed"}
                                     /\ ring[j].object \in 0..MaxMade
      /\ head \in 0..(RingCap - 1) /\ held \in 0..RingCap /\ made \in Nat
      /\ taken \subseteq 1..made /\ ended \in Seq(1..made)
  BY RingIs DEF RingInv
<1>2. /\ ~torn /\ ring[i].stamp = "Live"
      /\ ring' = [ring EXCEPT ![i].stamp = "Freed"]
      /\ taken' = taken \cup {ring[i].object}
      /\ head' = head /\ held' = held /\ made' = made /\ ended' = ended /\ torn' = torn
  BY DEF Take
<1>3. /\ DOMAIN ring' = DOMAIN ring
      /\ \A j \in DOMAIN ring : ring'[j].object = ring[j].object
      /\ \A j \in DOMAIN ring : ring'[j].stamp = IF j = i THEN "Freed" ELSE ring[j].stamp
  BY <1>1, <1>2 DEF RingInv, RingTypeOK
<1>4. PICK n \in 1..held : i = Wrapped(head + n - 1)
  BY <1>1, <1>2, StandingIs
<1>5. ring[i].object = made - held + n /\ ring[i].object \in 1..made /\ ring[i].object > made - held
  BY <1>2, <1>4, StandingIs
<1>6. RingTypeOK'
  <2>1. ring' \in [0..(RingCap - 1) -> [stamp : {"none", "Live", "Freed"}, object : 0..MaxMade]]
    BY <1>1, <1>2 DEF RingInv, RingTypeOK
  <2> QED BY <1>1, <1>2, <1>3, <1>5, <2>1 DEF RingTypeOK
<1>7. Around'
  <2> SUFFICES /\ held <= made /\ (held < RingCap => head = 0 /\ made = held)
               /\ \A k \in 1..held :
                    LET s == ring'[Wrapped(head + k - 1)]
                    IN  /\ s.object = made - held + k
                        /\ s.stamp = IF s.object \in taken' THEN "Freed" ELSE "Live"
               /\ \A j \in held..(RingCap - 1) : ring'[j].stamp = "none"
    BY <1>2 DEF Around, Wrapped
  <2>1. /\ held <= made /\ (held < RingCap => head = 0 /\ made = held)
        /\ \A j \in held..(RingCap - 1) : ring[j].stamp = "none" /\ j \in DOMAIN ring
    BY <1>1, <1>2 DEF RingInv, Around
  <2>2. \A j \in held..(RingCap - 1) : ring'[j].stamp = "none"
    BY <1>2, <1>3, <2>1
  <2>3. ASSUME NEW k \in 1..held
        PROVE  LET s == ring'[Wrapped(head + k - 1)]
               IN  /\ s.object = made - held + k
                   /\ s.stamp = IF s.object \in taken' THEN "Freed" ELSE "Live"
    <3> DEFINE j == Wrapped(head + k - 1)
    <3>1. /\ j \in DOMAIN ring /\ ring[j].object = made - held + k
          /\ ring[j].stamp = IF ring[j].object \in taken THEN "Freed" ELSE "Live"
      BY <1>1, <1>2, StandingIs DEF RingInv, Around
    <3>2. j = i => k = n
      <4>1. \A a, b \in 1..RingCap : Wrapped(head + a - 1) = Wrapped(head + b - 1) => a = b
        BY <1>1, Circle
      <4>2. k \in 1..RingCap /\ n \in 1..RingCap
        BY <1>1
      <4> QED BY <1>4, <4>1, <4>2
    <3> HIDE DEF j
    <3>3. j # i => ring[j].object # ring[i].object
      BY <1>1, <1>4, <1>5, <2>1, <3>1 DEF j
    <3>4. ring'[j].object = ring[j].object /\ ring'[j].stamp = IF j = i THEN "Freed" ELSE ring[j].stamp
      BY <1>3, <3>1
    <3>5. ring'[j].stamp = IF ring'[j].object \in taken' THEN "Freed" ELSE "Live"
      BY <1>2, <3>1, <3>3, <3>4
    <3> QED BY <3>1, <3>4, <3>5 DEF j
  <2> QED BY <2>1, <2>2, <2>3
<1>8. Past'
  <2>1. Out' = made - held /\ Out = made - held
    BY <1>2 DEF Out
  <2>2. (1..(made - held)) \ taken' = (1..(made - held)) \ taken
    BY <1>1, <1>2, <1>5
  <2> QED BY <1>2, <2>1, <2>2 DEF RingInv, Past, Upwards, Members
<1> QED BY <1>2, <1>6, <1>7, <1>8 DEF RingInv, Closed

LEMMA PushInv ==
  ASSUME RingAssumption, RingInv, made \in 0..MaxMade, Push
  PROVE  RingInv' /\ made' \in 0..MaxMade
<1> DEFINE place == Wrapped(head + held)
           lapped == held = RingCap
           slots == IF lapped THEN <<place>> ELSE << >>
           new == [stamp |-> "Live", object |-> made + 1]
           base == made - held
<1>1. /\ RingCap \in Nat \ {0} /\ MaxMade \in Nat /\ DOMAIN ring = 0..(RingCap - 1)
      /\ \A j \in 0..(RingCap - 1) : /\ ring[j].stamp \in {"none", "Live", "Freed"}
                                     /\ ring[j].object \in 0..MaxMade
      /\ head \in 0..(RingCap - 1) /\ held \in 0..RingCap /\ made \in Nat
      /\ taken \subseteq 1..made /\ ended \in Seq(1..made)
  BY RingIs DEF RingInv
<1>2. /\ ~torn /\ made < MaxMade
      /\ ring' = [ring EXCEPT ![place] = new]
      /\ head' = IF lapped THEN Wrapped(head + 1) ELSE head
      /\ held' = IF lapped THEN held ELSE held + 1
      /\ EndAll(slots)
      /\ made' = made + 1 /\ taken' = taken /\ torn' = torn
  BY DEF Push
<1>3. /\ held <= made /\ base \in Nat
      /\ \A k \in 1..held :
           /\ Wrapped(head + k - 1) \in 0..(RingCap - 1)
           /\ ring[Wrapped(head + k - 1)].object = base + k
           /\ ring[Wrapped(head + k - 1)].stamp = "Live" <=> base + k \notin taken
           /\ ring[Wrapped(head + k - 1)].stamp = IF base + k \in taken THEN "Freed" ELSE "Live"
  <2>1. /\ held <= made /\ base \in Nat
        /\ \A k \in 1..held :
             /\ Wrapped(head + k - 1) \in 0..(RingCap - 1)
             /\ ring[Wrapped(head + k - 1)].object = base + k
             /\ ring[Wrapped(head + k - 1)].stamp = "Live" <=> ring[Wrapped(head + k - 1)].object \notin taken
    BY <1>2, StandingIs
  <2>2. \A k \in 1..held : ring[Wrapped(head + k - 1)].stamp =
                             IF ring[Wrapped(head + k - 1)].object \in taken THEN "Freed" ELSE "Live"
    BY <1>2 DEF RingInv, Around
  <2> QED BY <2>1, <2>2
<1>4. ~lapped => head = 0 /\ made = held /\ place = held /\ place \in 0..(RingCap - 1)
  BY <1>1, <1>2 DEF RingInv, Around, Wrapped
<1>5. lapped => place = head /\ head = Wrapped(head + 1 - 1) /\ 1 \in 1..held
  BY <1>1, Circle DEF Wrapped
<1>6. place \in 0..(RingCap - 1)
  BY <1>1, <1>4, <1>5
<1> HIDE DEF place
<1>7. /\ DOMAIN ring' = 0..(RingCap - 1)
      /\ ring'[place].object = made + 1 /\ ring'[place].stamp = "Live"
      /\ \A j \in 0..(RingCap - 1) : j # place => ring'[j] = ring[j]
      /\ ring' \in [0..(RingCap - 1) -> [stamp : {"none", "Live", "Freed"}, object : 0..MaxMade]]
  <2>1. new \in [stamp : {"none", "Live", "Freed"}, object : 0..MaxMade]
    BY <1>1, <1>2
  <2> HIDE DEF new
  <2>2. /\ DOMAIN ring' = 0..(RingCap - 1) /\ ring'[place] = new
        /\ \A j \in 0..(RingCap - 1) : j # place => ring'[j] = ring[j]
        /\ ring' \in [0..(RingCap - 1) -> [stamp : {"none", "Live", "Freed"}, object : 0..MaxMade]]
    BY <1>2, <1>6, <2>1 DEF RingInv, RingTypeOK
  <2> QED BY <2>2 DEF new
<1>8. /\ ended' \in Seq(1..made) /\ Upwards(ended')
      /\ Members(ended') = (1..(IF lapped THEN base + 1 ELSE base)) \ taken
  <2>1. Upwards(ended) /\ Members(ended) = (1..base) \ taken
    BY <1>2 DEF RingInv, Past, Out
  <2>2. CASE ~lapped
    <3>1. slots = << >> /\ StillIn(slots) = {} /\ DOMAIN slots = 1..0
      BY <2>2 DEF StillIn
    <3>2. /\ ended' \in Seq(1..made) /\ Upwards(ended')
          /\ Members(ended') = Members(ended) \cup {ring[slots[k]].object : k \in StillIn(slots)}
      <4>1. 1..made \in SUBSET Nat /\ ended \in Seq(1..made)
        BY <1>1
      <4>2. EndAll(slots)
        BY <1>2
      <4>3. DOMAIN slots = 1..0
        BY <3>1
      <4>4. /\ \A k \in StillIn(slots) : ring[slots[k]].object \in 1..made
            /\ \A j, k \in StillIn(slots) : j < k => ring[slots[j]].object < ring[slots[k]].object
            /\ \A i \in DOMAIN ended : \A k \in StillIn(slots) : ended[i] < ring[slots[k]].object
        BY <3>1
      <4>5. Upwards(ended)
        BY <2>1
      <4> HIDE DEF slots
      <4>7. PICK S, n, s : S = 1..made /\ n = 0 /\ s = slots
        OBVIOUS
      <4>8. /\ S \in SUBSET Nat /\ n \in Nat /\ ended \in Seq(S) /\ Upwards(ended) /\ DOMAIN s = 1..n
            /\ \A k \in StillIn(s) : ring[s[k]].object \in S
            /\ \A j, k \in StillIn(s) : j < k => ring[s[j]].object < ring[s[k]].object
            /\ \A i \in DOMAIN ended : \A k \in StillIn(s) : ended[i] < ring[s[k]].object
            /\ EndAll(s)
        BY <4>1, <4>2, <4>3, <4>4, <4>5, <4>7
      <4>9. /\ ended' \in Seq(S) /\ Upwards(ended')
            /\ Members(ended') = Members(ended) \cup {ring[s[k]].object : k \in StillIn(s)}
        BY <4>8, EndIs, SMTT(20)
      <4> QED BY <4>7, <4>9
    <3> QED BY <2>1, <2>2, <3>1, <3>2
  <2>3. CASE lapped
    <3>1. slots = <<place>> /\ DOMAIN slots = 1..1 /\ slots[1] = place
      BY <2>3
    <3>2. /\ ring[place].object = base + 1 /\ base + 1 \in 1..made
          /\ ring[place].stamp = "Live" <=> base + 1 \notin taken
      BY <1>1, <1>3, <1>5, <2>3
    <3>3. StillIn(slots) = IF base + 1 \in taken THEN {} ELSE {1}
      BY <3>1, <3>2 DEF StillIn
    <3>4. {ring[slots[k]].object : k \in StillIn(slots)} = {base + 1} \ taken
      BY <3>1, <3>2, <3>3
    <3>5. \A i \in DOMAIN ended : ended[i] \in 1..base
      BY <2>1 DEF Members
    <3>6. /\ ended' \in Seq(1..made) /\ Upwards(ended')
          /\ Members(ended') = Members(ended) \cup {ring[slots[k]].object : k \in StillIn(slots)}
      <4>1. 1..made \in SUBSET Nat /\ ended \in Seq(1..made) /\ EndAll(slots)
        BY <1>1, <1>2
      <4>2. \A k \in StillIn(slots) : k = 1 /\ ring[slots[k]].object = base + 1
        BY <3>1, <3>2, <3>3
      <4> HIDE DEF slots, base
      <4>3. /\ \A k \in StillIn(slots) : ring[slots[k]].object \in 1..made
            /\ \A j, k \in StillIn(slots) : j < k => ring[slots[j]].object < ring[slots[k]].object
        BY <3>2, <4>2
      <4>4. \A i \in DOMAIN ended : \A k \in StillIn(slots) : ended[i] < ring[slots[k]].object
        BY <1>3, <3>5, <4>2
      <4>5. DOMAIN slots = 1..1 /\ Upwards(ended)
        BY <2>1, <3>1
      <4>7. PICK S, n, s : S = 1..made /\ n = 1 /\ s = slots
        OBVIOUS
      <4>8. /\ S \in SUBSET Nat /\ n \in Nat /\ ended \in Seq(S) /\ Upwards(ended) /\ DOMAIN s = 1..n
            /\ \A k \in StillIn(s) : ring[s[k]].object \in S
            /\ \A j, k \in StillIn(s) : j < k => ring[s[j]].object < ring[s[k]].object
            /\ \A i \in DOMAIN ended : \A k \in StillIn(s) : ended[i] < ring[s[k]].object
            /\ EndAll(s)
        BY <4>1, <4>3, <4>4, <4>5, <4>7
      <4>9. /\ ended' \in Seq(S) /\ Upwards(ended')
            /\ Members(ended') = Members(ended) \cup {ring[s[k]].object : k \in StillIn(s)}
        BY <4>8, EndIs, SMTT(20)
      <4> QED BY <4>7, <4>9
    <3>7. (1..base) \cup {base + 1} = 1..(base + 1)
      BY <1>3
    <3> HIDE DEF base
    <3> QED BY <2>1, <2>3, <3>4, <3>6, <3>7
  <2> QED BY <2>2, <2>3
<1>9. RingTypeOK' /\ made' \in 0..MaxMade
  <2>1. head' \in DOMAIN ring' /\ held' \in 0..RingCap
    <3>1. Wrapped(head + 1) \in 0..(RingCap - 1)
      BY <1>1, Circle
    <3> QED BY <1>1, <1>2, <1>7, <3>1
  <2>2. taken' \subseteq 1..made' /\ made' \in 0..MaxMade /\ 1..made \subseteq 1..made'
    BY <1>1, <1>2
  <2>3. ended' \in Seq(1..made')
    BY <1>8, <2>2
  <2> QED BY <1>7, <2>1, <2>2, <2>3 DEF RingTypeOK
<1>10. Past'
  <2>1. Out' = IF lapped THEN base + 1 ELSE base
    BY <1>1, <1>2 DEF Out
  <2> QED BY <1>2, <1>8, <2>1 DEF Past, Upwards, Members
<1>11. Around'
  <2> SUFFICES /\ held' <= made' /\ (held' < RingCap => head' = 0 /\ made' = held')
               /\ \A k \in 1..held' :
                    LET s == ring'[Wrapped(head' + k - 1)]
                    IN  /\ s.object = made' - held' + k
                        /\ s.stamp = IF s.object \in taken' THEN "Freed" ELSE "Live"
               /\ \A j \in held'..(RingCap - 1) : ring'[j].stamp = "none"
    BY DEF Around, Wrapped
  <2>1. \A j \in held..(RingCap - 1) : ring[j].stamp = "none"
    BY <1>2 DEF RingInv, Around
  <2>2. made + 1 \notin taken
    BY <1>1
  <2>3. CASE ~lapped
    <3>1. /\ head' = 0 /\ head = 0 /\ held' = held + 1 /\ made' = made + 1 /\ made = held /\ place = held
          /\ held < RingCap /\ base = 0 /\ taken' = taken
      BY <1>1, <1>2, <1>4, <2>3
    <3>2. ASSUME NEW k \in 1..(held + 1)
          PROVE  LET s == ring'[Wrapped(0 + k - 1)]
                 IN  /\ s.object = made' - held' + k
                     /\ s.stamp = IF s.object \in taken' THEN "Freed" ELSE "Live"
      <4>0. Wrapped(0 + k - 1) = k - 1 /\ k - 1 \in 0..(RingCap - 1) /\ made' - held' + k = k
        BY <1>1, <3>1 DEF Wrapped
      <4>1. CASE k = held + 1
        BY <1>1, <1>7, <2>2, <3>1, <4>0, <4>1
      <4>2. CASE k # held + 1
        <5>1. k \in 1..held /\ k - 1 # place
          BY <1>1, <3>1, <4>2
        <5>2. ring'[k - 1] = ring[k - 1]
          BY <1>7, <4>0, <5>1
        <5>3. ring[k - 1].object = k /\ ring[k - 1].stamp = IF k \in taken THEN "Freed" ELSE "Live"
          BY <1>1, <1>3, <3>1, <4>0, <5>1
        <5> QED BY <3>1, <4>0, <5>2, <5>3
      <4> QED BY <4>1, <4>2
    <3>3. \A j \in (held + 1)..(RingCap - 1) : ring'[j].stamp = "none"
      <4>1. \A j \in (held + 1)..(RingCap - 1) : j \in held..(RingCap - 1) /\ j # place /\ j \in 0..(RingCap - 1)
        BY <1>1, <3>1
      <4> QED BY <1>7, <2>1, <4>1
    <3> QED BY <1>1, <3>1, <3>2, <3>3
  <2>4. CASE lapped
    <3>1. /\ head' = Wrapped(head + 1) /\ held' = RingCap /\ held = RingCap /\ made' = made + 1
          /\ place = head /\ taken' = taken /\ made' - held' = base + 1
      BY <1>1, <1>2, <1>5, <2>4
    <3>2. ASSUME NEW k \in 1..RingCap
          PROVE  LET s == ring'[Wrapped(head' + k - 1)]
                 IN  /\ s.object = made' - held' + k
                     /\ s.stamp = IF s.object \in taken' THEN "Freed" ELSE "Live"
      <4>0. Wrapped(head' + k - 1) = IF k = RingCap THEN head ELSE Wrapped(head + (k + 1) - 1)
        <5>1. \A j \in 1..RingCap : Wrapped(Wrapped(head + 1) + j - 1) =
                IF j = RingCap THEN head ELSE Wrapped(head + (j + 1) - 1)
          BY <1>1, Circle
        <5> QED BY <3>1, <5>1
      <4>1. CASE k = RingCap
        <5>1. made' - held' + k = made + 1
          BY <1>1, <3>1, <4>1
        <5> QED BY <1>7, <2>2, <3>1, <4>0, <4>1, <5>1
      <4>2. CASE k # RingCap
        <5> DEFINE j == Wrapped(head + (k + 1) - 1)
        <5>1. k + 1 \in 1..RingCap /\ 1 \in 1..RingCap /\ k + 1 # 1
          BY <1>1, <4>2
        <5>2. j # head
          <6>1. \A a, b \in 1..RingCap : Wrapped(head + a - 1) = Wrapped(head + b - 1) => a = b
            BY <1>1, Circle
          <6> QED BY <1>5, <2>4, <5>1, <6>1
        <5>3. /\ j \in 0..(RingCap - 1) /\ ring[j].object = base + (k + 1)
              /\ ring[j].stamp = IF base + (k + 1) \in taken THEN "Freed" ELSE "Live"
          BY <1>3, <3>1, <5>1
        <5>4. ring'[j] = ring[j]
          BY <1>7, <3>1, <5>2, <5>3
        <5>5. made' - held' + k = base + (k + 1)
          BY <1>1, <1>3, <3>1
        <5> HIDE DEF j, base
        <5> QED BY <3>1, <4>0, <4>2, <5>3, <5>4, <5>5 DEF j
      <4> QED BY <4>1, <4>2
    <3>3. held'..(RingCap - 1) = {}
      BY <1>1, <3>1
    <3>4. held' <= made' /\ ~(held' < RingCap)
      BY <1>1, <1>3, <3>1
    <3> QED BY <3>1, <3>2, <3>3, <3>4
  <2> QED BY <2>3, <2>4
<1> QED BY <1>2, <1>9, <1>10, <1>11 DEF RingInv, Closed

LEMMA TearInv ==
  ASSUME RingAssumption, RingInv, made \in 0..MaxMade, Tear
  PROVE  RingInv' /\ made' \in 0..MaxMade
<1> DEFINE slots == [k \in 1..held |-> Wrapped(head + k - 1)]
           base == made - held
<1>1. /\ RingCap \in Nat \ {0} /\ DOMAIN ring = 0..(RingCap - 1)
      /\ head \in 0..(RingCap - 1) /\ held \in 0..RingCap /\ made \in Nat
      /\ taken \subseteq 1..made /\ ended \in Seq(1..made)
  BY RingIs DEF RingInv
<1>2. /\ ~torn /\ torn' = TRUE /\ EndAll(slots) /\ held' = 0
      /\ ring' = [i \in DOMAIN ring |-> IF \E k \in StillIn(slots) : slots[k] = i
                                        THEN [ring[i] EXCEPT !.stamp = "Freed"] ELSE ring[i]]
      /\ head' = head /\ made' = made /\ taken' = taken
  BY DEF Tear
<1>3. /\ DOMAIN slots = 1..held /\ base \in Nat /\ held <= made
      /\ \A k \in 1..held : /\ slots[k] \in 0..(RingCap - 1) /\ ring[slots[k]].object = base + k
                            /\ base + k \in 1..made
                            /\ ring[slots[k]].stamp = "Live" <=> base + k \notin taken
      /\ \A i \in 0..(RingCap - 1) : ring[i].stamp # "none" => \E k \in 1..held : i = slots[k]
  BY <1>2, StandingIs
<1>4. Upwards(ended) /\ Members(ended) = (1..base) \ taken
  BY <1>2 DEF RingInv, Past, Out
<1> HIDE DEF slots
<1>5. StillIn(slots) = {k \in 1..held : base + k \notin taken}
  BY <1>3 DEF StillIn
<1>6. {ring[slots[k]].object : k \in StillIn(slots)} = ((base + 1)..made) \ taken
  <2>1. \A k \in StillIn(slots) : ring[slots[k]].object \in ((base + 1)..made) \ taken
    BY <1>1, <1>3, <1>5
  <2>2. ASSUME NEW o \in ((base + 1)..made) \ taken
        PROVE  o \in {ring[slots[k]].object : k \in StillIn(slots)}
    <3>1. o - base \in 1..held /\ base + (o - base) = o
      BY <1>1, <1>3
    <3> HIDE DEF base
    <3>2. o - base \in StillIn(slots) /\ ring[slots[o - base]].object = o
      BY <1>3, <1>5, <3>1
    <3> QED BY <3>2
  <2> QED BY <2>1, <2>2
<1>7. /\ ended' \in Seq(1..made) /\ Upwards(ended')
      /\ Members(ended') = Members(ended) \cup {ring[slots[k]].object : k \in StillIn(slots)}
  <2>1. 1..made \in SUBSET Nat /\ held \in Nat /\ ended \in Seq(1..made) /\ EndAll(slots)
    BY <1>1, <1>2
  <2>2. \A i \in DOMAIN ended : ended[i] \in 1..base
    BY <1>4 DEF Members
  <2>3. \A k \in StillIn(slots) : k \in Nat \ {0} /\ ring[slots[k]].object = base + k /\ base + k \in 1..made
    BY <1>3, <1>5
  <2> HIDE DEF base
  <2>4. /\ \A k \in StillIn(slots) : ring[slots[k]].object \in 1..made
        /\ \A j, k \in StillIn(slots) : j < k => ring[slots[j]].object < ring[slots[k]].object
        /\ \A i \in DOMAIN ended : \A k \in StillIn(slots) : ended[i] < ring[slots[k]].object
    BY <1>3, <2>2, <2>3
  <2>5. DOMAIN slots = 1..held /\ Upwards(ended)
    BY <1>3, <1>4
  <2>6. PICK S, n, s : S = 1..made /\ n = held /\ s = slots
    OBVIOUS
  <2>7. /\ S \in SUBSET Nat /\ n \in Nat /\ ended \in Seq(S) /\ Upwards(ended) /\ DOMAIN s = 1..n
        /\ \A k \in StillIn(s) : ring[s[k]].object \in S
        /\ \A j, k \in StillIn(s) : j < k => ring[s[j]].object < ring[s[k]].object
        /\ \A i \in DOMAIN ended : \A k \in StillIn(s) : ended[i] < ring[s[k]].object
        /\ EndAll(s)
    BY <2>1, <2>4, <2>5, <2>6
  <2>8. /\ ended' \in Seq(S) /\ Upwards(ended')
        /\ Members(ended') = Members(ended) \cup {ring[s[k]].object : k \in StillIn(s)}
    BY <2>7, EndIs, SMTT(20)
  <2> QED BY <2>6, <2>8
<1>8. Past'
  <2>1. Members(ended') = (1..made) \ taken
    <3>1. (1..base) \cup ((base + 1)..made) = 1..made
      BY <1>1, <1>3
    <3> HIDE DEF base
    <3> QED BY <1>4, <1>6, <1>7, <3>1
  <2>2. Out' = made
    BY <1>2 DEF Out
  <2> QED BY <1>2, <1>7, <2>1, <2>2 DEF Past, Upwards, Members
<1>9. RingTypeOK'
  <2>1. ring' \in [0..(RingCap - 1) -> [stamp : {"none", "Live", "Freed"}, object : 0..MaxMade]]
    BY <1>1, <1>2 DEF RingInv, RingTypeOK
  <2> QED BY <1>1, <1>2, <1>7, <2>1 DEF RingTypeOK
<1>10. Closed'
  <2> SUFFICES ASSUME NEW i \in 0..(RingCap - 1) PROVE ring'[i].stamp # "Live"
    BY <1>1, <1>2 DEF Closed
  <2>1. CASE \E k \in StillIn(slots) : slots[k] = i
    <3>1. ring'[i] = [ring[i] EXCEPT !.stamp = "Freed"]
      BY <1>1, <1>2, <2>1
    <3>2. ring[i] \in [stamp : {"none", "Live", "Freed"}, object : 0..MaxMade]
      BY DEF RingInv, RingTypeOK
    <3> QED BY <3>1, <3>2
  <2>2. CASE ~\E k \in StillIn(slots) : slots[k] = i
    <3>1. ring'[i] = ring[i]
      BY <1>1, <1>2, <2>2
    <3>2. ASSUME ring[i].stamp = "Live" PROVE FALSE
      <4>1. PICK k \in 1..held : i = slots[k]
        BY <1>3, <3>2
      <4>2. k \in StillIn(slots)
        BY <1>3, <3>2, <4>1 DEF StillIn
      <4> QED BY <2>2, <4>1, <4>2
    <3> QED BY <3>1, <3>2
  <2> QED BY <2>1, <2>2
<1> QED BY <1>2, <1>8, <1>9, <1>10 DEF RingInv, Around

LEMMA RingInvariance == ASSUME RingAssumption PROVE RingSpec => [](RingInv /\ made \in 0..MaxMade)
<1>1. RingInit => RingInv /\ made \in 0..MaxMade
  BY RingInitInv
<1>2. (RingInv /\ made \in 0..MaxMade) /\ [RingNext]_ringVars => (RingInv /\ made \in 0..MaxMade)'
  <2> SUFFICES ASSUME RingInv, made \in 0..MaxMade, [RingNext]_ringVars
               PROVE  RingInv' /\ made' \in 0..MaxMade
    OBVIOUS
  <2>1. CASE UNCHANGED ringVars
    BY <2>1 DEF ringVars, RingInv, RingTypeOK, Around, Closed, Past, Out, Upwards, Members, Wrapped
  <2> QED BY <2>1, PushInv, TearInv, TakeInv DEF RingNext
<1> QED BY <1>1, <1>2, PTL DEF RingSpec

LEMMA WindowIs == ASSUME RingAssumption, RingInv, made \in 0..MaxMade PROVE WindowOfTheLatest
<1>1. /\ RingCap \in Nat \ {0} /\ DOMAIN ring = 0..(RingCap - 1)
      /\ held \in 0..RingCap /\ made \in Nat
  BY RingIs DEF RingInv
<1>2. Upwards(ended) /\ Members(ended) = (1..Out) \ taken
  BY DEF RingInv, Past
<1> DEFINE there == {ring[i].object : i \in {j \in DOMAIN ring : ring[j].stamp = "Live"}}
<1>3. CASE torn
  <2>1. Window = {} /\ Out = made
    BY <1>3 DEF Window, Out
  <2>2. there = {}
    BY <1>3 DEF RingInv, Closed
  <2> QED BY <1>2, <2>1, <2>2 DEF WindowOfTheLatest, Upwards, Members
<1>4. CASE ~torn
  <2>1. /\ held <= made /\ (held < RingCap => made = held) /\ Out = made - held
    BY <1>4 DEF RingInv, Around, Out
  <2>2. \A o \in 1..made : o \in Window <=> o > made - held
    BY <1>1, <1>4, <2>1 DEF Window
  <2>3. Window \subseteq 1..made
    BY <1>4 DEF Window
  <2>4. (1..Out) \ taken = (1..made) \ (Window \cup taken)
    BY <1>1, <2>1, <2>2, <2>3
  <2>5. /\ \A k \in 1..held :
             LET i == Wrapped(head + k - 1)
             IN  /\ i \in 0..(RingCap - 1) /\ ring[i].object = made - held + k
                 /\ ring[i].object \in 1..made /\ ring[i].object > made - held
                 /\ ring[i].stamp = "Live" <=> ring[i].object \notin taken
        /\ \A i \in 0..(RingCap - 1) : ring[i].stamp # "none" =>
             \E k \in 1..held : i = Wrapped(head + k - 1)
    BY <1>4, StandingIs
  <2>6. \A i \in 0..(RingCap - 1) : ring[i].stamp = "Live" => ring[i].object \in Window \ taken
    BY <2>2, <2>5
  <2>7. ASSUME NEW o \in Window \ taken PROVE o \in there
    <3>1. o \in 1..made /\ o - (made - held) \in 1..held /\ made - held + (o - (made - held)) = o
      BY <1>1, <2>1, <2>2, <2>3
    <3>2. PICK k \in 1..held : made - held + k = o
      BY <3>1
    <3>3. /\ Wrapped(head + k - 1) \in DOMAIN ring
          /\ ring[Wrapped(head + k - 1)].stamp = "Live" /\ ring[Wrapped(head + k - 1)].object = o
      BY <1>1, <2>5, <3>2
    <3> QED BY <3>3
  <2>8. there = Window \ taken
    BY <1>1, <2>6, <2>7
  <2> QED BY <1>2, <2>4, <2>8 DEF WindowOfTheLatest, Upwards, Members
<1> QED BY <1>3, <1>4

\* A ring ends each object once, in the order of their making, when it falls
\* out of the window of the latest; what was extracted it leaves alone.
THEOREM LatestStay == ASSUME RingAssumption PROVE RingSpec => [](RingTypeOK /\ WindowOfTheLatest)
<1>1. RingInv /\ made \in 0..MaxMade => RingTypeOK /\ WindowOfTheLatest
  BY WindowIs DEF RingInv
<1> QED BY <1>1, RingInvariance, PTL
-----------------------------------------------------------------------------
(* The table: methods do not overlap.                                      *)

LEMMA LengthIs ==
  ASSUME VaultAssumption, NEW m \in Entries
  PROVE  /\ m \in Nat /\ LengthOf(m) \in 0..Longest
         /\ m + LengthOf(m) <= CodeEnd
         /\ \A f \in Entries : f > m => m + LengthOf(m) <= f
<1> DEFINE behind == {e \in Entries : e > m}
           least == CHOOSE e \in behind : \A f \in behind : e <= f
           len == IF behind = {} THEN Unknown ELSE least - m
<1>1. /\ CodeEnd \in Nat /\ Entries \subseteq Nat /\ m \in Nat
      /\ \A f \in Entries : f < CodeEnd
      /\ Longest \in Nat /\ Unknown \in Nat
      /\ m + Unknown <= CodeEnd \/ behind # {}
  BY DEF VaultAssumption
<1>2. ASSUME behind # {}
      PROVE  least \in behind /\ \A f \in behind : least <= f
  <2>1. \E e \in behind : \A f \in behind : e <= f
    BY <1>1, <1>2, LeastExists
  <2> QED BY <2>1
<1>3. LengthOf(m) = IF len > Longest THEN Longest ELSE len
  BY DEF LengthOf
<1> HIDE DEF least
<1>4. CASE behind = {}
  BY <1>1, <1>3, <1>4
<1>5. CASE behind # {}
  <2>1. /\ least \in Nat /\ least > m /\ least < CodeEnd
        /\ \A f \in Entries : f > m => least <= f
    BY <1>1, <1>2, <1>5
  <2>2. LengthOf(m) = IF least - m > Longest THEN Longest ELSE least - m
    BY <1>3, <1>5
  <2>3. LengthOf(m) \in 0..Longest /\ LengthOf(m) <= least - m
    BY <1>1, <2>1, <2>2
  <2> QED BY <1>1, <2>1, <2>3
<1> QED BY <1>4, <1>5

LEMMA MethodsApart ==
  ASSUME VaultAssumption, NEW m \in Entries, NEW n \in Entries, NEW a \in Int,
         a \in Body(m), a \in Body(n)
  PROVE  m = n
<1>1. /\ m \in Nat /\ LengthOf(m) \in Nat /\ n \in Nat /\ LengthOf(n) \in Nat
      /\ n > m => m + LengthOf(m) <= n
      /\ m > n => n + LengthOf(n) <= m
  BY LengthIs
<1> QED BY <1>1 DEF Body

LEMMA MethodsAreCode ==
  ASSUME VaultAssumption, NEW m \in Entries
  PROVE  Body(m) \subseteq 0..(CodeEnd - 1)
<1>1. m \in Nat /\ LengthOf(m) \in Nat /\ m + LengthOf(m) <= CodeEnd /\ CodeEnd \in Nat
  BY LengthIs DEF VaultAssumption
<1> QED BY <1>1 DEF Body
-----------------------------------------------------------------------------
Row == [where : Entries, len : 0..Longest, at : 0..Vault]

VaultTypes ==
  /\ code \in [0..(CodeEnd - 1) -> Int] /\ bytes \in [0..(Vault - 1) -> Int]
  /\ VaultTypeOK

\* The rows are of the methods that are gone, each in a part of its own of
\* the vault, below the cursor.
RowsAreOfTheGone ==
  /\ gone = {rows[i].where : i \in DOMAIN rows}
  /\ \A i, j \in DOMAIN rows : rows[i].where = rows[j].where => i = j
  /\ \A i \in DOMAIN rows : rows[i].len = LengthOf(rows[i].where)
RowsApart ==
  \A i \in DOMAIN rows : \A k \in 0..(rows[i].len - 1) :
    /\ rows[i].at + k < reached
    /\ \A j \in DOMAIN rows : \A l \in 0..(rows[j].len - 1) :
         i # j => rows[i].at + k # rows[j].at + l
CodeIsThere ==
  \A a \in DOMAIN code : code[a] = IF \E m \in gone : a \in Body(m) THEN Trap ELSE a
BytesAreSaved ==
  \A i \in DOMAIN rows : \A k \in 0..(rows[i].len - 1) :
    bytes[rows[i].at + k] = rows[i].where + k

VaultInv == VaultTypes /\ RowsAreOfTheGone /\ RowsApart /\ CodeIsThere /\ BytesAreSaved

LEMMA RowsAre ==
  ASSUME VaultTypeOK
  PROVE  /\ rows \in Seq(Row) /\ Len(rows) \in Nat /\ DOMAIN rows = 1..Len(rows)
         /\ \A i \in DOMAIN rows : /\ rows[i] \in Row
                                   /\ rows[i].where \in Entries
                                   /\ rows[i].len \in 0..Longest /\ rows[i].at \in 0..Vault
<1>1. rows \in Seq(Row)
  BY DEF VaultTypeOK, Row
<1>2. Len(rows) \in Nat /\ DOMAIN rows = 1..Len(rows) /\ \A i \in DOMAIN rows : rows[i] \in Row
  BY <1>1
<1> QED BY <1>1, <1>2 DEF Row

LEMMA VaultInitInv == ASSUME VaultAssumption, VaultInit PROVE VaultInv
<1>1. CodeEnd \in Nat /\ Vault \in Nat /\ Longest \in Nat
  BY DEF VaultAssumption
<1>2. VaultTypes
  <2>1. code \in [0..(CodeEnd - 1) -> Int] /\ bytes \in [0..(Vault - 1) -> Int]
    BY <1>1 DEF VaultInit
  <2>2. << >> \in Seq(Row)
    OBVIOUS
  <2>3. rows \in Seq(Row) /\ reached \in 0..Vault /\ gone \subseteq Entries /\ halted \in BOOLEAN
    <3>1. rows = << >> /\ reached = 0 /\ gone = {} /\ halted = FALSE
      BY DEF VaultInit
    <3>2. 0 \in 0..Vault
      BY <1>1
    <3>3. halted \in BOOLEAN
      BY <3>1
    <3> QED BY <2>2, <3>1, <3>2, <3>3
  <2>4. VaultTypeOK
    BY <2>3 DEF VaultTypeOK, Row
  <2> QED BY <2>1, <2>4 DEF VaultTypes
<1>3. DOMAIN rows = {}
  BY DEF VaultInit
<1>4. RowsAreOfTheGone /\ RowsApart /\ BytesAreSaved
  BY <1>3 DEF VaultInit, RowsAreOfTheGone, RowsApart, BytesAreSaved
<1>5. CodeIsThere
  BY DEF VaultInit, CodeIsThere
<1> QED BY <1>2, <1>4, <1>5 DEF VaultInv

LEMMA UnloadInv ==
  ASSUME VaultAssumption, VaultInv, NEW m \in Entries, Unload(m)
  PROVE  VaultInv'
<1> DEFINE len == LengthOf(m)
           row == [where |-> m, len |-> len, at |-> reached]
           last == Len(rows) + 1
<1>1. /\ CodeEnd \in Nat /\ Vault \in Nat /\ Longest \in Nat /\ m \in Nat
      /\ len \in 0..Longest /\ m + len <= CodeEnd
  BY LengthIs DEF VaultAssumption
<1>2. /\ rows \in Seq(Row) /\ Len(rows) \in Nat /\ DOMAIN rows = 1..Len(rows)
      /\ \A i \in DOMAIN rows : /\ rows[i] \in Row
                                /\ rows[i].where \in Entries
                                /\ rows[i].len \in 0..Longest /\ rows[i].at \in 0..Vault
  BY RowsAre DEF VaultInv, VaultTypes
<1>3. /\ reached \in 0..Vault /\ reached + len <= Vault
      /\ code \in [0..(CodeEnd - 1) -> Int] /\ bytes \in [0..(Vault - 1) -> Int]
      /\ gone \subseteq Entries /\ halted \in BOOLEAN
      /\ \A i \in DOMAIN rows : rows[i].where # m
  BY DEF Unload, HasRoom, SlotFor, VaultInv, VaultTypes, VaultTypeOK
<1>4. m \notin gone
  BY <1>3 DEF VaultInv, RowsAreOfTheGone
<1>5. row \in Row
  BY <1>1, <1>3 DEF Row
<1>6. /\ rows' \in Seq(Row) /\ DOMAIN rows' = 1..last
      /\ \A i \in 1..Len(rows) : rows'[i] = rows[i]
      /\ rows'[last] = row
  BY <1>2, <1>5 DEF Unload
<1>7. /\ reached' = reached + len /\ gone' = gone \cup {m} /\ halted' = halted
      /\ code' = [a \in DOMAIN code |-> IF a \in Body(m) THEN Trap ELSE code[a]]
      /\ bytes' = [i \in DOMAIN bytes |->
                     IF i \in reached..(reached + len - 1) THEN code[m + i - reached] ELSE bytes[i]]
  BY DEF Unload
<1>8. Body(m) \subseteq DOMAIN code /\ DOMAIN code = 0..(CodeEnd - 1) /\ DOMAIN bytes = 0..(Vault - 1)
  BY <1>3, MethodsAreCode
<1>9. \A a \in Body(m) : code[a] = a
  <2> SUFFICES ASSUME NEW a \in Body(m) PROVE code[a] = a
    OBVIOUS
  <2>1. ~\E n \in gone : a \in Body(n)
    BY <1>1, <1>3, <1>4, <1>8, MethodsApart
  <2> QED BY <1>8, <2>1 DEF VaultInv, CodeIsThere
<1>10. \A k \in 0..(len - 1) : bytes'[reached + k] = m + k
  <2> SUFFICES ASSUME NEW k \in 0..(len - 1) PROVE bytes'[reached + k] = m + k
    OBVIOUS
  <2>1. reached + k \in DOMAIN bytes /\ reached + k \in reached..(reached + len - 1)
    BY <1>1, <1>3, <1>8
  <2>2. m + (reached + k) - reached = m + k /\ m + k \in Body(m)
    BY <1>1, <1>3 DEF Body
  <2>3. bytes'[reached + k] = code[m + (reached + k) - reached]
    BY <1>7, <2>1
  <2> QED BY <1>9, <2>2, <2>3
<1>11. VaultTypes'
  <2>1. code' \in [0..(CodeEnd - 1) -> Int]
    BY <1>3, <1>7, <1>8 DEF Trap
  <2>2. bytes' \in [0..(Vault - 1) -> Int]
    <3>1. \A i \in reached..(reached + len - 1) : m + i - reached \in Body(m)
      BY <1>1, <1>3, SMTT(20) DEF Body
    <3>2. \A i \in reached..(reached + len - 1) : code[m + i - reached] \in Int
      BY <1>3, <1>8, <3>1
    <3> QED BY <1>3, <1>7, <1>8, <3>2
  <2>3. reached' \in 0..Vault /\ gone' \subseteq Entries /\ halted' \in BOOLEAN
    BY <1>1, <1>3, <1>7
  <2> QED BY <1>6, <2>1, <2>2, <2>3 DEF VaultTypes, VaultTypeOK, Row
<1>12. RowsAreOfTheGone'
  <2>1. gone' = {rows'[i].where : i \in DOMAIN rows'}
    <3>1. {rows'[i].where : i \in 1..last} = {rows[i].where : i \in 1..Len(rows)} \cup {m}
      BY <1>2, <1>6
    <3> QED BY <1>2, <1>6, <1>7, <3>1 DEF VaultInv, RowsAreOfTheGone
  <2>2. \A i, j \in DOMAIN rows' : rows'[i].where = rows'[j].where => i = j
    BY <1>2, <1>3, <1>6 DEF VaultInv, RowsAreOfTheGone
  <2>3. \A i \in DOMAIN rows' : rows'[i].len = LengthOf(rows'[i].where)
    BY <1>2, <1>6 DEF VaultInv, RowsAreOfTheGone
  <2> QED BY <2>1, <2>2, <2>3 DEF RowsAreOfTheGone
<1>13. RowsApart'
  <2>1. \A i \in 1..Len(rows) : \A k \in 0..(rows[i].len - 1) :
           /\ rows[i].at + k < reached
           /\ \A j \in 1..Len(rows) : \A l \in 0..(rows[j].len - 1) :
                i # j => rows[i].at + k # rows[j].at + l
    BY <1>2 DEF VaultInv, RowsApart
  <2> SUFFICES ASSUME NEW i \in 1..last, NEW k \in 0..(rows'[i].len - 1)
               PROVE  /\ rows'[i].at + k < reached'
                      /\ \A j \in 1..last : \A l \in 0..(rows'[j].len - 1) :
                           i # j => rows'[i].at + k # rows'[j].at + l
    BY <1>6 DEF RowsApart
  <2>2. /\ last = Len(rows) + 1 /\ rows'[last].at = reached /\ rows'[last].len = len
        /\ \A j \in 1..last : j # last => j \in 1..Len(rows)
    BY <1>2, <1>6
  <2> HIDE DEF last, row, len
  <2>3. ASSUME i = last
        PROVE  /\ rows'[i].at + k < reached'
               /\ \A j \in 1..last : \A l \in 0..(rows'[j].len - 1) :
                    i # j => rows'[i].at + k # rows'[j].at + l
    <3>1. k \in Nat /\ k < len /\ rows'[i].at = reached /\ reached' = reached + len
      BY <1>1, <1>7, <2>2, <2>3
    <3>2. ASSUME NEW j \in 1..Len(rows), NEW l \in 0..(rows[j].len - 1)
          PROVE  rows[j].at + l < reached /\ rows[j].at + l \in Int
      BY <1>2, <2>1, <3>2
    <3>3. ASSUME NEW j \in 1..last, NEW l \in 0..(rows'[j].len - 1), i # j
          PROVE  rows'[i].at + k # rows'[j].at + l
      <4>1. j \in 1..Len(rows) /\ rows'[j] = rows[j]
        BY <1>6, <2>2, <2>3, <3>3
      <4>2. rows[j].at + l < reached /\ rows[j].at + l \in Int
        BY <3>2, <3>3, <4>1
      <4> QED BY <1>3, <3>1, <4>1, <4>2
    <3> QED BY <1>1, <1>3, <3>1, <3>3, SMTT(20)
  <2>4. ASSUME i # last
        PROVE  /\ rows'[i].at + k < reached'
               /\ \A j \in 1..last : \A l \in 0..(rows'[j].len - 1) :
                    i # j => rows'[i].at + k # rows'[j].at + l
    <3>1. i \in 1..Len(rows) /\ rows'[i] = rows[i] /\ k \in 0..(rows[i].len - 1)
      BY <1>6, <2>2, <2>4
    <3>2. /\ rows[i].at + k < reached /\ rows[i].at + k \in Int
          /\ \A j \in 1..Len(rows) : \A l \in 0..(rows[j].len - 1) :
               i # j => rows[i].at + k # rows[j].at + l
      BY <1>2, <2>1, <3>1
    <3>3. ASSUME NEW j \in 1..last, NEW l \in 0..(rows'[j].len - 1), i # j
          PROVE  rows[i].at + k # rows'[j].at + l
      <4>1. CASE j = last
        <5>1. l \in Nat /\ rows'[j].at = reached
          BY <1>1, <2>2, <3>3, <4>1
        <5> QED BY <1>3, <3>2, <5>1
      <4>2. CASE j # last
        <5>1. j \in 1..Len(rows) /\ rows'[j] = rows[j]
          BY <1>6, <2>2, <4>2
        <5> QED BY <3>2, <3>3, <5>1
      <4> QED BY <4>1, <4>2
    <3> QED BY <1>1, <1>3, <1>7, <3>1, <3>2, <3>3
  <2> QED BY <2>3, <2>4
<1>14. CodeIsThere'
  <2> SUFFICES ASSUME NEW a \in DOMAIN code
               PROVE  code'[a] = IF \E n \in gone' : a \in Body(n) THEN Trap ELSE a
    BY <1>7 DEF CodeIsThere, Body, LengthOf
  <2>1. CASE a \in Body(m)
    BY <1>7, <2>1
  <2>2. CASE a \notin Body(m)
    <3>1. code'[a] = code[a]
      BY <1>7, <2>2
    <3>2. (\E n \in gone' : a \in Body(n)) <=> (\E n \in gone : a \in Body(n))
      BY <1>7, <2>2
    <3> QED BY <3>1, <3>2 DEF VaultInv, CodeIsThere
  <2> QED BY <2>1, <2>2
<1>15. BytesAreSaved'
  <2> SUFFICES ASSUME NEW i \in 1..last, NEW k \in 0..(rows'[i].len - 1)
               PROVE  bytes'[rows'[i].at + k] = rows'[i].where + k
    BY <1>6 DEF BytesAreSaved
  <2>1. CASE i = last
    BY <1>6, <1>10, <2>1
  <2>2. CASE i # last
    <3>1. rows'[i] = rows[i] /\ i \in DOMAIN rows /\ k \in 0..(rows[i].len - 1)
      BY <1>2, <1>6, <2>2
    <3>2. rows[i].at + k < reached /\ rows[i].at \in 0..Vault /\ rows[i].len \in 0..Longest
      BY <1>2, <3>1 DEF VaultInv, RowsApart
    <3>3. rows[i].at + k \in DOMAIN bytes /\ ~(rows[i].at + k \in reached..(reached + len - 1))
      <4>1. k \in Nat /\ rows[i].at \in Nat /\ rows[i].at + k < reached /\ reached \in Nat /\ reached <= Vault
        BY <1>1, <1>3, <3>1, <3>2, SMTT(20)
      <4>2. DOMAIN bytes = 0..(Vault - 1) /\ Vault \in Nat /\ len \in Nat
        BY <1>1, <1>8
      <4> HIDE DEF len
      <4> QED BY <4>1, <4>2, SMTT(20)
    <3>4. bytes'[rows[i].at + k] = bytes[rows[i].at + k]
      BY <1>7, <3>3
    <3> QED BY <3>1, <3>4 DEF VaultInv, BytesAreSaved
  <2> QED BY <2>1, <2>2
<1> QED BY <1>11, <1>12, <1>13, <1>14, <1>15 DEF VaultInv

\* A row is forgotten: the others stay, under other numbers.
LEMMA ForgetIs ==
  ASSUME rows \in Seq(Row), NEW i \in DOMAIN rows
  PROVE  LET from(j) == IF j = i THEN Len(rows) ELSE j
         IN  /\ Forget(i) \in Seq(Row) /\ DOMAIN Forget(i) = 1..(Len(rows) - 1)
             /\ \A j \in 1..(Len(rows) - 1) : Forget(i)[j] = rows[from(j)]
<1> DEFINE s == [rows EXCEPT ![i] = rows[Len(rows)]]
           n == Len(rows)
<1>1. n \in Nat /\ DOMAIN rows = 1..n /\ i \in 1..n /\ \A j \in 1..n : rows[j] \in Row
  OBVIOUS
<1>2. \A j \in 1..n : s[j] = rows[IF j = i THEN n ELSE j] /\ s[j] \in Row
  BY <1>1
<1> HIDE DEF s
<1>3. /\ SubSeq(s, 1, n - 1) \in Seq(Row)
      /\ Len(SubSeq(s, 1, n - 1)) = IF 1 <= n - 1 THEN (n - 1) - 1 + 1 ELSE 0
      /\ \A j \in 1..((n - 1) - 1 + 1) : SubSeq(s, 1, n - 1)[j] = s[1 + j - 1]
  <2>1. 1 \in Int /\ n - 1 \in Int /\ \A j \in 1..(n - 1) : s[j] \in Row
    BY <1>1, <1>2
  <2> QED BY <2>1, SubSeqProperties
<1>4. Forget(i) = SubSeq(s, 1, n - 1)
  BY DEF Forget, s
<1> QED BY <1>1, <1>2, <1>3, <1>4

LEMMA ReloadInv ==
  ASSUME VaultAssumption, VaultInv, NEW m \in Entries, Reload(m)
  PROVE  VaultInv'
<1>1. /\ CodeEnd \in Nat /\ Vault \in Nat /\ Longest \in Nat /\ m \in Nat
      /\ LengthOf(m) \in 0..Longest /\ m + LengthOf(m) <= CodeEnd
  BY LengthIs DEF VaultAssumption
<1>2. /\ rows \in Seq(Row) /\ Len(rows) \in Nat /\ DOMAIN rows = 1..Len(rows)
      /\ \A j \in DOMAIN rows : /\ rows[j] \in Row
                                /\ rows[j].where \in Entries
                                /\ rows[j].len \in 0..Longest /\ rows[j].at \in 0..Vault
  BY RowsAre DEF VaultInv, VaultTypes
<1>3. /\ reached \in 0..Vault
      /\ code \in [0..(CodeEnd - 1) -> Int] /\ bytes \in [0..(Vault - 1) -> Int]
      /\ gone \subseteq Entries /\ halted \in BOOLEAN
  BY DEF VaultInv, VaultTypes, VaultTypeOK
<1>4. PICK i \in DOMAIN rows :
        /\ rows[i].where = m
        /\ code' = [a \in DOMAIN code |-> IF a \in m..(m + rows[i].len - 1)
                                          THEN bytes[rows[i].at + a - m] ELSE code[a]]
        /\ reached' = Regained(rows[i])
        /\ rows' = Forget(i)
  BY DEF Reload, SlotFor
<1>5. gone' = gone \ {m} /\ bytes' = bytes /\ halted' = halted
  BY DEF Reload
<1> DEFINE len == rows[i].len
           n == Len(rows) - 1
           from(j) == IF j = i THEN Len(rows) ELSE j
<1>6. /\ rows' \in Seq(Row) /\ DOMAIN rows' = 1..n
      /\ \A j \in 1..n : rows'[j] = rows[from(j)]
  BY <1>2, <1>4, ForgetIs
<1>7. /\ i \in 1..Len(rows) /\ len = LengthOf(m) /\ m \in gone
  BY <1>2, <1>4 DEF VaultInv, RowsAreOfTheGone
<1>8. /\ \A j \in 1..n : from(j) \in DOMAIN rows /\ from(j) # i
      /\ \A j, k \in 1..n : from(j) = from(k) => j = k
      /\ \A k \in DOMAIN rows : k # i => \E j \in 1..n : from(j) = k
  <2>1. \A k \in DOMAIN rows : k # i => IF k = Len(rows) THEN i \in 1..n /\ from(i) = k
                                                           ELSE k \in 1..n /\ from(k) = k
    BY <1>2, <1>7
  <2>2. \A k \in DOMAIN rows : k # i => \E j \in 1..n : from(j) = k
    BY <2>1
  <2> QED BY <1>2, <1>7, <2>2
<1> HIDE DEF from
<1>9. /\ Body(m) = m..(m + len - 1)
      /\ Body(m) \subseteq DOMAIN code /\ DOMAIN code = 0..(CodeEnd - 1)
      /\ DOMAIN bytes = 0..(Vault - 1)
  BY <1>3, <1>7, MethodsAreCode DEF Body
<1>10. \A a \in Body(m) : code'[a] = a
  <2> SUFFICES ASSUME NEW a \in Body(m) PROVE code'[a] = a
    OBVIOUS
  <2>1. a \in Nat /\ a - m \in 0..(len - 1) /\ a \in DOMAIN code
    BY <1>1, <1>7, <1>9, SMTT(20)
  <2>2. bytes[rows[i].at + (a - m)] = m + (a - m)
    BY <1>4, <2>1 DEF VaultInv, BytesAreSaved
  <2>3. code'[a] = bytes[rows[i].at + a - m]
    BY <1>4, <1>9, <2>1
  <2>4. rows[i].at + a - m = rows[i].at + (a - m) /\ m + (a - m) = a
    BY <1>1, <1>2, <2>1
  <2> QED BY <2>2, <2>3, <2>4
<1>11. \A a \in DOMAIN code : a \notin Body(m) => code'[a] = code[a]
  BY <1>4, <1>9
<1>12. \A j \in DOMAIN rows : \A k \in 0..(rows[j].len - 1) :
         /\ rows[j].at + k < reached /\ rows[j].at + k \in Nat
         /\ j # i => \A l \in 0..(len - 1) : rows[j].at + k # rows[i].at + l
  <2> SUFFICES ASSUME NEW j \in DOMAIN rows, NEW k \in 0..(rows[j].len - 1)
               PROVE  /\ rows[j].at + k < reached /\ rows[j].at + k \in Nat
                      /\ j # i => \A l \in 0..(len - 1) : rows[j].at + k # rows[i].at + l
    OBVIOUS
  <2>1. rows[j].at \in Nat /\ k \in Nat
    BY <1>1, <1>2
  <2>2. /\ rows[j].at + k < reached
        /\ j # i => \A l \in 0..(len - 1) : rows[j].at + k # rows[i].at + l
    BY DEF VaultInv, RowsApart
  <2> QED BY <2>1, <2>2
<1>13. /\ reached' \in 0..Vault
       /\ \A j \in DOMAIN rows \ {i} : \A k \in 0..(rows[j].len - 1) : rows[j].at + k < reached'
  <2>1. CASE Len(rows) = 1
    <3>1. reached' = 0 /\ DOMAIN rows \ {i} = {}
      BY <1>2, <1>4, <1>7, <2>1 DEF Regained
    <3> QED BY <1>1, <3>1
  <2>2. CASE Len(rows) # 1 /\ rows[i].at + len = reached
    <3>1. reached' = rows[i].at
      BY <1>4, <2>2 DEF Regained
    <3>2. rows[i].at \in 0..Vault /\ len \in Nat
      BY <1>1, <1>2, <1>4
    <3>3. ASSUME NEW j \in DOMAIN rows \ {i}, NEW k \in 0..(rows[j].len - 1),
                 ~(rows[j].at + k < rows[i].at)
          PROVE  FALSE
      <4>1. (rows[j].at + k) - rows[i].at \in 0..(len - 1)
        <5>1. rows[j].at + k \in Nat /\ rows[j].at + k < reached
          BY <1>12, <3>3
        <5> HIDE DEF len
        <5> QED BY <2>2, <3>2, <3>3, <5>1
      <4>2. rows[i].at + ((rows[j].at + k) - rows[i].at) = rows[j].at + k
        BY <1>12, <3>2, <3>3
      <4> QED BY <1>12, <3>3, <4>1, <4>2
    <3> QED BY <3>1, <3>2, <3>3
  <2>3. CASE Len(rows) # 1 /\ rows[i].at + len # reached
    <3>1. reached' = reached
      BY <1>4, <2>3 DEF Regained
    <3> QED BY <1>3, <1>12, <3>1
  <2> QED BY <2>1, <2>2, <2>3
<1>14. VaultTypes'
  <2>1. code' \in [0..(CodeEnd - 1) -> Int]
    <3>1. DOMAIN code' = DOMAIN code /\ code' = [a \in DOMAIN code |-> code'[a]]
      BY <1>4
    <3>2. \A a \in DOMAIN code : code'[a] \in Int
      BY <1>3, <1>9, <1>10, <1>11
    <3> QED BY <1>9, <3>1, <3>2
  <2> QED BY <1>3, <1>5, <1>6, <1>13, <2>1 DEF VaultTypes, VaultTypeOK, Row
<1>15. RowsAreOfTheGone'
  <2>1. gone' = {rows'[j].where : j \in DOMAIN rows'}
    <3>1. ASSUME NEW e PROVE e \in gone' <=> \E j \in 1..n : rows'[j].where = e
      <4>1. e \in gone <=> \E k \in DOMAIN rows : rows[k].where = e
        BY DEF VaultInv, RowsAreOfTheGone
      <4>2. \A k \in DOMAIN rows : rows[k].where = m => k = i
        BY <1>4 DEF VaultInv, RowsAreOfTheGone
      <4>3. e \in gone' <=> \E k \in DOMAIN rows : k # i /\ rows[k].where = e
        BY <1>4, <1>5, <4>1, <4>2
      <4>4. ASSUME NEW k \in DOMAIN rows, k # i, rows[k].where = e
            PROVE  \E j \in 1..n : rows'[j].where = e
        <5>1. PICK j \in 1..n : from(j) = k
          BY <1>8, <4>4
        <5> QED BY <1>6, <4>4, <5>1
      <4>5. ASSUME NEW j \in 1..n, rows'[j].where = e
            PROVE  \E k \in DOMAIN rows : k # i /\ rows[k].where = e
        <5>1. from(j) \in DOMAIN rows /\ from(j) # i /\ rows[from(j)].where = e
          BY <1>6, <1>8, <4>5
        <5> QED BY <5>1
      <4> QED BY <4>3, <4>4, <4>5
    <3> QED BY <1>6, <3>1
  <2>2. \A j, k \in DOMAIN rows' : rows'[j].where = rows'[k].where => j = k
    BY <1>6, <1>8, SMTT(20) DEF VaultInv, RowsAreOfTheGone
  <2>3. \A j \in DOMAIN rows' : rows'[j].len = LengthOf(rows'[j].where)
    BY <1>6, <1>8 DEF VaultInv, RowsAreOfTheGone
  <2> QED BY <2>1, <2>2, <2>3 DEF RowsAreOfTheGone
<1>16. RowsApart'
  <2> SUFFICES ASSUME NEW j \in 1..n, NEW k \in 0..(rows'[j].len - 1)
               PROVE  /\ rows'[j].at + k < reached'
                      /\ \A h \in 1..n : \A l \in 0..(rows'[h].len - 1) :
                           j # h => rows'[j].at + k # rows'[h].at + l
    BY <1>6 DEF RowsApart
  <2>1. from(j) \in DOMAIN rows \ {i} /\ rows'[j] = rows[from(j)]
    BY <1>6, <1>8
  <2>2. rows'[j].at + k < reached'
    BY <1>13, <2>1
  <2>3. ASSUME NEW h \in 1..n, NEW l \in 0..(rows'[h].len - 1), j # h
        PROVE  rows'[j].at + k # rows'[h].at + l
    <3>1. from(h) \in DOMAIN rows /\ rows'[h] = rows[from(h)] /\ from(j) # from(h)
      BY <1>6, <1>8, <2>3
    <3> QED BY <2>1, <2>3, <3>1 DEF VaultInv, RowsApart
  <2> QED BY <2>2, <2>3
<1>17. CodeIsThere'
  <2> SUFFICES ASSUME NEW a \in DOMAIN code
               PROVE  code'[a] = IF \E e \in gone' : a \in Body(e) THEN Trap ELSE a
    BY <1>4 DEF CodeIsThere, Body, LengthOf
  <2>1. CASE a \in Body(m)
    <3>1. ASSUME NEW e \in gone', a \in Body(e) PROVE FALSE
      <4>1. e \in Entries /\ e # m /\ a \in Int
        BY <1>3, <1>5, <1>9, <3>1
      <4> QED BY <2>1, <3>1, <4>1, MethodsApart
    <3> QED BY <1>10, <2>1, <3>1
  <2>2. CASE a \notin Body(m)
    <3>1. (\E e \in gone' : a \in Body(e)) <=> (\E e \in gone : a \in Body(e))
      BY <1>5, <2>2
    <3> QED BY <1>11, <2>2, <3>1 DEF VaultInv, CodeIsThere
  <2> QED BY <2>1, <2>2
<1>18. BytesAreSaved'
  BY <1>5, <1>6, <1>8 DEF VaultInv, BytesAreSaved
<1> QED BY <1>14, <1>15, <1>16, <1>17, <1>18 DEF VaultInv

LEMMA VaultInvariance == ASSUME VaultAssumption PROVE VaultSpec => []VaultInv
<1>1. VaultInit => VaultInv
  BY VaultInitInv
<1>2. VaultInv /\ [VaultNext]_vaultVars => VaultInv'
  <2> SUFFICES ASSUME VaultInv, [VaultNext]_vaultVars PROVE VaultInv'
    OBVIOUS
  <2>1. ASSUME NEW m \in Entries, Refuse(m)
        PROVE  VaultInv'
    <3>1. UNCHANGED <<code, bytes, rows, reached, gone>> /\ halted' = TRUE
      BY <2>1 DEF Refuse
    <3>2. VaultTypes'
      <4>1. halted' \in BOOLEAN
        BY <3>1
      <4> QED BY <3>1, <4>1 DEF VaultInv, VaultTypes, VaultTypeOK
    <3> QED BY <3>1, <3>2 DEF VaultInv, RowsAreOfTheGone, RowsApart,
                              CodeIsThere, BytesAreSaved, Body, LengthOf
  <2>2. CASE UNCHANGED vaultVars
    <3>1. UNCHANGED <<code, bytes, rows, reached, gone, halted>>
      BY <2>2 DEF vaultVars
    <3>2. VaultTypes'
      BY <3>1 DEF VaultInv, VaultTypes, VaultTypeOK
    <3> QED BY <3>1, <3>2 DEF VaultInv, RowsAreOfTheGone, RowsApart,
                              CodeIsThere, BytesAreSaved, Body, LengthOf
  <2> QED BY <2>1, <2>2, UnloadInv, ReloadInv DEF VaultNext
<1> QED BY <1>1, <1>2, PTL DEF VaultSpec

\* However methods are unloaded and reloaded, what is there has its own bytes
\* and the vault has those of what is gone.
THEOREM NoCodeIsLost == ASSUME VaultAssumption PROVE VaultSpec => [](VaultTypeOK /\ CodeIsKept)
<1>1. VaultInv => VaultTypeOK /\ CodeIsKept
  <2> SUFFICES ASSUME VaultInv PROVE VaultTypeOK /\ CodeIsKept
    OBVIOUS
  <2>1. VaultTypeOK /\ CodeIsThere
    BY DEF VaultInv, VaultTypes
  <2>2. ASSUME NEW m \in gone
        PROVE  \E i \in SlotFor(m) :
                 \A k \in 0..(rows[i].len - 1) : bytes[rows[i].at + k] = m + k
    <3>1. PICK i \in DOMAIN rows : rows[i].where = m
      BY DEF VaultInv, RowsAreOfTheGone
    <3>2. i \in SlotFor(m)
      BY <3>1 DEF SlotFor
    <3> QED BY <3>1, <3>2 DEF VaultInv, BytesAreSaved
  <2> QED BY <2>1, <2>2 DEF CodeIsThere, CodeIsKept
<1> QED BY <1>1, VaultInvariance, PTL
-----------------------------------------------------------------------------
(* Weak references: the list of an object, as nodes s[1], ..., s[k].       *)

Chained(links, p, k, s) ==
  /\ \A i, j \in 1..k : s[i] = s[j] => i = j
  /\ \A n \in Nodes : links.refers[n] = p <=> \E i \in 1..k : s[i] = n
  /\ links.first[p] = IF k = 0 THEN Null ELSE s[1]
  /\ \A i \in 1..k : links.after[s[i]] = IF i = k THEN Null ELSE s[i + 1]

\* Every list ends, and holds the nodes that refer to its object.
Linkage(links) ==
  /\ links \in Links
  /\ \A n \in Nodes : links.refers[n] = Null => links.after[n] = Null
  /\ \A p \in Places : \E k \in 0..Cardinality(Nodes) : \E s \in [1..k -> Nodes] : Chained(links, p, k, s)

LEMMA Apart ==
  ASSUME WeakAssumption
  PROVE  /\ Null \notin Places /\ Null \notin Nodes
         /\ IsFiniteSet(Nodes) /\ Cardinality(Nodes) \in Nat
BY FS_CardinalityType DEF WeakAssumption

LEMMA LinksAre ==
  ASSUME NEW links \in Links
  PROVE  /\ links.first \in [Places -> Nodes \cup {Null}]
         /\ links.refers \in [Nodes -> Places \cup {Null}]
         /\ links.after \in [Nodes -> Nodes \cup {Null}]
         /\ DOMAIN links.first = Places /\ DOMAIN links.refers = Nodes /\ DOMAIN links.after = Nodes
BY DEF Links

LEMMA ChainFits ==
  ASSUME WeakAssumption, NEW k \in Nat, NEW s \in [1..k -> Nodes],
         \A i, j \in 1..k : s[i] = s[j] => i = j
  PROVE  k \in 0..Cardinality(Nodes)
<1>1. s \in Injection(1..k, Nodes)
  BY DEF Injection, IsInjective
<1>2. Cardinality(1..k) <= Cardinality(Nodes)
  BY <1>1, FS_Injection, Apart
<1>3. Cardinality(1..k) = k
  BY FS_Interval
<1> QED BY <1>2, <1>3, Apart

\* A walk meets the nodes of the list, one after another.
LEMMA WalkIs ==
  ASSUME WeakAssumption, NEW links \in Links, NEW p \in Places,
         NEW k \in 0..Cardinality(Nodes), NEW s \in [1..k -> Nodes], Chained(links, p, k, s)
  PROVE  \A j \in 0..Cardinality(Nodes) : Walk(links, p)[j] = IF j < k THEN s[j + 1] ELSE Null
<1> DEFINE N == Cardinality(Nodes)
           step(f, j) == IF j = 0 THEN links.first[p]
                         ELSE IF f[j - 1] = Null THEN Null ELSE links.after[f[j - 1]]
           g == [j \in 0..N |-> IF j < k THEN s[j + 1] ELSE Null]
           w == Walk(links, p)
<1>1. N \in Nat /\ k \in Nat /\ k <= N /\ Null \notin Nodes /\ \A j \in 1..k : s[j] \in Nodes
  BY Apart
<1>2. w = CHOOSE f : f = [j \in 0..N |-> step(f, j)]
  BY DEF Walk
<1> HIDE DEF N, w
<1>3. ASSUME NEW j \in 0..N PROVE g[j] = step(g, j)
  <2>1. CASE j = 0
    BY <1>1, <2>1 DEF Chained
  <2>2. CASE j # 0 /\ j - 1 < k
    <3>1. /\ j \in 1..k /\ j - 1 \in 0..N /\ g[j - 1] = s[(j - 1) + 1] /\ (j - 1) + 1 = j
          /\ j < k <=> j # k
      BY <1>1, <2>2
    <3>2. g[j - 1] = s[j] /\ s[j] # Null
      BY <1>1, <3>1
    <3>3. links.after[s[j]] = IF j = k THEN Null ELSE s[j + 1]
      BY <3>1 DEF Chained
    <3> HIDE DEF g
    <3>4. step(g, j) = links.after[s[j]]
      BY <2>2, <3>2
    <3>5. g[j] = IF j < k THEN s[j + 1] ELSE Null
      BY DEF g
    <3> QED BY <3>1, <3>3, <3>4, <3>5
  <2>3. CASE j # 0 /\ ~(j - 1 < k)
    <3>1. j - 1 \in 0..N /\ ~(j < k)
      BY <1>1, <2>3
    <3>2. g[j - 1] = Null /\ g[j] = Null
      BY <2>3, <3>1
    <3> HIDE DEF g
    <3> QED BY <2>3, <3>2
  <2> QED BY <2>1, <2>2, <2>3
<1>4. \E f : f = [j \in 0..N |-> step(f, j)]
  <2>1. g = [j \in 0..N |-> step(g, j)]
    BY <1>3
  <2> QED BY <2>1
<1>5. w = [j \in 0..N |-> step(w, j)]
  BY <1>2, <1>4
<1>5a. \A j \in 0..N : w[j] = step(w, j)
  <2> HIDE DEF step
  <2> DEFINE v == [j \in 0..N |-> step(w, j)]
  <2>1. \A j \in 0..N : v[j] = step(w, j)
    OBVIOUS
  <2> HIDE DEF v
  <2>2. w = v
    BY <1>5 DEF v
  <2> QED BY <2>1, <2>2
<1>6. \A j \in 0..N : w[j] = g[j]
  <2> DEFINE T == {j \in 0..N : w[j] # g[j]}
  <2> SUFFICES ASSUME T # {} PROVE FALSE
    OBVIOUS
  <2>1. T \in SUBSET Nat
    BY <1>1
  <2>2. PICK j \in T : \A i \in T : j <= i
    BY <2>1, LeastExists
  <2>3. j \in 0..N /\ w[j] # g[j]
    OBVIOUS
  <2>4. w[j] = step(w, j) /\ g[j] = step(g, j)
    BY <1>3, <1>5a, <2>3
  <2>5. j # 0
    BY <2>3, <2>4
  <2>6. j - 1 \in 0..N /\ j - 1 \notin T
    BY <1>1, <2>2, <2>3, <2>5
  <2> HIDE DEF g
  <2>7. w[j - 1] = g[j - 1]
    BY <2>6
  <2> QED BY <2>3, <2>4, <2>5, <2>7
<1> QED BY <1>6 DEF N, w

LEMMA ListedIs ==
  ASSUME WeakAssumption, NEW links, Linkage(links), NEW p \in Places
  PROVE  /\ Listed(links, p) = {n \in Nodes : links.refers[n] = p}
         /\ Walk(links, p)[Cardinality(Nodes)] = Null
<1>0. PICK k \in 0..Cardinality(Nodes) : \E s \in [1..k -> Nodes] : Chained(links, p, k, s)
  BY DEF Linkage
<1>1. PICK s \in [1..k -> Nodes] : Chained(links, p, k, s)
  BY <1>0
<1>2. links \in Links
  BY DEF Linkage
<1>3. \A j \in 0..Cardinality(Nodes) : Walk(links, p)[j] = IF j < k THEN s[j + 1] ELSE Null
  BY <1>1, <1>2, WalkIs
<1>4. Cardinality(Nodes) \in Nat /\ Null \notin Nodes /\ \A j \in 1..k : s[j] \in Nodes
  BY Apart
<1>5. Walk(links, p)[Cardinality(Nodes)] = Null
  BY <1>3, <1>4
<1>6. Listed(links, p) = {s[j] : j \in 1..k}
  <2>1. ASSUME NEW n \in Listed(links, p) PROVE n \in {s[j] : j \in 1..k}
    <3>1. PICK j \in 0..Cardinality(Nodes) : n = Walk(links, p)[j] /\ n # Null
      BY DEF Listed
    <3>2. j < k /\ n = s[j + 1]
      BY <1>3, <3>1
    <3>3. j + 1 \in 1..k
      BY <1>4, <3>2
    <3> QED BY <3>2, <3>3
  <2>2. ASSUME NEW j \in 1..k PROVE s[j] \in Listed(links, p)
    <3>1. j - 1 \in 0..Cardinality(Nodes) /\ j - 1 < k /\ (j - 1) + 1 = j
      BY <1>4
    <3>2. Walk(links, p)[j - 1] = s[j]
      BY <1>3, <3>1
    <3> QED BY <1>4, <3>1, <3>2 DEF Listed
  <2> QED BY <2>1, <2>2
<1>7. \A n \in Nodes : links.refers[n] = p <=> \E i \in 1..k : s[i] = n
  BY <1>1 DEF Chained
<1> QED BY <1>4, <1>5, <1>6, <1>7
-----------------------------------------------------------------------------
(* What the operations do to the lists.                                    *)

\* Of a node on no list, nothing changes.
LEMMA UnlinkedIs ==
  ASSUME WeakAssumption, NEW links, Linkage(links), NEW n \in Nodes
  PROVE  LET p == links.refers[n]
             u == Unlinked(links, n)
         IN  /\ u \in Links
             /\ \A m \in Nodes : u.refers[m] = IF m = n THEN Null ELSE links.refers[m]
             /\ p = Null => u.first = links.first /\ \A m \in Nodes : u.after[m] = links.after[m]
             /\ p # Null =>
                  /\ p \in Places
                  /\ \A q \in Places : u.first[q] = IF q = p /\ links.first[p] = n
                                                    THEN links.after[n] ELSE links.first[q]
                  /\ \A m \in Nodes : u.after[m] =
                       IF m = n THEN Null
                       ELSE IF links.first[p] # n /\ links.refers[m] = p /\ links.after[m] = n
                            THEN links.after[n] ELSE links.after[m]
<1> DEFINE p == links.refers[n]
           before == {b \in Listed(links, p) : links.after[b] = n}
           skipped == [links EXCEPT !.after =
                         [m \in Nodes |-> IF m \in before THEN links.after[n] ELSE @[m]]]
           headed == [links EXCEPT !.first[p] = links.after[n]]
           Empty(l) == [l EXCEPT !.refers = [m \in Nodes |-> IF m \in {n} THEN Null ELSE @[m]],
                                 !.after = [m \in Nodes |-> IF m \in {n} THEN Null ELSE @[m]]]
<1>1. /\ links \in Links /\ p \in Places \cup {Null} /\ Null \notin Places /\ Null \notin Nodes
      /\ links.first \in [Places -> Nodes \cup {Null}]
      /\ links.refers \in [Nodes -> Places \cup {Null}]
      /\ links.after \in [Nodes -> Nodes \cup {Null}]
      /\ links.refers[n] = Null => links.after[n] = Null
  BY Apart, LinksAre DEF Linkage
<1>2. Unlinked(links, n) =
        IF p = Null THEN Empty(links)
        ELSE IF links.first[p] = n THEN Empty(headed) ELSE Empty(skipped)
  <2>1. CASE p = Null
    BY <2>1 DEF Unlinked, Blanked
  <2>2. CASE p # Null /\ links.first[p] = n
    BY <2>2 DEF Unlinked, Blanked
  <2>3. CASE p # Null /\ links.first[p] # n
    BY <2>3 DEF Unlinked, Blanked
  <2> QED BY <2>1, <2>2, <2>3
<1>3. ASSUME NEW l \in Links
      PROVE  /\ Empty(l) \in Links /\ Empty(l).first = l.first
             /\ \A m \in Nodes : /\ Empty(l).refers[m] = IF m = n THEN Null ELSE l.refers[m]
                                 /\ Empty(l).after[m] = IF m = n THEN Null ELSE l.after[m]
  BY DEF Links
<1>4. CASE p = Null
  <2>1. Unlinked(links, n) = Empty(links)
    BY <1>2, <1>4
  <2> HIDE DEF Empty
  <2> QED BY <1>1, <1>3, <1>4, <2>1
<1>5. CASE p # Null /\ links.first[p] = n
  <2>1. Unlinked(links, n) = Empty(headed)
    BY <1>2, <1>5
  <2>2. headed \in Links /\ headed.refers = links.refers /\ headed.after = links.after
    BY <1>1, <1>5 DEF Links
  <2>3. \A q \in Places : headed.first[q] = IF q = p THEN links.after[n] ELSE links.first[q]
    BY <1>1, <1>5 DEF Links
  <2> HIDE DEF Empty, headed
  <2> QED BY <1>1, <1>3, <1>5, <2>1, <2>2, <2>3
<1>6. CASE p # Null /\ links.first[p] # n
  <2>1. Unlinked(links, n) = Empty(skipped)
    BY <1>2, <1>6
  <2>2. \A m \in Nodes : m \in before <=> links.refers[m] = p /\ links.after[m] = n
    BY <1>1, <1>6, ListedIs
  <2> HIDE DEF before
  <2>3. skipped \in Links /\ skipped.refers = links.refers /\ skipped.first = links.first
    BY <1>1, <1>6 DEF Links
  <2>4. \A m \in Nodes : skipped.after[m] = IF m \in before THEN links.after[n] ELSE links.after[m]
    BY <1>1, <1>6 DEF Links
  <2> HIDE DEF Empty, skipped
  <2> QED BY <1>1, <1>3, <1>6, <2>1, <2>2, <2>3, <2>4
<1> QED BY <1>1, <1>4, <1>5, <1>6

\* The chain without its i-th node.
LEMMA UnlinkedChain ==
  ASSUME WeakAssumption, NEW links, Linkage(links), NEW n \in Nodes, links.refers[n] # Null
  PROVE  \E k \in 0..Cardinality(Nodes) : \E s \in [1..k -> Nodes] :
           Chained(Unlinked(links, n), links.refers[n], k, s)
<1> DEFINE p == links.refers[n]
           u == Unlinked(links, n)
           N == Cardinality(Nodes)
<1>1. /\ p \in Places /\ Null \notin Places /\ Null \notin Nodes /\ N \in Nat
      /\ links.after \in [Nodes -> Nodes \cup {Null}]
  BY Apart, LinksAre DEF Linkage
<1>2. /\ \A m \in Nodes : u.refers[m] = IF m = n THEN Null ELSE links.refers[m]
      /\ u.first[p] = IF links.first[p] = n THEN links.after[n] ELSE links.first[p]
      /\ \A m \in Nodes : u.after[m] =
           IF m = n THEN Null
           ELSE IF links.first[p] # n /\ links.refers[m] = p /\ links.after[m] = n
                THEN links.after[n] ELSE links.after[m]
  BY <1>1, UnlinkedIs
<1>3. PICK k \in 0..N : \E s \in [1..k -> Nodes] : Chained(links, p, k, s)
  BY <1>1 DEF Linkage
<1>4. PICK s \in [1..k -> Nodes] : Chained(links, p, k, s)
  BY <1>3
<1> HIDE DEF u, N, p
<1>5. /\ \A i, j \in 1..k : s[i] = s[j] => i = j
      /\ \A m \in Nodes : links.refers[m] = p <=> \E i \in 1..k : s[i] = m
      /\ links.first[p] = IF k = 0 THEN Null ELSE s[1]
      /\ \A i \in 1..k : links.after[s[i]] = IF i = k THEN Null ELSE s[i + 1]
      /\ \A i \in 1..k : s[i] \in Nodes
  BY <1>4 DEF Chained
<1>6. PICK i \in 1..k : s[i] = n
  BY <1>5 DEF p
<1> DEFINE t == [j \in 1..(k - 1) |-> IF j < i THEN s[j] ELSE s[j + 1]]
<1>7. /\ k - 1 \in 0..N /\ k \in Nat /\ i \in Nat /\ i >= 1 /\ i <= k
      /\ \A j \in 1..(k - 1) : j \in 1..k /\ j + 1 \in 1..k
  BY <1>1
<1>8. t \in [1..(k - 1) -> Nodes]
  BY <1>5, <1>7
<1>9. \A j \in 1..(k - 1) : t[j] = IF j < i THEN s[j] ELSE s[j + 1]
  OBVIOUS
<1> HIDE DEF t
<1>10. \A a, b \in 1..(k - 1) : t[a] = t[b] => a = b
  <2> SUFFICES ASSUME NEW a \in 1..(k - 1), NEW b \in 1..(k - 1), t[a] = t[b] PROVE a = b
    OBVIOUS
  <2> DEFINE from(j) == IF j < i THEN j ELSE j + 1
  <2>1. from(a) \in 1..k /\ from(b) \in 1..k /\ t[a] = s[from(a)] /\ t[b] = s[from(b)]
    BY <1>7, <1>9
  <2>2. from(a) = from(b)
    <3> HIDE DEF from
    <3> QED BY <1>5, <2>1
  <2> QED BY <1>7, <2>2
<1>11. \A m \in Nodes : u.refers[m] = p <=> \E j \in 1..(k - 1) : t[j] = m
  <2> SUFFICES ASSUME NEW m \in Nodes PROVE u.refers[m] = p <=> \E j \in 1..(k - 1) : t[j] = m
    OBVIOUS
  <2>1. CASE m = n
    <3>1. u.refers[m] # p
      BY <1>1, <1>2, <2>1
    <3>2. \A j \in 1..(k - 1) : t[j] # n
      BY <1>5, <1>6, <1>7, <1>9
    <3> QED BY <2>1, <3>1, <3>2
  <2>2. CASE m # n
    <3>1. u.refers[m] = p <=> \E j \in 1..k : s[j] = m
      BY <1>2, <1>5, <2>2
    <3>2. ASSUME NEW j \in 1..k, s[j] = m PROVE \E e \in 1..(k - 1) : t[e] = m
      <4>1. j # i
        BY <1>6, <2>2, <3>2
      <4>2. CASE j < i
        BY <1>7, <1>9, <3>2, <4>2
      <4>3. CASE j > i
        <5>1. j - 1 \in 1..(k - 1) /\ ~(j - 1 < i) /\ (j - 1) + 1 = j
          BY <1>7, <4>3
        <5>2. t[j - 1] = m
          BY <1>9, <3>2, <5>1
        <5> QED BY <5>1, <5>2
      <4> QED BY <1>7, <4>1, <4>2, <4>3
    <3>3. ASSUME NEW e \in 1..(k - 1), t[e] = m PROVE \E j \in 1..k : s[j] = m
      BY <1>7, <1>9, <3>3
    <3> QED BY <3>1, <3>2, <3>3
  <2> QED BY <2>1, <2>2
<1>12. u.first[p] = IF k - 1 = 0 THEN Null ELSE t[1]
  <2>1. CASE i = 1
    <3>1. u.first[p] = links.after[n] /\ links.after[n] = IF 1 = k THEN Null ELSE s[1 + 1]
      BY <1>2, <1>5, <1>6, <1>7, <2>1
    <3>2. k - 1 # 0 => 1 \in 1..(k - 1) /\ t[1] = s[1 + 1]
      BY <1>7, <1>9, <2>1
    <3> QED BY <1>7, <3>1, <3>2
  <2>2. CASE i # 1
    <3>1. links.first[p] = s[1] /\ s[1] # n /\ k # 0 /\ k - 1 # 0
      BY <1>5, <1>6, <1>7, <2>2
    <3>2. 1 \in 1..(k - 1) /\ t[1] = s[1]
      BY <1>7, <1>9, <2>2, <3>1
    <3> QED BY <1>2, <3>1, <3>2
  <2> QED BY <2>1, <2>2
<1>13. ASSUME NEW j \in 1..(k - 1) PROVE u.after[t[j]] = IF j = k - 1 THEN Null ELSE t[j + 1]
  <2>0. /\ links.first[p] = s[1]
        /\ \A e \in 1..k : links.refers[s[e]] = p
        /\ \A e \in 1..k : e # i => s[e] # n
    BY <1>5, <1>6, <1>7
  <2>1. CASE j < i - 1
    <3>1. t[j] = s[j] /\ t[j + 1] = s[j + 1] /\ j + 1 # i /\ j # i /\ j # k /\ j # k - 1
      BY <1>7, <1>9, <2>1
    <3>2. links.after[s[j]] = s[j + 1] /\ s[j + 1] # n /\ s[j] # n /\ s[j] \in Nodes
      BY <1>5, <1>7, <2>0, <3>1
    <3> QED BY <1>2, <3>1, <3>2
  <2>2. CASE j = i - 1
    <3>1. t[j] = s[j] /\ j + 1 = i /\ j # i /\ j # k /\ i # 1 /\ (j # k - 1 => t[j + 1] = s[i + 1])
      BY <1>7, <1>9, <2>2
    <3>2. links.after[s[j]] = n /\ s[j] # n /\ s[j] \in Nodes /\ s[1] # n
      <4>1. links.after[s[j]] = s[j + 1]
        BY <1>5, <1>7, <3>1
      <4> QED BY <1>5, <1>6, <1>7, <2>0, <3>1, <4>1
    <3>3. u.after[s[j]] = links.after[n]
      BY <1>2, <1>7, <2>0, <3>2
    <3>4. links.after[n] = IF i = k THEN Null ELSE s[i + 1]
      BY <1>5, <1>6
    <3> QED BY <1>7, <3>1, <3>3, <3>4
  <2>3. CASE j > i - 1
    <3>1. /\ t[j] = s[j + 1] /\ j + 1 # i /\ j + 1 \in 1..k
          /\ j # k - 1 => j + 1 # k /\ j + 1 \in 1..(k - 1) /\ t[j + 1] = s[(j + 1) + 1]
          /\ j = k - 1 => j + 1 = k
      BY <1>7, <1>9, <2>3
    <3>2. s[j + 1] # n /\ s[j + 1] \in Nodes /\ links.after[s[j + 1]] # n
      <4>1. links.after[s[j + 1]] = IF j + 1 = k THEN Null ELSE s[(j + 1) + 1]
        BY <1>5, <3>1
      <4>2. j + 1 # k => (j + 1) + 1 \in 1..k /\ (j + 1) + 1 # i
        BY <1>7, <2>3
      <4> QED BY <1>1, <1>5, <2>0, <3>1, <4>1, <4>2
    <3>3. u.after[s[j + 1]] = links.after[s[j + 1]]
      BY <1>2, <3>2
    <3>4. links.after[s[j + 1]] = IF j + 1 = k THEN Null ELSE s[(j + 1) + 1]
      BY <1>5, <3>1
    <3> QED BY <3>1, <3>3, <3>4
  <2> QED BY <1>7, <2>1, <2>2, <2>3
<1>14. Chained(u, p, k - 1, t)
  BY <1>10, <1>11, <1>12, <1>13 DEF Chained
<1> QED BY <1>7, <1>8, <1>14 DEF u, N, p

LEMMA UnlinkedLinkage ==
  ASSUME WeakAssumption, NEW links, Linkage(links), NEW n \in Nodes
  PROVE  Linkage(Unlinked(links, n))
<1> DEFINE p == links.refers[n]
           u == Unlinked(links, n)
<1>1. /\ links \in Links /\ p \in Places \cup {Null} /\ Null \notin Places /\ Null \notin Nodes
      /\ \A m \in Nodes : links.refers[m] = Null => links.after[m] = Null
  BY Apart, LinksAre DEF Linkage
<1>2. /\ u \in Links
      /\ \A m \in Nodes : u.refers[m] = IF m = n THEN Null ELSE links.refers[m]
      /\ p = Null => u.first = links.first /\ \A m \in Nodes : u.after[m] = links.after[m]
      /\ p # Null =>
           /\ \A q \in Places : u.first[q] = IF q = p /\ links.first[p] = n
                                             THEN links.after[n] ELSE links.first[q]
           /\ \A m \in Nodes : u.after[m] =
                IF m = n THEN Null
                ELSE IF links.first[p] # n /\ links.refers[m] = p /\ links.after[m] = n
                     THEN links.after[n] ELSE links.after[m]
  BY UnlinkedIs
<1>3. p # Null => \E k \in 0..Cardinality(Nodes) : \E s \in [1..k -> Nodes] : Chained(u, p, k, s)
  BY UnlinkedChain
<1> HIDE DEF u
<1>4. \A m \in Nodes : u.refers[m] = Null => u.after[m] = Null
  <2> SUFFICES ASSUME NEW m \in Nodes, u.refers[m] = Null PROVE u.after[m] = Null
    OBVIOUS
  <2>1. CASE m = n
    BY <1>1, <1>2, <2>1
  <2>2. CASE m # n
    <3>1. links.refers[m] = Null /\ links.after[m] = Null
      BY <1>1, <1>2, <2>2
    <3> QED BY <1>1, <1>2, <2>2, <3>1
  <2> QED BY <2>1, <2>2
<1>5. ASSUME NEW q \in Places, q # p
      PROVE  \E k \in 0..Cardinality(Nodes) : \E s \in [1..k -> Nodes] : Chained(u, q, k, s)
  <2>1. PICK k \in 0..Cardinality(Nodes) : \E s \in [1..k -> Nodes] : Chained(links, q, k, s)
    BY DEF Linkage
  <2>2. PICK s \in [1..k -> Nodes] : Chained(links, q, k, s)
    BY <2>1
  <2>3. /\ \A i, j \in 1..k : s[i] = s[j] => i = j
        /\ \A m \in Nodes : links.refers[m] = q <=> \E i \in 1..k : s[i] = m
        /\ links.first[q] = IF k = 0 THEN Null ELSE s[1]
        /\ \A i \in 1..k : links.after[s[i]] = IF i = k THEN Null ELSE s[i + 1]
        /\ \A i \in 1..k : s[i] \in Nodes
    BY <2>2 DEF Chained
  <2>4. \A m \in Nodes : u.refers[m] = q <=> links.refers[m] = q
    BY <1>1, <1>2, <1>5
  <2>5. u.first[q] = links.first[q]
    BY <1>2, <1>5
  <2>6. \A i \in 1..k : u.after[s[i]] = links.after[s[i]]
    <3> SUFFICES ASSUME NEW i \in 1..k PROVE u.after[s[i]] = links.after[s[i]]
      OBVIOUS
    <3>1. s[i] \in Nodes /\ links.refers[s[i]] = q
      BY <2>3
    <3> QED BY <1>2, <1>5, <3>1
  <2>7. Chained(u, q, k, s)
    BY <2>3, <2>4, <2>5, <2>6 DEF Chained
  <2> QED BY <2>7
<1>6. Linkage(u)
  BY <1>1, <1>2, <1>3, <1>4, <1>5 DEF Linkage
<1> QED BY <1>6 DEF u

LEMMA LinkedLinkage ==
  ASSUME WeakAssumption, NEW links, Linkage(links), NEW n \in Nodes, NEW p \in Places,
         links.refers[n] = Null
  PROVE  /\ Linkage(Linked(links, n, p))
         /\ \A m \in Nodes : Linked(links, n, p).refers[m] = IF m = n THEN p ELSE links.refers[m]
<1> DEFINE u == Linked(links, n, p)
<1>1. /\ links \in Links /\ Null \notin Places /\ Null \notin Nodes
      /\ links.first \in [Places -> Nodes \cup {Null}]
      /\ links.refers \in [Nodes -> Places \cup {Null}]
      /\ links.after \in [Nodes -> Nodes \cup {Null}]
      /\ \A m \in Nodes : links.refers[m] = Null => links.after[m] = Null
  BY Apart, LinksAre DEF Linkage
<1>2. /\ u \in Links
      /\ \A m \in Nodes : /\ u.refers[m] = IF m = n THEN p ELSE links.refers[m]
                          /\ u.after[m] = IF m = n THEN links.first[p] ELSE links.after[m]
      /\ \A q \in Places : u.first[q] = IF q = p THEN n ELSE links.first[q]
  BY <1>1 DEF Linked, Links
<1> HIDE DEF u
<1>3. \A m \in Nodes : u.refers[m] = Null => u.after[m] = Null
  BY <1>1, <1>2
<1>4. ASSUME NEW q \in Places
      PROVE  \E k \in 0..Cardinality(Nodes) : \E s \in [1..k -> Nodes] : Chained(u, q, k, s)
  <2>1. PICK k \in 0..Cardinality(Nodes) : \E s \in [1..k -> Nodes] : Chained(links, q, k, s)
    BY DEF Linkage
  <2>2. PICK s \in [1..k -> Nodes] : Chained(links, q, k, s)
    BY <2>1
  <2>3. /\ \A i, j \in 1..k : s[i] = s[j] => i = j
        /\ \A m \in Nodes : links.refers[m] = q <=> \E i \in 1..k : s[i] = m
        /\ links.first[q] = IF k = 0 THEN Null ELSE s[1]
        /\ \A i \in 1..k : links.after[s[i]] = IF i = k THEN Null ELSE s[i + 1]
        /\ \A i \in 1..k : s[i] \in Nodes /\ s[i] # n
        /\ k \in Nat
    BY <1>1, <2>2, Apart DEF Chained
  <2>4. CASE q # p
    <3>1. Chained(u, q, k, s)
      BY <1>1, <1>2, <2>3, <2>4 DEF Chained
    <3> QED BY <3>1
  <2>5. CASE q = p
    <3> DEFINE t == [j \in 1..(k + 1) |-> IF j = 1 THEN n ELSE s[j - 1]]
    <3>1. \A j \in 1..(k + 1) : j # 1 => j - 1 \in 1..k /\ (j - 1) + 1 = j
      BY <2>3
    <3>2. t \in [1..(k + 1) -> Nodes]
      BY <2>3, <3>1
    <3>3. 1 \in 1..(k + 1) /\ t[1] = n /\ \A j \in 1..(k + 1) : j # 1 => t[j] = s[j - 1]
      BY <2>3
    <3> HIDE DEF t
    <3>4. \A a, b \in 1..(k + 1) : t[a] = t[b] => a = b
      <4> SUFFICES ASSUME NEW a \in 1..(k + 1), NEW b \in 1..(k + 1), t[a] = t[b] PROVE a = b
        OBVIOUS
      <4>1. CASE a = 1 \/ b = 1
        BY <2>3, <3>1, <3>3, <4>1
      <4>2. CASE a # 1 /\ b # 1
        <5>1. a - 1 = b - 1
          BY <2>3, <3>1, <3>3, <4>2
        <5> QED BY <5>1
      <4> QED BY <4>1, <4>2
    <3>5. k + 1 \in 0..Cardinality(Nodes)
      BY <2>3, <3>2, <3>4, ChainFits
    <3>6. \A m \in Nodes : u.refers[m] = p <=> \E j \in 1..(k + 1) : t[j] = m
      <4> SUFFICES ASSUME NEW m \in Nodes PROVE u.refers[m] = p <=> \E j \in 1..(k + 1) : t[j] = m
        OBVIOUS
      <4>1. CASE m = n
        BY <1>2, <3>3, <4>1
      <4>2. CASE m # n
        <5>1. u.refers[m] = p <=> \E i \in 1..k : s[i] = m
          BY <1>2, <2>3, <2>5, <4>2
        <5>2. ASSUME NEW i \in 1..k, s[i] = m PROVE \E j \in 1..(k + 1) : t[j] = m
          <6>1. i + 1 \in 1..(k + 1) /\ i + 1 # 1 /\ (i + 1) - 1 = i
            BY <2>3
          <6>2. t[i + 1] = m
            BY <3>3, <5>2, <6>1
          <6> QED BY <6>1, <6>2
        <5>3. ASSUME NEW j \in 1..(k + 1), t[j] = m PROVE \E i \in 1..k : s[i] = m
          BY <3>1, <3>3, <4>2, <5>3
        <5> QED BY <5>1, <5>2, <5>3
      <4> QED BY <4>1, <4>2
    <3>7. u.first[p] = IF k + 1 = 0 THEN Null ELSE t[1]
      BY <1>2, <2>3, <3>3
    <3>8. ASSUME NEW j \in 1..(k + 1) PROVE u.after[t[j]] = IF j = k + 1 THEN Null ELSE t[j + 1]
      <4>1. CASE j = 1
        <5>1. u.after[t[j]] = links.first[p]
          BY <1>2, <3>3, <4>1
        <5>2. k # 0 => 1 + 1 \in 1..(k + 1) /\ 1 + 1 # 1 /\ (1 + 1) - 1 = 1
          BY <2>3
        <5>3. k # 0 => t[1 + 1] = s[1]
          BY <3>3, <5>2
        <5> QED BY <2>3, <2>5, <4>1, <5>1, <5>3
      <4>2. CASE j # 1
        <5>1. t[j] = s[j - 1] /\ j - 1 \in 1..k /\ (j - 1) + 1 = j
          BY <3>1, <3>3, <4>2
        <5>2. u.after[t[j]] = links.after[s[j - 1]]
          BY <1>2, <2>3, <5>1
        <5>3. links.after[s[j - 1]] = IF j - 1 = k THEN Null ELSE s[j]
          BY <2>3, <5>1
        <5>4. j # k + 1 => j + 1 \in 1..(k + 1) /\ j + 1 # 1 /\ (j + 1) - 1 = j /\ j - 1 # k
          BY <2>3, <4>2
        <5>5. j # k + 1 => t[j + 1] = s[j]
          BY <3>3, <5>4
        <5> QED BY <2>3, <5>2, <5>3, <5>4, <5>5
      <4> QED BY <4>1, <4>2
    <3>9. Chained(u, q, k + 1, t)
      BY <2>5, <3>4, <3>6, <3>7, <3>8 DEF Chained
    <3> QED BY <3>2, <3>5, <3>9
  <2> QED BY <2>4, <2>5
<1>5. Linkage(u)
  BY <1>2, <1>3, <1>4 DEF Linkage
<1> QED BY <1>2, <1>5 DEF u

LEMMA NullifiedLinkage ==
  ASSUME WeakAssumption, NEW links, Linkage(links), NEW p \in Places
  PROVE  /\ Linkage(Nullified(links, p))
         /\ \A m \in Nodes : Nullified(links, p).refers[m] =
                               IF links.refers[m] = p THEN Null ELSE links.refers[m]
<1> DEFINE u == Nullified(links, p)
           emptied == Listed(links, p)
<1>1. /\ links \in Links /\ Null \notin Places /\ Null \notin Nodes /\ Cardinality(Nodes) \in Nat
      /\ links.first \in [Places -> Nodes \cup {Null}]
      /\ links.refers \in [Nodes -> Places \cup {Null}]
      /\ links.after \in [Nodes -> Nodes \cup {Null}]
      /\ \A m \in Nodes : links.refers[m] = Null => links.after[m] = Null
  BY Apart, LinksAre DEF Linkage
<1>2. emptied = {m \in Nodes : links.refers[m] = p}
  BY ListedIs
<1> HIDE DEF emptied
<1>3. /\ u \in Links
      /\ \A m \in Nodes : /\ u.refers[m] = IF m \in emptied THEN Null ELSE links.refers[m]
                          /\ u.after[m] = IF m \in emptied THEN Null ELSE links.after[m]
      /\ \A q \in Places : u.first[q] = IF q = p THEN Null ELSE links.first[q]
  BY <1>1 DEF Nullified, Blanked, Links, emptied
<1> HIDE DEF u
<1>4. \A m \in Nodes : u.refers[m] = Null => u.after[m] = Null
  BY <1>1, <1>3
<1>5. ASSUME NEW q \in Places
      PROVE  \E k \in 0..Cardinality(Nodes) : \E s \in [1..k -> Nodes] : Chained(u, q, k, s)
  <2>1. CASE q = p
    <3> DEFINE s == [j \in 1..0 |-> Null]
    <3>1. s \in [1..0 -> Nodes] /\ 0 \in 0..Cardinality(Nodes) /\ 1..0 = {}
      BY <1>1
    <3>2. \A m \in Nodes : u.refers[m] # p
      BY <1>1, <1>2, <1>3
    <3> HIDE DEF s
    <3>3. Chained(u, q, 0, s)
      BY <1>3, <2>1, <3>1, <3>2 DEF Chained
    <3> QED BY <3>1, <3>3
  <2>2. CASE q # p
    <3>1. PICK k \in 0..Cardinality(Nodes) : \E s \in [1..k -> Nodes] : Chained(links, q, k, s)
      BY DEF Linkage
    <3>2. PICK s \in [1..k -> Nodes] : Chained(links, q, k, s)
      BY <3>1
    <3>3. /\ \A i, j \in 1..k : s[i] = s[j] => i = j
          /\ \A m \in Nodes : links.refers[m] = q <=> \E i \in 1..k : s[i] = m
          /\ links.first[q] = IF k = 0 THEN Null ELSE s[1]
          /\ \A i \in 1..k : links.after[s[i]] = IF i = k THEN Null ELSE s[i + 1]
          /\ \A i \in 1..k : s[i] \in Nodes
      BY <3>2 DEF Chained
    <3>4. \A i \in 1..k : s[i] \notin emptied
      BY <1>2, <2>2, <3>3
    <3>5. \A m \in Nodes : u.refers[m] = q <=> links.refers[m] = q
      BY <1>1, <1>2, <1>3, <2>2
    <3>6. Chained(u, q, k, s)
      BY <1>3, <2>2, <3>3, <3>4, <3>5 DEF Chained
    <3> QED BY <3>6
  <2> QED BY <2>1, <2>2
<1>6. Linkage(u)
  BY <1>3, <1>4, <1>5 DEF Linkage
<1> QED BY <1>2, <1>3, <1>6 DEF u
-----------------------------------------------------------------------------
(* An object's own nodes, one field after another.                         *)

LEMMA FieldsAre ==
  ASSUME WeakAssumption, NEW p \in Places
  PROVE  /\ Cardinality(Weak[p]) \in Nat
         /\ \A k \in 1..Cardinality(Weak[p]) : <<p, Field(p, k)>> \in Nodes
         /\ \A n \in Nodes : Holder(n) = p => \E k \in 1..Cardinality(Weak[p]) : n = <<p, Field(p, k)>>
<1> DEFINE W == Weak[p]
           C == Cardinality(W)
           Below(f) == {g \in W : g < f}
           own == {n \in Nodes : Holder(n) = p}
<1>1. W \in SUBSET Nat
  BY DEF WeakAssumption
<1>2. \A f \in W : <<p, f>> \in Nodes
  BY DEF Nodes
<1>3. \A n \in Nodes : Holder(n) = p => n[2] \in W /\ n = <<p, n[2]>>
  BY DEF Nodes, Holder
<1> HIDE DEF W
<1>4. IsFiniteSet(W) /\ C \in Nat
  <2> DEFINE inj == [f \in W |-> <<p, f>>]
  <2>1. inj \in [W -> Nodes]
    BY <1>2
  <2>2. \A f, g \in W : inj[f] = inj[g] => f = g
    OBVIOUS
  <2>3. inj \in Injection(W, Nodes)
    BY <2>1, <2>2 DEF Injection, IsInjective
  <2>4. IsFiniteSet(W)
    BY <2>3, FS_Injection, Apart
  <2> QED BY <2>4, FS_CardinalityType
<1>5. \A f \in W : Cardinality(Below(f)) \in 0..(C - 1)
  <2> TAKE f \in W
  <2>1. IsFiniteSet(W \ {f}) /\ Cardinality(W \ {f}) = C - 1
    BY <1>4, FS_RemoveElement
  <2>2. Below(f) \in SUBSET (W \ {f})
    BY <1>1
  <2>3. IsFiniteSet(Below(f)) /\ Cardinality(Below(f)) <= C - 1
    BY <2>1, <2>2, FS_Subset
  <2>4. Cardinality(Below(f)) \in Nat
    BY <2>3, FS_CardinalityType
  <2> QED BY <1>4, <2>3, <2>4
<1>6. \A f, g \in W : f < g => Cardinality(Below(f)) < Cardinality(Below(g))
  <2> SUFFICES ASSUME NEW f \in W, NEW g \in W, f < g
               PROVE  Cardinality(Below(f)) < Cardinality(Below(g))
    OBVIOUS
  <2>1. IsFiniteSet(Below(g))
    BY <1>4, FS_Subset
  <2>2. Below(f) \in SUBSET Below(g) /\ f \in Below(g) /\ f \notin Below(f)
    <3>1. f \in Nat /\ g \in Nat /\ ~(f < f)
      BY <1>1
    <3>2. \A h \in W : h < f => h < g
      BY <1>1, <3>1
    <3> QED BY <3>1, <3>2
  <2>3. /\ Cardinality(Below(f)) <= Cardinality(Below(g))
        /\ Cardinality(Below(f)) # Cardinality(Below(g))
    BY <2>1, <2>2, FS_Subset
  <2>4. Cardinality(Below(f)) \in Nat /\ Cardinality(Below(g)) \in Nat
    BY <1>5, <1>4
  <2> QED BY <2>3, <2>4
<1>7. \A f, g \in W : Cardinality(Below(f)) = Cardinality(Below(g)) => f = g
  <2> SUFFICES ASSUME NEW f \in W, NEW g \in W, Cardinality(Below(f)) = Cardinality(Below(g)), f # g
               PROVE  FALSE
    OBVIOUS
  <2>1. f < g \/ g < f
    BY <1>1
  <2>2. Cardinality(Below(f)) \in Int /\ Cardinality(Below(g)) \in Int
    BY <1>4, <1>5
  <2> HIDE DEF Below
  <2> QED BY <1>6, <2>1, <2>2
<1>8. \A k \in 1..C : \E f \in W : Cardinality(Below(f)) = k - 1
  <2> DEFINE rank == [f \in W |-> Cardinality(Below(f))]
  <2>1. rank \in [W -> 0..(C - 1)]
    BY <1>5
  <2>2. rank \in Injection(W, 0..(C - 1))
    BY <1>7, <2>1 DEF Injection, IsInjective
  <2>3. IsFiniteSet(0..(C - 1)) /\ Cardinality(0..(C - 1)) = C
    <3> HIDE DEF C
    <3>1. C \in Nat /\ 0 \in Int /\ C - 1 \in Int
      BY <1>4
    <3>2. /\ IsFiniteSet(0..(C - 1))
          /\ Cardinality(0..(C - 1)) = IF 0 <= C - 1 THEN (C - 1) - 0 + 1 ELSE 0
      BY <3>1, FS_Interval
    <3> QED BY <3>1, <3>2
  <2>4. rank \in Surjection(W, 0..(C - 1))
    <3> DEFINE R == 0..(C - 1)
    <3>1. rank \in Injection(W, R) /\ IsFiniteSet(R) /\ Cardinality(W) = Cardinality(R)
      BY <2>2, <2>3
    <3> HIDE DEF R, rank
    <3>2. rank \in Surjection(W, R)
      BY <3>1, FS_Injection
    <3> QED BY <3>2 DEF R
  <2>5. \A j \in 0..(C - 1) : \E f \in W : rank[f] = j
    BY <2>4 DEF Surjection
  <2> SUFFICES ASSUME NEW k \in 1..C PROVE \E f \in W : Cardinality(Below(f)) = k - 1
    OBVIOUS
  <2>6. k - 1 \in 0..(C - 1)
    BY <1>4
  <2>7. PICK f \in W : rank[f] = k - 1
    BY <2>5, <2>6
  <2> QED BY <2>7
<1> HIDE DEF Below, C
<1>9. \A k : Field(p, k) = CHOOSE f \in W : Cardinality(Below(f)) = k - 1
  BY DEF Field, Below, W
<1>10. \A k \in 1..C : Field(p, k) \in W
  <2> TAKE k \in 1..C
  <2>1. \E f \in W : Cardinality(Below(f)) = k - 1
    BY <1>8
  <2> QED BY <1>9, <2>1
<1>11. ASSUME NEW f \in W PROVE \E k \in 1..C : Field(p, k) = f
  <2> DEFINE k == Cardinality(Below(f)) + 1
  <2>1. k \in 1..C /\ Cardinality(Below(f)) = k - 1
    BY <1>4, <1>5 DEF C
  <2> HIDE DEF k
  <2>2. Field(p, k) \in W /\ Cardinality(Below(Field(p, k))) = k - 1
    BY <1>9, <2>1
  <2>3. Field(p, k) = f
    BY <1>7, <2>1, <2>2
  <2> QED BY <2>1, <2>3
<1> QED BY <1>2, <1>3, <1>4, <1>10, <1>11 DEF W, C

LEMMA OwnUnlinkedLinkage ==
  ASSUME WeakAssumption, NEW links, Linkage(links), NEW p \in Places
  PROVE  /\ Linkage(OwnUnlinked(links, p))
         /\ \A m \in Nodes : OwnUnlinked(links, p).refers[m] =
                               IF Holder(m) = p THEN Null ELSE links.refers[m]
<1> DEFINE C == Cardinality(Weak[p])
           node(k) == <<p, Field(p, k)>>
           step(f, k) == IF k = 0 THEN links ELSE Unlinked(f[k - 1], node(k))
           left == CHOOSE f : f = [k \in 0..C |-> step(f, k)]
           Goes(g, c) == \A k \in 0..c : g[k] = step(g, k)
<1>1. /\ C \in Nat /\ \A k \in 1..C : node(k) \in Nodes
      /\ \A n \in Nodes : Holder(n) = p => \E k \in 1..C : n = node(k)
      /\ \A k : Holder(node(k)) = p
  BY FieldsAre DEF Holder
<1>2. OwnUnlinked(links, p) = left[C]
  BY DEF OwnUnlinked
<1> HIDE DEF C, node
<1>3. \A c \in Nat : \E g : Goes(g, c)
  <2> DEFINE T == {c \in Nat : ~\E g : Goes(g, c)}
  <2> SUFFICES ASSUME T # {} PROVE FALSE
    OBVIOUS
  <2>1. PICK c \in T : \A d \in T : c <= d
    BY LeastExists
  <2>2. c \in Nat /\ ~\E g : Goes(g, c)
    OBVIOUS
  <2>3. CASE c = 0
    <3> DEFINE g == [k \in 0..0 |-> links]
    <3>1. \A k \in 0..0 : g[k] = step(g, k)
      OBVIOUS
    <3> QED BY <2>2, <2>3, <3>1
  <2>4. CASE c # 0
    <3>1. c - 1 \in Nat /\ c - 1 \notin T
      <4> HIDE DEF T
      <4>1. c - 1 \in Nat /\ ~(c <= c - 1)
        BY <2>2, <2>4
      <4> QED BY <2>1, <4>1
    <3>2. PICK h : Goes(h, c - 1)
      BY <3>1
    <3> DEFINE g == [k \in 0..c |-> IF k = c THEN Unlinked(h[c - 1], node(c)) ELSE h[k]]
    <3>3. ASSUME NEW k \in 0..c PROVE g[k] = step(g, k)
      <4>1. CASE k = c
        <5>1. c - 1 \in 0..c /\ c - 1 # c
          BY <2>2, <3>1
        <5>2. g[k] = Unlinked(h[c - 1], node(c)) /\ g[c - 1] = h[c - 1]
          BY <4>1, <5>1
        <5> HIDE DEF g
        <5> QED BY <2>4, <4>1, <5>2
      <4>2. CASE k # c /\ k # 0
        <5>1. k \in 0..(c - 1) /\ k - 1 \in 0..c /\ k - 1 # c
          BY <2>2, <4>2
        <5>2. h[k] = step(h, k)
          BY <3>2, <5>1
        <5>3. g[k] = h[k] /\ g[k - 1] = h[k - 1]
          BY <4>2, <5>1
        <5> HIDE DEF g
        <5> QED BY <4>2, <5>2, <5>3
      <4>3. CASE k # c /\ k = 0
        <5>1. 0 \in 0..(c - 1)
          BY <2>2, <2>4
        <5>2. h[0] = links
          BY <3>2, <5>1
        <5> QED BY <4>3, <5>2
      <4> QED BY <4>1, <4>2, <4>3
    <3>4. Goes(g, c)
      BY <3>3
    <3> QED BY <2>2, <3>4
  <2> QED BY <2>3, <2>4
<1>4. left = [k \in 0..C |-> step(left, k)]
  <2>1. PICK g : Goes(g, C)
    BY <1>1, <1>3
  <2> DEFINE f == [k \in 0..C |-> g[k]]
  <2>2. ASSUME NEW k \in 0..C PROVE f[k] = step(f, k)
    <3>1. f[k] = g[k] /\ g[k] = step(g, k)
      BY <2>1
    <3>2. k # 0 => k - 1 \in 0..C
      BY <1>1
    <3>3. k # 0 => f[k - 1] = g[k - 1]
      BY <3>2
    <3> HIDE DEF f
    <3> QED BY <3>1, <3>3
  <2>3. f = [k \in 0..C |-> step(f, k)]
    BY <2>2
  <2> HIDE DEF f
  <2> QED BY <2>3
<1> HIDE DEF left
<1>5. \A k \in 0..C : left[k] = step(left, k)
  <2> HIDE DEF step
  <2> DEFINE v == [k \in 0..C |-> step(left, k)]
  <2>1. \A k \in 0..C : v[k] = step(left, k)
    OBVIOUS
  <2> HIDE DEF v
  <2>2. left = v
    BY <1>4 DEF v
  <2> QED BY <2>1, <2>2
<1> DEFINE Done(k) == /\ Linkage(left[k])
                      /\ \A m \in Nodes : left[k].refers[m] =
                           IF \E j \in 1..k : m = node(j) THEN Null ELSE links.refers[m]
<1>6. \A k \in 0..C : Done(k)
  <2> DEFINE T == {k \in 0..C : ~Done(k)}
  <2> SUFFICES ASSUME T # {} PROVE FALSE
    OBVIOUS
  <2>1. T \in SUBSET Nat
    BY <1>1
  <2> HIDE DEF Done
  <2>2. PICK k \in T : \A j \in T : k <= j
    BY <2>1, LeastExists
  <2>3. k \in 0..C /\ ~Done(k)
    OBVIOUS
  <2>4. CASE k = 0
    <3>1. left[0] = links
      BY <1>5, <2>3, <2>4
    <3>2. Done(0)
      BY <3>1 DEF Done
    <3> QED BY <2>3, <2>4, <3>2
  <2>5. CASE k # 0
    <3>1. k - 1 \in 0..C /\ k \in 1..C /\ k - 1 \notin T
      BY <1>1, <2>2, <2>3, <2>5
    <3>2. Done(k - 1)
      BY <3>1
    <3>3. left[k] = Unlinked(left[k - 1], node(k)) /\ node(k) \in Nodes /\ Linkage(left[k - 1])
      BY <1>1, <1>5, <2>5, <3>1, <3>2 DEF Done
    <3>4. Linkage(left[k])
      BY <3>3, UnlinkedLinkage
    <3>5. \A m \in Nodes : left[k].refers[m] = IF m = node(k) THEN Null ELSE left[k - 1].refers[m]
      <4>1. PICK l : l = left[k - 1]
        OBVIOUS
      <4>2. \A m \in Nodes : Unlinked(l, node(k)).refers[m] = IF m = node(k) THEN Null ELSE l.refers[m]
        BY <3>3, <4>1, UnlinkedIs
      <4> QED BY <3>3, <4>1, <4>2
    <3>6. \A m \in Nodes : (\E j \in 1..k : m = node(j)) <=> (m = node(k) \/ \E j \in 1..(k - 1) : m = node(j))
      <4>1. 1..k = 1..(k - 1) \cup {k}
        BY <1>1, <3>1
      <4> QED BY <4>1
    <3>7. \A m \in Nodes : left[k].refers[m] =
             IF \E j \in 1..k : m = node(j) THEN Null ELSE links.refers[m]
      BY <3>2, <3>5, <3>6 DEF Done
    <3> QED BY <2>3, <3>4, <3>7 DEF Done
  <2> QED BY <2>4, <2>5
<1>7. Done(C)
  BY <1>1, <1>6
<1>8. \A m \in Nodes : (\E j \in 1..C : m = node(j)) <=> Holder(m) = p
  BY <1>1
<1> QED BY <1>2, <1>7, <1>8
-----------------------------------------------------------------------------
(* Weak references, step by step.                                          *)

\* A node of an object that is there refers to what the program means, any
\* other to nothing; and nobody refers to an object that has begun to die.
WeakInv ==
  /\ WeakTypeOK
  /\ Linkage(Now)
  /\ \A i, j \in DOMAIN dying : dying[i] = dying[j] => i = j
  /\ \A i \in DOMAIN dying : dying[i] \notin living
  /\ \A n \in Nodes : /\ refers[n] = IF Holder(n) \in Present THEN meant[n] ELSE Null
                      /\ refers[n] \in living \cup {Null}

\* What a step writes is what the three words are.
LEMMA BecomeIs ==
  ASSUME NEW links, Linkage(links), Become(links)
  PROVE  /\ Now' = links /\ Linkage(Now)' /\ (Now \in Links)'
         /\ \A n \in Nodes : refers'[n] = links.refers[n]
<1>1. links = [first |-> links.first, refers |-> links.refers, after |-> links.after]
  BY DEF Linkage, Links
<1>2. Now' = links
  BY <1>1 DEF Become, Now
<1>3. Linkage(Now)' /\ (Now \in Links)'
  BY <1>2 DEF Linkage, Links, Chained
<1> QED BY <1>2, <1>3 DEF Become

LEMMA WeakStarts ==
  ASSUME WeakAssumption, WeakInit
  PROVE  WeakInv
<1>1. Now \in Links /\ WeakTypeOK
  BY DEF WeakInit, Now, Links, WeakTypeOK
<1>2. \A p \in Places : \E k \in 0..Cardinality(Nodes) : \E s \in [1..k -> Nodes] : Chained(Now, p, k, s)
  <2> TAKE p \in Places
  <2> DEFINE s == [j \in 1..0 |-> Null]
  <2>1. s \in [1..0 -> Nodes] /\ 0 \in 0..Cardinality(Nodes) /\ 1..0 = {}
    BY Apart
  <2> HIDE DEF s
  <2>2. Chained(Now, p, 0, s)
    BY <2>1, Apart DEF Chained, WeakInit, Now
  <2> QED BY <2>1, <2>2
<1>3. Linkage(Now)
  BY <1>1, <1>2 DEF Linkage, WeakInit, Now
<1>4. DOMAIN dying = {}
  BY DEF WeakInit
<1> QED BY <1>1, <1>3, <1>4 DEF WeakInv, WeakInit, Present

\* A place that is free has an empty list and empty nodes.
LEMMA NewKeeps ==
  ASSUME WeakAssumption, WeakInv, NEW p \in Places, New(p)
  PROVE  WeakInv'
<1> DEFINE own == {n \in Nodes : Holder(n) = p}
           u == [Blanked(Now, own) EXCEPT !.first[p] = Null]
<1>1. /\ Null \notin Places /\ Null \notin Nodes
      /\ first \in [Places -> Nodes \cup {Null}]
      /\ refers \in [Nodes -> Places \cup {Null}]
      /\ after \in [Nodes -> Nodes \cup {Null}]
  BY Apart DEF WeakInv, WeakTypeOK, Now, Links
<1>2. p \notin Present /\ Become(u) /\ dying' = dying /\ living' = living \cup {p}
  BY DEF New
<1>3. \A n \in Nodes : refers[n] # p
  BY <1>1, <1>2 DEF WeakInv, Present
<1>4. first[p] = Null
  <2>1. PICK k \in 0..Cardinality(Nodes) : \E s \in [1..k -> Nodes] : Chained(Now, p, k, s)
    BY DEF WeakInv, Linkage
  <2>2. PICK s \in [1..k -> Nodes] : Chained(Now, p, k, s)
    BY <2>1
  <2>3. k = 0
    <3> SUFFICES ASSUME k # 0 PROVE FALSE
      OBVIOUS
    <3>1. 1 \in 1..k
      BY Apart
    <3>2. s[1] \in Nodes /\ refers[s[1]] = p
      BY <2>2, <3>1 DEF Chained, Now
    <3> QED BY <1>3, <3>2
  <2> QED BY <2>2, <2>3 DEF Chained, Now
<1>5. \A n \in own : refers[n] = Null /\ after[n] = Null
  BY <1>2 DEF WeakInv, Linkage, Now
<1>6. /\ u \in Links
      /\ \A n \in Nodes : /\ u.refers[n] = IF n \in own THEN Null ELSE refers[n]
                          /\ u.after[n] = IF n \in own THEN Null ELSE after[n]
      /\ \A q \in Places : u.first[q] = IF q = p THEN Null ELSE first[q]
  BY <1>1 DEF Blanked, Links, Now
<1> HIDE DEF u
<1>7. u.first = first /\ u.refers = refers /\ u.after = after
  <2>1. /\ u.first \in [Places -> Nodes \cup {Null}]
        /\ u.refers \in [Nodes -> Places \cup {Null}]
        /\ u.after \in [Nodes -> Nodes \cup {Null}]
    BY <1>6, LinksAre
  <2> QED BY <1>1, <1>4, <1>5, <1>6, <2>1
<1>8. Linkage(u)
  <2>1. u = Now
    BY <1>6, <1>7 DEF Links, Now
  <2> QED BY <2>1 DEF WeakInv
<1>9. Linkage(Now)' /\ (Now \in Links)' /\ \A n \in Nodes : refers'[n] = refers[n]
  BY <1>2, <1>7, <1>8, BecomeIs
<1>10. meant' = [n \in Nodes |-> IF n \in own THEN Null ELSE meant[n]]
  BY DEF New
<1>11. WeakTypeOK'
  BY <1>2, <1>9, <1>10 DEF WeakInv, WeakTypeOK
<1>12. Present' = Present \cup {p}
  BY <1>2 DEF Present
<1>13. \A i \in DOMAIN dying : dying[i] # p
  BY <1>2 DEF Present
<1>14. \A n \in Nodes : /\ refers'[n] = IF Holder(n) \in Present' THEN meant'[n] ELSE Null
                        /\ refers'[n] \in living' \cup {Null}
  BY <1>2, <1>5, <1>9, <1>10, <1>12 DEF WeakInv
<1>15. \A i, j \in DOMAIN dying : dying[i] = dying[j] => i = j
  BY DEF WeakInv
<1>16. \A i \in DOMAIN dying : dying[i] \notin living
  BY DEF WeakInv
<1> QED BY <1>2, <1>9, <1>11, <1>13, <1>14, <1>15, <1>16 DEF WeakInv

\* A node leaves the list it is on before it goes on another.
LEMMA WriteKeeps ==
  ASSUME WeakAssumption, ToDying = FALSE, WeakInv,
         NEW n \in Nodes, NEW p \in Places \cup {Null}, Write(n, p)
  PROVE  WeakInv'
<1> DEFINE unlinked == Unlinked(Now, n)
           u == IF p = Null THEN unlinked ELSE Linked(unlinked, n, p)
<1>1. /\ Null \notin Places /\ Linkage(Now)
      /\ Holder(n) \in Present /\ p \in {Null} \cup living
      /\ Become(u) /\ living' = living /\ dying' = dying
      /\ meant' = [meant EXCEPT ![n] = p]
      /\ meant \in [Nodes -> Places \cup {Null}]
  BY Apart DEF WeakInv, WeakTypeOK, Write, Targets
<1>2. /\ Linkage(unlinked)
      /\ \A m \in Nodes : unlinked.refers[m] = IF m = n THEN Null ELSE refers[m]
  <2>1. Now.refers = refers
    BY DEF Now
  <2> QED BY <1>1, <2>1, UnlinkedLinkage, UnlinkedIs
<1> HIDE DEF unlinked
<1>3. Linkage(u) /\ \A m \in Nodes : u.refers[m] = IF m = n THEN p ELSE refers[m]
  <2>1. CASE p = Null
    BY <1>2, <2>1
  <2>2. CASE p # Null
    <3>1. p \in Places /\ unlinked.refers[n] = Null
      BY <1>2, <2>2
    <3>2. /\ Linkage(Linked(unlinked, n, p))
          /\ \A m \in Nodes : Linked(unlinked, n, p).refers[m] = IF m = n THEN p ELSE unlinked.refers[m]
      BY <1>2, <3>1, LinkedLinkage
    <3> QED BY <1>2, <2>2, <3>2
  <2> QED BY <2>1, <2>2
<1> HIDE DEF u
<1>4. /\ Linkage(Now)' /\ (Now \in Links)'
      /\ \A m \in Nodes : refers'[m] = IF m = n THEN p ELSE refers[m]
  BY <1>1, <1>3, BecomeIs
<1>5. Present' = Present
  BY <1>1 DEF Present
<1>6. WeakTypeOK'
  BY <1>1, <1>4 DEF WeakInv, WeakTypeOK
<1>7. \A m \in Nodes : /\ refers'[m] = IF Holder(m) \in Present' THEN meant'[m] ELSE Null
                       /\ refers'[m] \in living' \cup {Null}
  BY <1>1, <1>4, <1>5 DEF WeakInv
<1> QED BY <1>1, <1>4, <1>6, <1>7 DEF WeakInv

\* Who begins to die is nobody's any more.
LEMMA BeginKeeps ==
  ASSUME WeakAssumption, Ways \subseteq Emptying, WeakInv, NEW p \in Places, NEW way \in Ways, Begin(p, way)
  PROVE  WeakInv'
<1> DEFINE u == Nullified(Now, p)
<1>1. /\ Null \notin Places /\ Linkage(Now) /\ p \in living
      /\ living' = living \ {p} /\ dying' = Append(dying, p)
      /\ Become(u)
      /\ meant' = [n \in Nodes |-> IF meant[n] = p THEN Null ELSE meant[n]]
      /\ meant \in [Nodes -> Places \cup {Null}]
      /\ dying \in Seq(Places)
  BY Apart DEF WeakInv, WeakTypeOK, Begin
<1>2. Linkage(u) /\ \A m \in Nodes : u.refers[m] = IF refers[m] = p THEN Null ELSE refers[m]
  <2>1. Now.refers = refers
    BY DEF Now
  <2> QED BY <1>1, <2>1, NullifiedLinkage
<1> HIDE DEF u
<1>3. /\ Linkage(Now)' /\ (Now \in Links)'
      /\ \A m \in Nodes : refers'[m] = IF refers[m] = p THEN Null ELSE refers[m]
  BY <1>1, <1>2, BecomeIs
<1>4. /\ Len(dying) \in Nat /\ DOMAIN dying = 1..Len(dying)
      /\ DOMAIN dying' = 1..(Len(dying) + 1)
      /\ \A i \in 1..Len(dying) : dying'[i] = dying[i]
      /\ dying'[Len(dying) + 1] = p
      /\ dying' \in Seq(Places)
  BY <1>1
<1>5. 1..(Len(dying) + 1) = 1..Len(dying) \cup {Len(dying) + 1} /\ Len(dying) + 1 \notin 1..Len(dying)
  BY <1>4
<1>6. Present' = Present
  <2>1. {dying'[i] : i \in DOMAIN dying'} = {dying[i] : i \in DOMAIN dying} \cup {p}
    BY <1>4, <1>5
  <2> QED BY <1>1, <2>1 DEF Present
<1>7. WeakTypeOK'
  BY <1>1, <1>3, <1>4 DEF WeakInv, WeakTypeOK
<1>8. \A n \in Nodes : /\ refers'[n] = IF Holder(n) \in Present' THEN meant'[n] ELSE Null
                       /\ refers'[n] \in living' \cup {Null}
  BY <1>1, <1>3, <1>6 DEF WeakInv
<1>9. \A i \in DOMAIN dying : dying[i] # p
  BY <1>1 DEF WeakInv
<1>10. \A i, j \in DOMAIN dying' : dying'[i] = dying'[j] => i = j
  BY <1>4, <1>5, <1>9 DEF WeakInv
<1>11. \A i \in DOMAIN dying' : dying'[i] \notin living'
  BY <1>1, <1>4, <1>5, <1>9 DEF WeakInv
<1> QED BY <1>3, <1>7, <1>8, <1>10, <1>11 DEF WeakInv

\* Who is gone is on no list.
LEMMA EndKeeps ==
  ASSUME WeakAssumption, WeakInv, End
  PROVE  WeakInv'
<1> DEFINE q == dying[Len(dying)]
           u == OwnUnlinked(Now, q)
<1>1. /\ Linkage(Now) /\ dying # <<>> /\ dying \in Seq(Places)
      /\ living' = living /\ meant' = meant
      /\ dying' = SubSeq(dying, 1, Len(dying) - 1) /\ Become(u)
  BY DEF WeakInv, WeakTypeOK, End
<1>2. /\ Len(dying) \in Nat /\ Len(dying) # 0 /\ DOMAIN dying = 1..Len(dying)
      /\ q \in Places
      /\ DOMAIN dying' = 1..(Len(dying) - 1)
      /\ \A i \in 1..(Len(dying) - 1) : dying'[i] = dying[i]
      /\ dying' \in Seq(Places)
  BY <1>1
<1>3. 1..Len(dying) = 1..(Len(dying) - 1) \cup {Len(dying)} /\ Len(dying) \notin 1..(Len(dying) - 1)
  BY <1>2
<1>4. Linkage(u) /\ \A m \in Nodes : u.refers[m] = IF Holder(m) = q THEN Null ELSE refers[m]
  <2>1. Now.refers = refers
    BY DEF Now
  <2> HIDE DEF q
  <2> QED BY <1>1, <1>2, <2>1, OwnUnlinkedLinkage
<1> HIDE DEF u
<1>5. /\ Linkage(Now)' /\ (Now \in Links)'
      /\ \A m \in Nodes : refers'[m] = IF Holder(m) = q THEN Null ELSE refers[m]
  BY <1>1, <1>4, BecomeIs
<1>6. Present' = Present \ {q}
  <2>1. \A i \in 1..(Len(dying) - 1) : dying[i] # q
    BY <1>2, <1>3 DEF WeakInv
  <2>2. {dying'[i] : i \in DOMAIN dying'} = {dying[i] : i \in DOMAIN dying} \ {q}
    BY <1>2, <1>3, <2>1
  <2>3. q \notin living
    BY <1>2, <1>3 DEF WeakInv
  <2> QED BY <1>1, <2>2, <2>3 DEF Present
<1>7. WeakTypeOK'
  BY <1>1, <1>2, <1>5 DEF WeakInv, WeakTypeOK
<1> HIDE DEF q
<1>8. \A n \in Nodes : /\ refers'[n] = IF Holder(n) \in Present' THEN meant'[n] ELSE Null
                       /\ refers'[n] \in living' \cup {Null}
  BY <1>1, <1>5, <1>6 DEF WeakInv
<1>9. \A i, j \in DOMAIN dying' : dying'[i] = dying'[j] => i = j
  BY <1>2, <1>3 DEF WeakInv
<1>10. \A i \in DOMAIN dying' : dying'[i] \notin living'
  BY <1>1, <1>2, <1>3 DEF WeakInv
<1> QED BY <1>5, <1>7, <1>8, <1>9, <1>10 DEF WeakInv

LEMMA WeakStepKeeps ==
  ASSUME WeakAssumption, Ways \subseteq Emptying, ToDying = FALSE, WeakInv, [WeakNext]_weakVars
  PROVE  WeakInv'
<1>1. CASE WeakNext
  BY <1>1, NewKeeps, WriteKeeps, BeginKeeps, EndKeeps DEF WeakNext
<1>2. CASE UNCHANGED weakVars
  BY <1>2 DEF weakVars, WeakInv, WeakTypeOK, Linkage, Chained, Links, Now, Present
<1> QED BY <1>1, <1>2

LEMMA WeakIsSound ==
  ASSUME WeakAssumption, WeakInv
  PROVE  WeakNeverDangles
<1>1. \A n \in Nodes : Holder(n) \in Present => refers[n] = meant[n]
  BY DEF WeakInv
<1>2. ASSUME NEW p \in living
      PROVE  /\ Walk(Now, p)[Cardinality(Nodes)] = Null
             /\ Listed(Now, p) = {n \in Nodes : Holder(n) \in Present /\ refers[n] = p}
  <2>1. p \in Places /\ p # Null /\ Linkage(Now) /\ Now.refers = refers
    BY Apart DEF WeakInv, WeakTypeOK, Now
  <2>2. /\ Listed(Now, p) = {n \in Nodes : refers[n] = p}
        /\ Walk(Now, p)[Cardinality(Nodes)] = Null
    BY <2>1, ListedIs
  <2>3. \A n \in Nodes : refers[n] = p => Holder(n) \in Present
    BY <2>1 DEF WeakInv
  <2> QED BY <2>2, <2>3
<1> QED BY <1>1, <1>2 DEF WeakNeverDangles

\* A weak field reads what was last written to it until its object begins to
\* die, and null from then on, whatever dies in whatever order: as long as
\* objects die in the ways that empty their list and none is referred to
\* once its destructor runs (the remaining ways are the gaps that the
\* README lists).
THEOREM NoneDangles ==
  ASSUME WeakAssumption, Ways \subseteq Emptying, ToDying = FALSE
  PROVE  WeakSpec => [](WeakTypeOK /\ WeakNeverDangles)
<1>1. WeakInit => WeakInv
  BY WeakStarts
<1>2. WeakInv /\ [WeakNext]_weakVars => WeakInv'
  BY WeakStepKeeps
<1>3. WeakInv => WeakTypeOK /\ WeakNeverDangles
  BY WeakIsSound DEF WeakInv
<1> QED BY <1>1, <1>2, <1>3, PTL DEF WeakSpec
-----------------------------------------------------------------------------
(* Together: what happens to a region is Region's doing, what happens to a *)
(* ring RingRegion's, and what happens to the code CodeVault's.            *)

LEMMA EachByItself == MemorySpec => Spec /\ RingSpec /\ VaultSpec /\ WeakSpec
<1>1. MemoryInit => Init /\ RingInit /\ VaultInit /\ WeakInit
  BY DEF MemoryInit
<1>2. [MemoryNext]_<<kind, vars, ringVars, heapVars, arenaVars, vaultVars, importVars, weakVars>>
        => [Next]_vars /\ [RingNext]_ringVars /\ [VaultNext]_vaultVars /\ [WeakNext]_weakVars
  BY DEF MemoryNext
<1> QED BY <1>1, <1>2, PTL DEF MemorySpec, Spec, RingSpec, VaultSpec, WeakSpec

\* Whatever a region or a ring has made is ended once, by the step that takes
\* it out, and never if it was extracted before.
THEOREM EachIsEndedOnce ==
  ASSUME BelowMarks = FALSE
  PROVE  MemorySpec => []EndedOnce
<1>1. RingAssumption
  BY InstancesFit
<1>2. Spec => []DestructedOnce
  BY DestructorsRunOnce
<1>3. RingSpec => [](RingTypeOK /\ WindowOfTheLatest)
  BY <1>1, LatestStay
<1>4. DestructedOnce /\ WindowOfTheLatest => EndedOnce
  BY DEF EndedOnce
<1> QED BY <1>2, <1>3, <1>4, EachByItself, PTL
-----------------------------------------------------------------------------
(* The two allocators below: what is proved of them, at this instance.     *)

Blocks == INSTANCE AllocatorProofs
            WITH Sizes <- Requests, NClasses <- 2, Slab <- 4, MaxBlocks <- MaxOut,
                 blocks <- out, MaxOut <- MaxPieces

\* They are the same heap and the same arenas.
LEMMA SameHeap ==
  /\ Blocks!HeapAssumption /\ (Allocator!HeapInit => Blocks!HeapInit)
  /\ Allocator!HeapNext = Blocks!HeapNext
  /\ Blocks!HeapTypeOK => Allocator!HeapTypeOK
  /\ Blocks!BlocksApart => Allocator!BlocksApart
  /\ Blocks!CountsAgree => Allocator!CountsAgree
<1>1. Blocks!HeapAssumption
  <2>1. Allocator!IsFiniteSet(Threads) => Blocks!IsFiniteSet(Threads)
    BY DEF Allocator!IsFiniteSet, Blocks!IsFiniteSet
  <2> QED BY <2>1, InstancesFit DEF Allocator!HeapAssumption, Blocks!HeapAssumption
<1>2. Allocator!HeapInit => Blocks!HeapInit
  BY DEF Allocator!HeapInit, Blocks!HeapInit
<1>3. Allocator!HeapNext = Blocks!HeapNext
  <2>1. \A t : Allocator!Bounded(t) = Blocks!Bounded(t)
    BY DEF Allocator!Bounded, Blocks!Bounded, Allocator!Cardinality, Blocks!Cardinality
  <2>2. \A h, t, a : Allocator!Free(h, t, a) = Blocks!Free(h, t, a)
    BY DEF Allocator!Free, Blocks!Free, Allocator!Tally, Blocks!Tally, Allocator!But,
           Blocks!But, Allocator!Large, Blocks!Large
  <2>3. \A h, t, size : Allocator!LargeBlock(h, t, size) = Blocks!LargeBlock(h, t, size)
    BY DEF Allocator!LargeBlock, Blocks!LargeBlock, Allocator!Stamped, Blocks!Stamped,
           Allocator!Tally, Blocks!Tally, Allocator!With, Blocks!With, Allocator!Large,
           Blocks!Large
  <2>4. \A h, t, c : Allocator!Carved(h, t, c) = Blocks!Carved(h, t, c)
    BY DEF Allocator!Carved, Blocks!Carved, Allocator!Stamped, Blocks!Stamped,
           Allocator!Tally, Blocks!Tally, Allocator!With, Blocks!With
  <2>5. \A h, t, c : Allocator!Reused(h, t, c) = Blocks!Reused(h, t, c)
    BY DEF Allocator!Reused, Blocks!Reused, Allocator!Tally, Blocks!Tally
  <2>6. \A h, t, size : Allocator!Malloc(h, t, size) = Blocks!Malloc(h, t, size)
    BY <2>3, <2>4, <2>5 DEF Allocator!Malloc, Blocks!Malloc, Allocator!ClassOf,
           Blocks!ClassOf, Allocator!Large, Blocks!Large
  <2>7. \A t, size : /\ Allocator!New(t, size) = Blocks!New(t, size)
                     /\ Allocator!AcquireNew(t, size) = Blocks!AcquireNew(t, size)
    BY <2>1, <2>6 DEF Allocator!New, Blocks!New, Allocator!AcquireNew, Blocks!AcquireNew,
           Allocator!Cached, Blocks!Cached, Allocator!With, Blocks!With, Allocator!Out,
           Blocks!Out
  <2>8. \A t, size : Allocator!AcquireCached(t, size) = Blocks!AcquireCached(t, size)
    BY DEF Allocator!AcquireCached, Blocks!AcquireCached, Allocator!Cached, Blocks!Cached,
           Allocator!Out, Blocks!Out
  <2>9. \A t, a : /\ Allocator!Delete(t, a) = Blocks!Delete(t, a)
                  /\ Allocator!ReleaseCached(t, a) = Blocks!ReleaseCached(t, a)
                  /\ Allocator!ReleaseFreed(t, a) = Blocks!ReleaseFreed(t, a)
    BY <2>2 DEF Allocator!Delete, Blocks!Delete, Allocator!ReleaseCached,
           Blocks!ReleaseCached, Allocator!ReleaseFreed, Blocks!ReleaseFreed,
           Allocator!But, Blocks!But
  <2>10. \A t, a, size : Allocator!ReallocLarge(t, a, size) = Blocks!ReallocLarge(t, a, size)
    <3>1. ASSUME NEW t, NEW a, NEW size
          PROVE  Allocator!ReallocLarge(t, a, size) <=> Blocks!ReallocLarge(t, a, size)
      <4>1. \A b : /\ Allocator!With(Allocator!But(out, a), b, Allocator!Out(size, "plain"))
                      = Blocks!With(Blocks!But(out, a), b, Blocks!Out(size, "plain"))
                   /\ Allocator!With(Allocator!But(heap.header, a), b,
                                    Allocator!Stamped(Allocator!Large, size))
                      = Blocks!With(Blocks!But(heap.header, a), b,
                                    Blocks!Stamped(Blocks!Large, size))
        BY DEF Allocator!With, Blocks!With, Allocator!But, Blocks!But, Allocator!Out,
               Blocks!Out, Allocator!Stamped, Blocks!Stamped, Allocator!Large, Blocks!Large
      <4>2. Allocator!Large = Blocks!Large
        BY DEF Allocator!Large, Blocks!Large
      <4> QED BY <2>1, <4>1, <4>2 DEF Allocator!ReallocLarge, Blocks!ReallocLarge
    <3> QED BY <3>1 DEF Allocator!ReallocLarge, Blocks!ReallocLarge
  <2>11. \A t, a, size : Allocator!Realloc(t, a, size) = Blocks!Realloc(t, a, size)
    <3>1. ASSUME NEW t, NEW a, NEW size
          PROVE  Allocator!Realloc(t, a, size) <=> Blocks!Realloc(t, a, size)
      <4>1. \A b : Allocator!With(Allocator!But(out, a), b, Allocator!Out(size, "plain"))
                   = Blocks!With(Blocks!But(out, a), b, Blocks!Out(size, "plain"))
        BY DEF Allocator!With, Blocks!With, Allocator!But, Blocks!But, Allocator!Out, Blocks!Out
      <4>2. Allocator!Large = Blocks!Large
        BY DEF Allocator!Large, Blocks!Large
      <4> QED BY <2>1, <2>2, <2>6, <4>1, <4>2 DEF Allocator!Realloc, Blocks!Realloc
    <3> QED BY <3>1 DEF Allocator!Realloc, Blocks!Realloc
  <2> QED BY <2>7, <2>8, <2>9, <2>10, <2>11 DEF Allocator!HeapNext, Blocks!HeapNext
<1>4. Blocks!HeapTypeOK => Allocator!HeapTypeOK
  BY DEF Blocks!HeapTypeOK, Allocator!HeapTypeOK
<1>5. Blocks!BlocksApart => Allocator!BlocksApart
  BY DEF Allocator!BlocksApart, Blocks!BlocksApart, Allocator!Extent, Blocks!Extent,
         Allocator!Spots, Blocks!Spots, Allocator!Keepers, Blocks!Keepers, Allocator!Payload,
         Blocks!Payload, Allocator!Large, Blocks!Large
<1>6. Blocks!CountsAgree => Allocator!CountsAgree
  <2>1. \A f : Allocator!Total(f) = Blocks!Total(f)
    BY DEF Allocator!Total, Blocks!Total, Allocator!MapThenSumSet, Blocks!MapThenSumSet,
           Allocator!MapThenFoldSet, Blocks!MapThenFoldSet
  <2>2. \A h : Allocator!Payload(h) = Blocks!Payload(h)
    BY DEF Allocator!Payload, Blocks!Payload, Allocator!Large, Blocks!Large
  <2>3. Allocator!Cardinality(DOMAIN out) = Blocks!Cardinality(DOMAIN out)
    BY DEF Allocator!Cardinality, Blocks!Cardinality
  <2>4. [a \in DOMAIN out |-> Allocator!Payload(heap.header[a])]
          = [a \in DOMAIN out |-> Blocks!Payload(heap.header[a])]
    BY <2>2
  <2> QED BY <2>1, <2>3, <2>4 DEF Allocator!CountsAgree, Blocks!CountsAgree
<1> QED BY <1>1, <1>2, <1>3, <1>4, <1>5, <1>6

LEMMA SameArenas ==
  /\ Blocks!ArenaAssumption /\ (Arena!ArenaInit => Blocks!ArenaInit)
  /\ Arena!ArenaNext = Blocks!ArenaNext
  /\ Blocks!ArenaTypeOK => Arena!ArenaTypeOK
  /\ Blocks!BlocksKeepContents => Arena!BlocksKeepContents
<1>1. Blocks!ArenaAssumption
  BY InstancesFit DEF Arena!ArenaAssumption, Blocks!ArenaAssumption
<1>2. Arena!ArenaInit => Blocks!ArenaInit
  BY DEF Arena!ArenaInit, Blocks!ArenaInit, Arena!Arenas, Blocks!Arenas, Arena!SeedAt,
         Blocks!SeedAt, Arena!Nobodys, Blocks!Nobodys
<1>3. Arena!ArenaNext = Blocks!ArenaNext
  BY DEF Arena!ArenaNext, Blocks!ArenaNext, Arena!Min, Blocks!Min, Arena!Seed, Blocks!Seed,
         Arena!Acquire, Blocks!Acquire, Arena!GiveBack, Blocks!GiveBack, Arena!Resize,
         Blocks!Resize, Arena!ResizeTop, Blocks!ResizeTop, Arena!ResizeCopy,
         Blocks!ResizeCopy, Arena!Take, Blocks!Take, Arena!FreeIds, Blocks!FreeIds,
         Arena!IsTop, Blocks!IsTop, Arena!Copied, Blocks!Copied, Arena!Kept, Blocks!Kept,
         Arena!Written, Blocks!Written, Arena!Span, Blocks!Span, Arena!Grown, Blocks!Grown,
         Arena!Piece, Blocks!Piece, Arena!Pieces, Blocks!Pieces, Arena!Room, Blocks!Room,
         Arena!Wants, Blocks!Wants, Arena!Fits, Blocks!Fits, Arena!Nobodys, Blocks!Nobodys,
         Arena!SeedAt, Blocks!SeedAt, Arena!Arenas, Blocks!Arenas
<1>4. Blocks!ArenaTypeOK => Arena!ArenaTypeOK
  BY DEF Blocks!ArenaTypeOK, Arena!ArenaTypeOK, Blocks!Arenas, Arena!Arenas
<1>5. Blocks!BlocksKeepContents => Arena!BlocksKeepContents
  BY DEF Blocks!BlocksKeepContents, Arena!BlocksKeepContents
<1> QED BY <1>1, <1>2, <1>3, <1>4, <1>5

\* The heap and the arenas of MCMemory, too, go on by themselves.
LEMMA AllocatorsByThemselves == MemorySpec => Blocks!HeapSpec /\ Blocks!ArenaSpec
<1>1. MemoryInit => Blocks!HeapInit /\ Blocks!ArenaInit
  BY SameHeap, SameArenas DEF MemoryInit
<1>2. [MemoryNext]_<<kind, vars, ringVars, heapVars, arenaVars, vaultVars, importVars, weakVars>>
        => [Blocks!HeapNext]_Blocks!heapVars /\ [Blocks!ArenaNext]_Blocks!arenaVars
  BY SameHeap, SameArenas
  DEF MemoryNext, heapVars, arenaVars, Blocks!heapVars, Blocks!arenaVars
<1> QED BY <1>1, <1>2, PTL DEF MemorySpec, Blocks!HeapSpec, Blocks!ArenaSpec

\* No byte is two objects' of a region or two blocks' of the heap or of an
\* arena, and nothing is on two lists, in every execution.
THEOREM NothingIsTwice ==
  ASSUME BelowMarks = FALSE, MovesTop = FALSE
  PROVE  MemorySpec => []NothingOverlaps
<1>1. Spec => []SlotsApart
  BY NoByteIsTwoOwners
<1>2. Blocks!HeapSpec => [](Blocks!HeapTypeOK /\ Blocks!BlocksApart)
  BY SameHeap, Blocks!BlocksAreApart
<1>3. Blocks!ArenaSpec => [](Blocks!ArenaTypeOK /\ Blocks!BlocksKeepContents)
  BY SameArenas, Blocks!BlocksKeepWhatTheyHold
<1>4. SlotsApart /\ Blocks!BlocksApart /\ Blocks!BlocksKeepContents => NothingOverlaps
  BY SameHeap, SameArenas DEF NothingOverlaps
<1> QED BY <1>1, <1>2, <1>3, <1>4, EachByItself, AllocatorsByThemselves, PTL

\* The threads' counters add up to what is out, in every execution, although a
\* block is counted in by one thread and out by another.
THEOREM CountersTell == MemorySpec => []CountsAgree
<1>1. Blocks!HeapSpec => []Blocks!CountsAgree
  BY SameHeap, Blocks!CountersAgree
<1>2. Blocks!CountsAgree => CountsAgree
  BY SameHeap DEF CountsAgree
<1> QED BY <1>1, <1>2, AllocatorsByThemselves, PTL
-----------------------------------------------------------------------------
(* The classes that come and go: what is proved of them, at this instance. *)

Code == INSTANCE UnimportProofs
          WITH Classes <- DOMAIN Supers, Super <- Supers, Declares <- Declared,
               Objects <- Things, None <- "None"

\* It is the same program.
LEMMA SameProgram ==
  /\ Code!UnimportAssumption /\ Code!LeavesNoOrphans /\ Code!KeepsItsStatics
  /\ Program!ImportInit => Code!ImportInit
  /\ Program!ImportNext = Code!ImportNext
  /\ Code!ImportTypeOK => Program!ImportTypeOK
  /\ Code!NeverInDestroyedCode => Program!NeverInDestroyedCode
  /\ Code!WholeOrGone => Program!WholeOrGone
<1>1. Code!UnimportAssumption
  <2>1. Program!IsFiniteSet(Things) => Code!IsFiniteSet(Things)
    BY DEF Program!IsFiniteSet, Code!IsFiniteSet
  <2> QED BY <2>1, InstancesFit DEF Program!UnimportAssumption, Code!UnimportAssumption
<1>2. Code!LeavesNoOrphans /\ Code!KeepsItsStatics
  BY InstancesFit DEF Program!LeavesNoOrphans, Code!LeavesNoOrphans, Program!KeepsItsStatics,
         Code!KeepsItsStatics, Program!Family, Code!Family
<1>3. Program!ImportInit => Code!ImportInit
  BY DEF Program!ImportInit, Code!ImportInit
<1>4. \A c : Program!Family(c) = Code!Family(c) /\ Program!Functions(c) = Code!Functions(c)
  BY DEF Program!Family, Code!Family, Program!Functions, Code!Functions
<1>5. Program!Unimportable = Code!Unimportable
  BY <1>4 DEF Program!Unimportable, Code!Unimportable
<1>6. Program!Chain = Code!Chain
  BY DEF Program!Chain, Code!Chain, Program!Upward, Code!Upward
<1>7. \A c, n : /\ Program!Declaring(c, n) = Code!Declaring(c, n)
               /\ Program!Implementation(c, n) = Code!Implementation(c, n)
  BY <1>6 DEF Program!Declaring, Code!Declaring, Program!Implementation, Code!Implementation
<1>8. \A c : /\ Program!Counted(c) = Code!Counted(c)
            /\ Program!Guarded(c) = Code!Guarded(c)
            /\ Program!Busy(c) = Code!Busy(c)
  BY <1>5, <1>6 DEF Program!Counted, Code!Counted, Program!Guarded, Code!Guarded, Program!Busy,
                    Code!Busy
<1>9. \A fs : Program!Enters(fs) = Code!Enters(fs)
  BY DEF Program!Enters, Code!Enters
<1>10. \A cs, from : Program!Gone(cs, from) = Code!Gone(cs, from)
  BY <1>4 DEF Program!Gone, Code!Gone
<1>11. Program!ImportNext = Code!ImportNext
  <2>1. \A o, c : Program!New(o, c) = Code!New(o, c)
    BY <1>6, <1>8, <1>9 DEF Program!New, Code!New
  <2>2. \A o : Program!Delete(o) = Code!Delete(o)
    BY <1>6, <1>8, <1>9 DEF Program!Delete, Code!Delete
  <2>3. \A o, s, n : Program!Call(o, s, n) = Code!Call(o, s, n)
    BY <1>6, <1>7, <1>8, <1>9 DEF Program!Call, Code!Call, Program!Overridden, Code!Overridden
  <2>4. \A c : Program!CallStatic(c) = Code!CallStatic(c)
    BY <1>9 DEF Program!CallStatic, Code!CallStatic
  <2>5. Program!GoOn = Code!GoOn
    BY <1>9 DEF Program!GoOn, Code!GoOn
  <2>6. \A c, from : Program!UnimportPlain(c, from) = Code!UnimportPlain(c, from)
    BY <1>8, <1>10 DEF Program!UnimportPlain, Code!UnimportPlain
  <2>8. \A c, from : Program!UnimportCascaded(c, from) <=> Code!UnimportCascaded(c, from)
    <3>1. ASSUME NEW c, NEW from
          PROVE  Program!UnimportCascaded(c, from) <=> Code!UnimportCascaded(c, from)
      BY <1>4, <1>8, <1>10 DEF Program!UnimportCascaded, Code!UnimportCascaded
    <3> QED BY <3>1
  <2>7. \A c, from : Program!Reimport(c, from) = Code!Reimport(c, from)
    BY <1>4, <1>5 DEF Program!Reimport, Code!Reimport
  <2> QED BY <1>6, <2>1, <2>2, <2>3, <2>4, <2>5, <2>6, <2>7, <2>8 DEF Program!ImportNext, Code!ImportNext
<1>12. Code!ImportTypeOK => Program!ImportTypeOK
  BY <1>4 DEF Program!ImportTypeOK, Code!ImportTypeOK
<1>13. Code!NeverInDestroyedCode => Program!NeverInDestroyedCode
  BY DEF Program!NeverInDestroyedCode, Code!NeverInDestroyedCode
<1>14. Code!WholeOrGone => Program!WholeOrGone
  <2>1. \A S : Program!Cardinality(S) = Code!Cardinality(S)
    BY DEF Program!Cardinality, Code!Cardinality
  <2>2. ASSUME NEW c, NEW n
        PROVE  n = Code!Cardinality({o \in Things : object[o] # "None" /\ c \in Code!Chain[object[o]]})
                 => n = Program!Cardinality({o \in Things : object[o] # "None" /\ c \in Program!Chain[object[o]]})
    BY <1>6, <2>1
  <2> QED BY <1>4, <1>5, <2>2 DEF Program!WholeOrGone, Code!WholeOrGone
<1> QED BY <1>1, <1>2, <1>3, <1>11, <1>12, <1>13, <1>14

\* The classes of MCMemory, too, go on by themselves.
LEMMA ClassesByThemselves == MemorySpec => Code!ImportSpec
<1>1. MemoryInit => Code!ImportInit
  BY SameProgram DEF MemoryInit
<1>2. [MemoryNext]_<<kind, vars, ringVars, heapVars, arenaVars, vaultVars, importVars, weakVars>>
        => [Code!ImportNext]_Code!importVars
  BY SameProgram DEF MemoryNext, importVars, Code!importVars
<1> QED BY <1>1, <1>2, PTL DEF MemorySpec, Code!ImportSpec

LEMMA ClassesAreSound ==
  MemorySpec => [](Program!ImportTypeOK /\ Program!NeverInDestroyedCode /\ Program!WholeOrGone)
<1>1. Code!ImportSpec => [](Code!ImportTypeOK /\ Code!NeverInDestroyedCode /\ Code!WholeOrGone)
  BY SameProgram, Code!ClassesGoWhole
<1>2. Code!ImportTypeOK /\ Code!NeverInDestroyedCode /\ Code!WholeOrGone
        => Program!ImportTypeOK /\ Program!NeverInDestroyedCode /\ Program!WholeOrGone
  BY SameProgram
<1> QED BY <1>1, <1>2, ClassesByThemselves, PTL

\* Whatever is made, called, unimported and reimported, no step runs into
\* overwritten code, in every execution.
THEOREM NoTrapIsSprung == MemorySpec => []NeverInDestroyedCode
<1>1. Program!NeverInDestroyedCode => NeverInDestroyedCode
  BY DEF NeverInDestroyedCode
<1> QED BY <1>1, ClassesAreSound, PTL

\* A class, like a method of the vault, goes whole and comes back whole, in
\* every execution.
THEOREM CodeGoesWhole == MemorySpec => []WholeOrGone
<1>1. VaultSpec => [](VaultTypeOK /\ CodeIsKept)
  BY InstancesFit, NoCodeIsLost
<1>2. CodeIsKept /\ Program!WholeOrGone => WholeOrGone
  BY DEF WholeOrGone
<1> QED BY <1>1, <1>2, EachByItself, ClassesAreSound, PTL
-----------------------------------------------------------------------------
(* Every variable of the seven stays in its type: of the arenas while no    *)
(* newest block moves as it grows, of the weak references while objects    *)
(* die in the ways that empty their lists.                                 *)
THEOREM MemoryTypeCorrect ==
  ASSUME BelowMarks = FALSE, MovesTop = FALSE, Ways \subseteq Emptying, ToDying = FALSE
  PROVE  MemorySpec => []MemoryTypeOK
<1>1. Spec => []TypeOK
  BY TypeCorrect
<1>2. RingSpec => [](RingTypeOK /\ WindowOfTheLatest)
  BY InstancesFit, LatestStay
<1>3. Blocks!HeapSpec => [](Blocks!HeapTypeOK /\ Blocks!BlocksApart)
  BY SameHeap, Blocks!BlocksAreApart
<1>4. Blocks!ArenaSpec => [](Blocks!ArenaTypeOK /\ Blocks!BlocksKeepContents)
  BY SameArenas, Blocks!BlocksKeepWhatTheyHold
<1>5. VaultSpec => [](VaultTypeOK /\ CodeIsKept)
  BY InstancesFit, NoCodeIsLost
<1>6. WeakSpec => [](WeakTypeOK /\ WeakNeverDangles)
  BY InstancesFit, NoneDangles
<1>7. TypeOK /\ RingTypeOK /\ Blocks!HeapTypeOK /\ Blocks!ArenaTypeOK /\ VaultTypeOK /\ WeakTypeOK
        /\ Program!ImportTypeOK => MemoryTypeOK
  BY SameHeap, SameArenas DEF MemoryTypeOK
<1> QED
  BY <1>1, <1>2, <1>3, <1>4, <1>5, <1>6, <1>7, EachByItself, AllocatorsByThemselves, ClassesAreSound, PTL
=============================================================================
