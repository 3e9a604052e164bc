---------------------------- MODULE RegionProofs ----------------------------
(* That a region hands out no byte twice and destructs every object once,  *)
(* the newest first, in every execution and for any number of objects.     *)
EXTENDS Region, SequenceTheorems, FiniteSetTheorems, WellFoundedInduction, TLAPS

-----------------------------------------------------------------------------
(* Sequences.                                                              *)

Members(s) == {s[i] : i \in DOMAIN s}

\* t is what is left of s when some of its entries are taken out.
Thinned(t, s) ==
  \E f \in [DOMAIN t -> DOMAIN s] :
    /\ \A i, j \in DOMAIN t : i < j => f[i] < f[j]
    /\ \A i \in DOMAIN t : t[i] = s[f[i]]

LEMMA SeqIs ==
  ASSUME NEW S, NEW s \in Seq(S)
  PROVE  /\ Len(s) \in Nat /\ DOMAIN s = 1..Len(s)
         /\ \A i \in 1..Len(s) : s[i] \in S
  OBVIOUS

LEMMA SeqIsOf ==
  ASSUME NEW S, NEW T, NEW s \in Seq(S), \A i \in DOMAIN s : s[i] \in T
  PROVE  s \in Seq(T)
<1>1. Len(s) \in Nat /\ s = [i \in 1..Len(s) |-> s[i]] /\ DOMAIN s = 1..Len(s)
  BY SeqIs
<1>2. [i \in 1..Len(s) |-> s[i]] \in Seq(T)
  BY <1>1
<1> QED BY <1>1, <1>2

LEMMA AppendIs ==
  ASSUME NEW S, NEW s \in Seq(S), NEW x \in S
  PROVE  /\ Append(s, x) \in Seq(S) /\ Len(Append(s, x)) = Len(s) + 1
         /\ DOMAIN Append(s, x) = 1..(Len(s) + 1)
         /\ \A i \in 1..Len(s) : Append(s, x)[i] = s[i]
         /\ Append(s, x)[Len(s) + 1] = x
  OBVIOUS

\* A new entry at the end.
LEMMA AppendKeepsDistinct ==
  ASSUME NEW S, NEW s \in Seq(S), NEW x \in S, Distinct(s), x \notin Members(s)
  PROVE  Distinct(Append(s, x)) /\ Members(Append(s, x)) = Members(s) \cup {x}
<1> DEFINE t == Append(s, x)
<1>1. /\ Len(s) \in Nat /\ DOMAIN s = 1..Len(s) /\ DOMAIN t = 1..(Len(s) + 1)
      /\ \A i \in 1..Len(s) : t[i] = s[i]
      /\ t[Len(s) + 1] = x
  BY AppendIs, SeqIs
<1> HIDE DEF t
<1>2. \A i \in 1..Len(s) : s[i] # x
  BY <1>1 DEF Members
<1>3. Distinct(t)
  <2> SUFFICES ASSUME NEW i \in DOMAIN t, NEW j \in DOMAIN t, t[i] = t[j]
               PROVE  i = j
    BY DEF Distinct
  <2>1. CASE i <= Len(s) /\ j <= Len(s)
    BY <1>1, <2>1 DEF Distinct
  <2>2. CASE ~(i <= Len(s) /\ j <= Len(s))
    BY <1>1, <1>2, <2>2
  <2> QED BY <2>1, <2>2
<1>4. Members(t) = Members(s) \cup {x}
  BY <1>1 DEF Members
<1> QED BY <1>3, <1>4 DEF t

\* Without the entry at i.
LEMMA WithoutIs ==
  ASSUME NEW S, NEW s \in Seq(S), NEW i \in 1..Len(s)
  PROVE  /\ Without(s, i) \in Seq(S) /\ Len(Without(s, i)) = Len(s) - 1
         /\ DOMAIN Without(s, i) = 1..(Len(s) - 1)
         /\ \A j \in 1..(Len(s) - 1) : Without(s, i)[j] = IF j < i THEN s[j] ELSE s[j + 1]
<1> DEFINE front == SubSeq(s, 1, i - 1)
           back == SubSeq(s, i + 1, Len(s))
<1>1. Len(s) \in Nat /\ i \in Nat /\ \A j \in 1..Len(s) : s[j] \in S
  BY SeqIs
<1>2. /\ front \in Seq(S) /\ Len(front) = i - 1
      /\ \A j \in 1..(i - 1) : front[j] = s[j]
  <2>1. \A j \in 1..(i - 1) : s[j] \in S
    BY <1>1
  <2>2. /\ front \in Seq(S)
        /\ Len(front) = IF 1 <= i - 1 THEN (i - 1) - 1 + 1 ELSE 0
        /\ \A j \in 1..((i - 1) - 1 + 1) : front[j] = s[1 + j - 1]
    BY <1>1, <2>1, SubSeqProperties
  <2> HIDE DEF front
  <2> QED BY <1>1, <2>2
<1>3. /\ back \in Seq(S) /\ Len(back) = Len(s) - i
      /\ \A j \in 1..(Len(s) - i) : back[j] = s[i + j]
  <2>1. \A j \in (i + 1)..Len(s) : s[j] \in S
    BY <1>1
  <2>2. /\ back \in Seq(S)
        /\ Len(back) = IF i + 1 <= Len(s) THEN Len(s) - (i + 1) + 1 ELSE 0
        /\ \A j \in 1..(Len(s) - (i + 1) + 1) : back[j] = s[(i + 1) + j - 1]
    BY <1>1, <2>1, SubSeqProperties
  <2> HIDE DEF back
  <2> QED BY <1>1, <2>2
<1> HIDE DEF front, back
<1>4. /\ front \o back \in Seq(S)
      /\ Len(front \o back) = Len(s) - 1
      /\ \A j \in 1..(Len(s) - 1) : (front \o back)[j] = IF j <= i - 1 THEN front[j] ELSE back[j - (i - 1)]
  <2>1. /\ front \o back \in Seq(S)
        /\ Len(front \o back) = Len(front) + Len(back)
        /\ \A j \in 1..(Len(front) + Len(back)) :
             (front \o back)[j] = IF j <= Len(front) THEN front[j] ELSE back[j - Len(front)]
    BY <1>2, <1>3, ConcatProperties
  <2>2. Len(front) + Len(back) = Len(s) - 1
    BY <1>1, <1>2, <1>3
  <2> QED BY <1>2, <2>1, <2>2
<1>5. \A j \in 1..(Len(s) - 1) : (front \o back)[j] = IF j < i THEN s[j] ELSE s[j + 1]
  <2> TAKE j \in 1..(Len(s) - 1)
  <2>1. CASE j < i
    BY <1>1, <1>2, <1>4, <2>1
  <2>2. CASE ~(j < i)
    <3>1. j - (i - 1) \in 1..(Len(s) - i) /\ i + (j - (i - 1)) = j + 1 /\ ~(j <= i - 1)
      BY <1>1, <2>2
    <3> QED BY <1>3, <1>4, <2>2, <3>1
  <2> QED BY <2>1, <2>2
<1>6. Without(s, i) = front \o back
  BY DEF Without, front, back
<1> QED BY <1>4, <1>5, <1>6, SeqIs

LEMMA WithoutKeepsDistinct ==
  ASSUME NEW S, NEW s \in Seq(S), NEW i \in 1..Len(s), Distinct(s)
  PROVE  /\ Distinct(Without(s, i)) /\ Members(Without(s, i)) = Members(s) \ {s[i]}
         /\ Thinned(Without(s, i), s)
<1> DEFINE t == Without(s, i)
           f == [j \in 1..(Len(s) - 1) |-> IF j < i THEN j ELSE j + 1]
<1>1. /\ Len(s) \in Nat /\ DOMAIN s = 1..Len(s) /\ DOMAIN t = 1..(Len(s) - 1)
      /\ \A j \in 1..(Len(s) - 1) : t[j] = IF j < i THEN s[j] ELSE s[j + 1]
  BY WithoutIs, SeqIs
<1>2. /\ f \in [DOMAIN t -> DOMAIN s]
      /\ \A j, k \in DOMAIN t : j < k => f[j] < f[k]
      /\ \A j \in DOMAIN t : t[j] = s[f[j]] /\ f[j] # i
      /\ \A k \in DOMAIN s \ {i} : \E j \in DOMAIN t : f[j] = k
  <2> HIDE DEF t
  <2>1. \A k \in DOMAIN s \ {i} : \E j \in DOMAIN t : f[j] = k
    <3> TAKE k \in DOMAIN s \ {i}
    <3>1. CASE k < i
      BY <1>1, <3>1
    <3>2. CASE ~(k < i)
      <4>1. k - 1 \in DOMAIN t /\ f[k - 1] = k
        BY <1>1, <3>2
      <4> QED BY <4>1
    <3> QED BY <3>1, <3>2
  <2> QED BY <1>1, <2>1
<1> HIDE DEF t, f
<1>3. Thinned(t, s)
  BY <1>2 DEF Thinned
<1>4. Distinct(t)
  <2> SUFFICES ASSUME NEW j \in DOMAIN t, NEW k \in DOMAIN t, t[j] = t[k]
               PROVE  j = k
    BY DEF Distinct
  <2>1. f[j] = f[k]
    BY <1>2 DEF Distinct
  <2>2. j \in Nat /\ k \in Nat /\ f[j] \in Nat
    <3>1. DOMAIN t \subseteq Nat /\ DOMAIN s \subseteq Nat
      BY <1>1
    <3>2. f[j] \in DOMAIN s
      BY <1>2
    <3> QED BY <3>1, <3>2
  <2>3. ~(j < k) /\ ~(k < j)
    BY <1>2, <2>1, <2>2
  <2> QED BY <2>2, <2>3
<1>5. Members(t) = Members(s) \ {s[i]}
  <2>1. \A j \in DOMAIN t : f[j] \in DOMAIN s /\ s[f[j]] # s[i]
    BY <1>1, <1>2 DEF Distinct
  <2>2. Members(t) \subseteq Members(s) \ {s[i]}
    BY <1>2, <2>1 DEF Members
  <2>3. ASSUME NEW k \in DOMAIN s, s[k] # s[i]
        PROVE  s[k] \in Members(t)
    BY <1>2, <2>3 DEF Members
  <2> QED BY <2>2, <2>3 DEF Members
<1> QED BY <1>3, <1>4, <1>5 DEF t

\* The entries before the k-th.
LEMMA PrefixIs ==
  ASSUME NEW S, NEW s \in Seq(S), NEW k \in 1..(Len(s) + 1)
  PROVE  /\ SubSeq(s, 1, k - 1) \in Seq(S) /\ DOMAIN SubSeq(s, 1, k - 1) = 1..(k - 1)
         /\ \A i \in 1..(k - 1) : SubSeq(s, 1, k - 1)[i] = s[i]
<1> DEFINE t == SubSeq(s, 1, k - 1)
<1>1. Len(s) \in Nat /\ k \in Nat /\ \A j \in 1..Len(s) : s[j] \in S
  BY SeqIs
<1>2. \A j \in 1..(k - 1) : s[j] \in S
  BY <1>1
<1>3. /\ t \in Seq(S)
      /\ Len(t) = IF 1 <= k - 1 THEN (k - 1) - 1 + 1 ELSE 0
      /\ \A j \in 1..((k - 1) - 1 + 1) : t[j] = s[1 + j - 1]
  BY <1>1, <1>2, SubSeqProperties
<1> HIDE DEF t
<1>4. Len(t) = k - 1 /\ \A j \in 1..(k - 1) : t[j] = s[j]
  BY <1>1, <1>3
<1>5. t \in Seq(S) /\ DOMAIN t = 1..(k - 1) /\ \A j \in 1..(k - 1) : t[j] = s[j]
  BY <1>3, <1>4, SeqIs
<1> QED BY <1>5 DEF t

LEMMA PrefixKeepsDistinct ==
  ASSUME NEW S, NEW s \in Seq(S), NEW k \in 1..(Len(s) + 1), Distinct(s)
  PROVE  /\ Distinct(SubSeq(s, 1, k - 1)) /\ Thinned(SubSeq(s, 1, k - 1), s)
         /\ Members(SubSeq(s, 1, k - 1)) = {s[i] : i \in 1..(k - 1)}
<1> DEFINE t == SubSeq(s, 1, k - 1)
           f == [j \in 1..(k - 1) |-> j]
<1>1. /\ DOMAIN t = 1..(k - 1) /\ \A i \in 1..(k - 1) : t[i] = s[i]
      /\ Len(s) \in Nat /\ DOMAIN s = 1..Len(s)
  BY PrefixIs, SeqIs
<1> HIDE DEF t
<1>2. Distinct(t) /\ Members(t) = {s[i] : i \in 1..(k - 1)}
  BY <1>1 DEF Distinct, Members
<1>3. /\ f \in [DOMAIN t -> DOMAIN s]
      /\ \A i, j \in DOMAIN t : i < j => f[i] < f[j]
      /\ \A i \in DOMAIN t : t[i] = s[f[i]]
  BY <1>1
<1>4. Thinned(t, s)
  BY <1>3 DEF Thinned
<1> QED BY <1>2, <1>4 DEF t

LEMMA AllIsThinned ==
  ASSUME NEW S, NEW s \in Seq(S)
  PROVE  Thinned(s, s)
<1> DEFINE f == [i \in DOMAIN s |-> i]
<1>1. f \in [DOMAIN s -> DOMAIN s] /\ \A i \in DOMAIN s : f[i] = i
  OBVIOUS
<1> HIDE DEF f
<1> QED BY <1>1 DEF Thinned
-----------------------------------------------------------------------------
(* The inductive invariant: who is where, and in which order.              *)

\* A slot of payload m at a has no byte in common with one of payload n at b.
Clear(a, m, b, n) == a[1] # b[1] \/ a[2] + m < b[2] \/ b[2] + n < a[2]

Shape ==
  /\ flavor \in {"pool", "stack"}
  /\ Chain \in Nat \ {0}
  /\ \A b \in 1..Chain : used[b] <= cap[b]
  /\ flavor = "pool" => marks = << >>
  /\ flavor = "stack" => /\ Chain = 1 /\ ~growable
                         /\ \A c \in 1..Large : free[c] = << >>

\* An object that lives has a slot of its own, below the cursor.
Housed ==
  \A o \in Live : /\ at[o] \in DOMAIN slot
                  /\ slot[at[o]].stamp = "Live" /\ slot[at[o]].size = Size[o]
                  /\ at[o][2] + Size[o] < used[at[o][1]]

HousedApart == \A o, p \in Live : o # p => Clear(at[o], Size[o], at[p], Size[p])

\* A pool never gives bytes back to the cursor, so that no header is stale.
PoolSlots ==
  flavor = "pool" =>
    \A a \in DOMAIN slot :
      /\ a[2] + slot[a].size < used[a[1]]
      /\ \A b \in DOMAIN slot : a # b => Clear(a, slot[a].size, b, slot[b].size)

FreeLists ==
  \A c \in 1..Large :
    /\ Distinct(free[c])
    /\ \A i \in DOMAIN free[c] : /\ slot[free[c][i]].stamp = "Freed"
                                 /\ ClassOf(slot[free[c][i]].size) = c

\* A mark's cursor parts the objects born by then from those born since.
StackMarks ==
  flavor = "stack" =>
    \A i \in DOMAIN marks :
      /\ marks[i].cursor <= used[1]
      /\ \A j \in DOMAIN marks : i < j => marks[i].cursor <= marks[j].cursor
      /\ \A o \in marks[i].born : state[o] # "unborn"
      /\ \A o \in Live : /\ o \in marks[i].born => at[o][2] + Size[o] < marks[i].cursor
                         /\ o \notin marks[i].born => marks[i].cursor <= at[o][2]

Ground == Shape /\ Housed /\ HousedApart /\ PoolSlots /\ FreeLists /\ StackMarks

TrackUpwards ==
  flavor = "stack" => \A i, j \in DOMAIN track : i < j => at[track[i]][2] < at[track[j]][2]

BornOnce ==
  /\ Distinct(born)
  /\ Members(born) = {o \in Objects : state[o] # "unborn"}

\* Of two that are tracked, the later entry was born later.
TrackByBirth ==
  \A i, j \in DOMAIN track : i < j =>
    \A m, n \in DOMAIN born : born[m] = track[i] /\ born[n] = track[j] => m < n

Ledger == TrackUpwards /\ BornOnce /\ TrackByBirth /\ RegistryIsTheLiving /\ DestructedOnce

IInv == TypeOK /\ Ground /\ Ledger
-----------------------------------------------------------------------------
(* The registry.                                                           *)

LEMMA LivesSomewhere ==
  ASSUME RegionAssumption, TypeOK, Housed, NEW o \in Live
  PROVE  /\ o \in Objects /\ state[o] = "live"
         /\ at[o] \in DOMAIN slot /\ at[o] \in (1..Chain) \X Nat
         /\ at[o][1] \in 1..Chain /\ at[o][2] \in Nat
         /\ Size[o] \in Nat \ {0} /\ used[at[o][1]] \in Nat
<1>1. o \in Objects /\ state[o] = "live" /\ Size[o] \in Nat \ {0}
  BY DEF Live, RegionAssumption
<1>2. at[o] \in DOMAIN slot /\ at[o] \in (1..Chain) \X Nat
  BY DEF Housed, TypeOK, Addresses
<1>3. at[o][1] \in 1..Chain /\ at[o][2] \in Nat
  BY <1>2
<1>4. used \in Seq(Nat)
  BY DEF TypeOK
<1>5. used[at[o][1]] \in Nat
  BY <1>3, <1>4 DEF Chain
<1> QED BY <1>1, <1>2, <1>3, <1>5

LEMMA NobodyShares ==
  ASSUME RegionAssumption, TypeOK, Housed, HousedApart,
         NEW o \in Live, NEW p \in Live, at[o] = at[p]
  PROVE  o = p
<1>1. SUFFICES ASSUME o # p PROVE FALSE
  OBVIOUS
<1>2. Clear(at[o], Size[o], at[p], Size[p])
  BY <1>1 DEF HousedApart
<1>3. at[o][2] \in Nat /\ at[p][2] \in Nat /\ Size[o] \in Nat \ {0} /\ Size[p] \in Nat \ {0}
  BY LivesSomewhere
<1> QED BY <1>2, <1>3 DEF Clear

\* What the registry holds lives.
LEMMA TrackedLives ==
  ASSUME TypeOK, RegistryIsTheLiving
  PROVE  /\ track \in Seq(Destructible) /\ Len(track) \in Nat /\ DOMAIN track = 1..Len(track)
         /\ Distinct(track) /\ Members(track) = Live \cap Destructible
         /\ \A i \in DOMAIN track : track[i] \in Live \cap Destructible
<1>1. track \in Seq(Destructible)
  BY DEF TypeOK
<1>2. Distinct(track) /\ Members(track) = Live \cap Destructible
  BY DEF RegistryIsTheLiving, Members
<1> QED BY <1>1, <1>2, SeqIs DEF Members

\* The latest entry at o's address is o's, if it has one.
LEMMA UntrackIs ==
  ASSUME RegionAssumption, TypeOK, Housed, HousedApart, RegistryIsTheLiving,
         NEW o \in Live, Untrack(o)
  PROVE  /\ track' \in Seq(Destructible) /\ Distinct(track')
         /\ Members(track') = (Live \ {o}) \cap Destructible
         /\ Thinned(track', track)
<1>1. /\ track \in Seq(Destructible) /\ Len(track) \in Nat /\ DOMAIN track = 1..Len(track)
      /\ Distinct(track) /\ Members(track) = Live \cap Destructible
      /\ \A i \in DOMAIN track : track[i] \in Live \cap Destructible
  BY TrackedLives
<1>2. \A i \in DOMAIN track : at[track[i]] = at[o] <=> track[i] = o
  BY <1>1, NobodyShares
<1>3. CASE o \in Destructible
  <2>1. PICK i \in DOMAIN track : track[i] = o
    BY <1>1, <1>3 DEF Members
  <2>2. \A j \in DOMAIN track : at[track[j]] = at[o] <=> j = i
    BY <1>1, <1>2, <2>1 DEF Distinct
  <2>3. {j \in DOMAIN track : at[track[j]] = at[o]} = {i}
    BY <2>2
  <2>4. track' = Without(track, i)
    BY <2>3 DEF Untrack
  <2>5. /\ Distinct(track') /\ Members(track') = Members(track) \ {o}
        /\ Thinned(track', track) /\ track' \in Seq(Destructible)
    BY <1>1, <2>1, <2>4, WithoutKeepsDistinct, WithoutIs
  <2> QED BY <1>1, <2>5
<1>4. CASE o \notin Destructible
  <2>1. \A j \in DOMAIN track : at[track[j]] # at[o]
    BY <1>1, <1>2, <1>4
  <2>2. track' = track
    BY <2>1 DEF Untrack
  <2>3. Thinned(track, track)
    BY <1>1, AllIsThinned
  <2> QED BY <1>1, <1>4, <2>2, <2>3
<1> QED BY <1>3, <1>4

\* Entries taken out change neither order.
LEMMA OrderStays ==
  ASSUME NEW t, Thinned(t, track), TrackUpwards, TrackByBirth
  PROVE  /\ flavor = "stack" => \A i, j \in DOMAIN t : i < j => at[t[i]][2] < at[t[j]][2]
         /\ \A i, j \in DOMAIN t : i < j =>
              \A m, n \in DOMAIN born : born[m] = t[i] /\ born[n] = t[j] => m < n
<1>1. PICK f \in [DOMAIN t -> DOMAIN track] :
        /\ \A i, j \in DOMAIN t : i < j => f[i] < f[j]
        /\ \A i \in DOMAIN t : t[i] = track[f[i]]
  BY DEF Thinned
<1>2. ASSUME NEW i \in DOMAIN t, NEW j \in DOMAIN t, i < j
      PROVE  /\ flavor = "stack" => at[t[i]][2] < at[t[j]][2]
             /\ \A m, n \in DOMAIN born : born[m] = t[i] /\ born[n] = t[j] => m < n
  <2>1. f[i] \in DOMAIN track /\ f[j] \in DOMAIN track /\ f[i] < f[j]
        /\ t[i] = track[f[i]] /\ t[j] = track[f[j]]
    BY <1>1, <1>2
  <2> QED BY <2>1 DEF TrackUpwards, TrackByBirth
<1> QED BY <1>2

\* A set of numbers that has a member has a least one.
LEMMA LeastExists ==
  ASSUME NEW T, T \subseteq Nat, T # {}
  PROVE  \E k \in T : \A j \in T : k <= j
<1>1. IsWellFoundedOn(OpToRel(<, Nat), Nat)
  BY NatLessThanWellFounded
<1>2. PICK k \in T : \A j \in T : ~(<<j, k>> \in OpToRel(<, Nat))
  BY <1>1, WFMin
<1>3. \A j \in T : ~(j < k)
  BY <1>2 DEF OpToRel
<1> QED BY <1>3

\* Where the entries from the cursor on begin, if they are at the end.
LEMMA OldestFromIs ==
  ASSUME TypeOK, NEW cursor \in Nat,
         \A i \in DOMAIN track : at[track[i]][2] \in Nat
  PROVE  LET k == OldestFrom(cursor)
         IN  /\ k \in 1..(Len(track) + 1)
             /\ \A i \in k..Len(track) : at[track[i]][2] >= cursor
             /\ k > 1 => at[track[k - 1]][2] < cursor
<1> DEFINE P(k) == /\ \A i \in k..Len(track) : at[track[i]][2] >= cursor
                   /\ k > 1 => at[track[k - 1]][2] < cursor
           T == {k \in 1..(Len(track) + 1) : \A i \in k..Len(track) : at[track[i]][2] >= cursor}
<1>1. track \in Seq(Destructible) /\ Len(track) \in Nat /\ DOMAIN track = 1..Len(track)
  BY SeqIs DEF TypeOK
<1>2. T \subseteq Nat /\ Len(track) + 1 \in T
  BY <1>1
<1>3. PICK k \in T : \A j \in T : k <= j
  BY <1>2, LeastExists
<1>4. k \in 1..(Len(track) + 1) /\ \A i \in k..Len(track) : at[track[i]][2] >= cursor
  BY <1>3
<1>5. ASSUME k > 1 PROVE at[track[k - 1]][2] < cursor
  <2>1. k - 1 \in 1..(Len(track) + 1) /\ k - 1 \notin T /\ k - 1 \in DOMAIN track
    <3>1. k - 1 \in 1..(Len(track) + 1) /\ k - 1 \in DOMAIN track /\ ~(k <= k - 1)
      BY <1>1, <1>4, <1>5
    <3> HIDE DEF T
    <3> QED BY <1>3, <3>1
  <2>2. PICK i \in (k - 1)..Len(track) : ~(at[track[i]][2] >= cursor)
    BY <2>1
  <2>3. i = k - 1
    BY <1>1, <1>4, <2>2
  <2> QED BY <1>1, <2>1, <2>2, <2>3
<1>6. \E j \in 1..(Len(track) + 1) : P(j)
  BY <1>4, <1>5
<1>7. OldestFrom(cursor) = CHOOSE j \in 1..(Len(track) + 1) : P(j)
  BY DEF OldestFrom
<1> HIDE DEF P
<1>8. OldestFrom(cursor) \in 1..(Len(track) + 1) /\ P(OldestFrom(cursor))
  BY <1>6, <1>7
<1> QED BY <1>8 DEF P

\* What DestroyFrom appends: the entries from the k-th on, backwards.
LatestFirst(r, k) ==
  \E turn \in [DOMAIN r -> k..Len(track)] :
    /\ \A m, n \in DOMAIN r : m < n => turn[n] < turn[m]
    /\ \A n \in DOMAIN r : r[n] = track[turn[n]]

LEMMA DestroyedFrom ==
  ASSUME TypeOK, Shape, RegistryIsTheLiving, NEW k \in 1..(Len(track) + 1),
         flavor = "stack" => \A i \in k..Len(track) : StampAt(at[track[i]]) = "Live",
         DestroyFrom(k)
  PROVE  \E r \in Seq(Destructible) :
           /\ destroyed' = destroyed \o r
           /\ Distinct(r) /\ Members(r) = {track[i] : i \in k..Len(track)}
           /\ LatestFirst(r, k)
<1> DEFINE taken == {i \in k..Len(track) : flavor = "pool" \/ StampAt(at[track[i]]) = "Live"}
<1>1. /\ track \in Seq(Destructible) /\ Len(track) \in Nat /\ DOMAIN track = 1..Len(track)
      /\ Distinct(track) /\ \A i \in DOMAIN track : track[i] \in Destructible
  BY TrackedLives
<1>2. taken = k..Len(track)
  BY DEF Shape
<1>3. PICK turn \in [1..Cardinality(taken) -> taken] :
        /\ \A m, n \in DOMAIN turn : m < n => turn[n] < turn[m]
        /\ destroyed' = destroyed \o [n \in DOMAIN turn |-> track[turn[n]]]
  BY DEF DestroyFrom
<1> HIDE DEF taken
<1>4. IsFiniteSet(taken) /\ Cardinality(taken) \in Nat
  BY <1>1, <1>2, FS_Interval, FS_CardinalityType
<1> DEFINE c == Cardinality(taken)
           r == [n \in DOMAIN turn |-> track[turn[n]]]
<1>5. DOMAIN turn = 1..c /\ \A n \in 1..c : turn[n] \in k..Len(track) /\ turn[n] \in DOMAIN track
  BY <1>1, <1>2, <1>3
<1>6. \A m, n \in 1..c : turn[m] = turn[n] => m = n
  <2> SUFFICES ASSUME NEW m \in 1..c, NEW n \in 1..c, m # n PROVE turn[m] # turn[n]
    OBVIOUS
  <2>1. turn[m] \in Int /\ turn[n] \in Int
    BY <1>5
  <2>2. m < n \/ n < m
    BY <1>4
  <2> QED BY <1>3, <1>5, <2>1, <2>2
<1>7. turn \in Injection(1..c, taken)
  BY <1>3, <1>5, <1>6 DEF Injection, IsInjective
<1>8. Cardinality(1..c) = c
  BY <1>4, FS_Interval
<1>9. turn \in Surjection(1..c, taken)
  BY <1>4, <1>7, <1>8, FS_Injection
<1>10. \A i \in k..Len(track) : \E n \in 1..c : turn[n] = i
  BY <1>2, <1>9 DEF Surjection
<1>11. DOMAIN r = 1..c /\ \A n \in 1..c : r[n] = track[turn[n]]
  BY <1>5
<1> HIDE DEF c
<1>12. r \in Seq(Destructible)
  <2>1. c \in Nat /\ \A n \in 1..c : track[turn[n]] \in Destructible
    BY <1>1, <1>4, <1>5 DEF c
  <2>2. [n \in 1..c |-> track[turn[n]]] \in Seq(Destructible)
    BY <2>1
  <2>3. r = [n \in 1..c |-> track[turn[n]]]
    BY <1>5
  <2> QED BY <2>2, <2>3
<1> HIDE DEF r
<1>13. Distinct(r)
  BY <1>1, <1>5, <1>6, <1>11 DEF Distinct
<1>14. Members(r) = {track[i] : i \in k..Len(track)}
  <2>1. Members(r) = {r[n] : n \in 1..c}
    BY <1>11 DEF Members
  <2>2. \A n \in 1..c : r[n] \in {track[i] : i \in k..Len(track)}
    BY <1>5, <1>11
  <2>3. \A i \in k..Len(track) : track[i] \in {r[n] : n \in 1..c}
    <3> TAKE i \in k..Len(track)
    <3>1. PICK n \in 1..c : turn[n] = i
      BY <1>10
    <3>2. r[n] = track[i]
      BY <1>11, <3>1
    <3> QED BY <3>2
  <2> QED BY <2>1, <2>2, <2>3
<1>15. LatestFirst(r, k)
  <2>1. turn \in [DOMAIN r -> k..Len(track)]
    BY <1>2, <1>3, <1>11 DEF c
  <2>2. \A m, n \in DOMAIN r : m < n => turn[n] < turn[m]
    BY <1>3, <1>5, <1>11
  <2>3. \A n \in DOMAIN r : r[n] = track[turn[n]]
    BY <1>11
  <2> QED BY <2>1, <2>2, <2>3 DEF LatestFirst
<1>16. destroyed' = destroyed \o r
  BY <1>3 DEF r
<1> QED BY <1>12, <1>13, <1>14, <1>15, <1>16

LEMMA ConcatIs ==
  ASSUME NEW S, NEW s \in Seq(S), NEW r \in Seq(S)
  PROVE  /\ s \o r \in Seq(S) /\ Len(s) \in Nat /\ Len(r) \in Nat
         /\ DOMAIN s = 1..Len(s) /\ DOMAIN r = 1..Len(r)
         /\ DOMAIN (s \o r) = 1..(Len(s) + Len(r))
         /\ \A i \in DOMAIN s : (s \o r)[i] = s[i]
         /\ \A n \in DOMAIN r : (s \o r)[Len(s) + n] = r[n]
<1> DEFINE t == s \o r
<1>1. /\ t \in Seq(S) /\ Len(t) = Len(s) + Len(r)
      /\ \A i \in 1..(Len(s) + Len(r)) : t[i] = IF i <= Len(s) THEN s[i] ELSE r[i - Len(s)]
  BY ConcatProperties
<1>2. /\ Len(s) \in Nat /\ Len(r) \in Nat /\ DOMAIN s = 1..Len(s) /\ DOMAIN r = 1..Len(r)
  BY SeqIs
<1> HIDE DEF t
<1>3. DOMAIN t = 1..(Len(s) + Len(r))
  BY <1>1, SeqIs
<1>4. \A i \in DOMAIN s : t[i] = s[i]
  BY <1>1, <1>2
<1>5. \A n \in DOMAIN r : t[Len(s) + n] = r[n]
  <2> TAKE n \in DOMAIN r
  <2>1. Len(s) + n \in 1..(Len(s) + Len(r)) /\ ~(Len(s) + n <= Len(s)) /\ (Len(s) + n) - Len(s) = n
    BY <1>2
  <2> QED BY <1>1, <2>1
<1> QED BY <1>1, <1>2, <1>3, <1>4, <1>5 DEF t

LEMMA ConcatKeepsDistinct ==
  ASSUME NEW S, NEW s \in Seq(S), NEW r \in Seq(S), Distinct(s), Distinct(r),
         Members(s) \cap Members(r) = {}
  PROVE  Distinct(s \o r) /\ Members(s \o r) = Members(s) \cup Members(r)
<1> DEFINE t == s \o r
           l == Len(s)
<1>1. /\ l \in Nat /\ Len(r) \in Nat /\ DOMAIN s = 1..l /\ DOMAIN r = 1..Len(r)
      /\ DOMAIN t = 1..(l + Len(r))
      /\ \A i \in DOMAIN s : t[i] = s[i]
      /\ \A n \in DOMAIN r : t[l + n] = r[n]
  BY ConcatIs
<1> HIDE DEF t, l
<1>2. \A i \in DOMAIN t : \/ i \in DOMAIN s /\ t[i] = s[i]
                          \/ i - l \in DOMAIN r /\ t[i] = r[i - l] /\ i \notin DOMAIN s
  <2> TAKE i \in DOMAIN t
  <2>1. CASE i <= l
    BY <1>1, <2>1
  <2>2. CASE ~(i <= l)
    <3>1. i - l \in DOMAIN r /\ l + (i - l) = i /\ i \notin DOMAIN s
      BY <1>1, <2>2
    <3> QED BY <1>1, <3>1
  <2> QED BY <2>1, <2>2
<1>3. \A i \in DOMAIN s, n \in DOMAIN r : s[i] # r[n]
  BY DEF Members
<1>4. Distinct(t)
  <2> SUFFICES ASSUME NEW i \in DOMAIN t, NEW j \in DOMAIN t, t[i] = t[j] PROVE i = j
    BY DEF Distinct
  <2>1. CASE i \in DOMAIN s /\ j \in DOMAIN s
    BY <1>1, <2>1 DEF Distinct
  <2>2. CASE i \notin DOMAIN s /\ j \notin DOMAIN s
    <3>1. i - l \in DOMAIN r /\ j - l \in DOMAIN r /\ r[i - l] = r[j - l]
      BY <1>2, <2>2
    <3>2. i - l = j - l
      BY <3>1 DEF Distinct
    <3> QED BY <1>1, <3>2
  <2>3. CASE (i \in DOMAIN s) # (j \in DOMAIN s)
    BY <1>2, <1>3, <2>3
  <2> QED BY <2>1, <2>2, <2>3
<1>5. Members(t) = Members(s) \cup Members(r)
  <2>1. Members(t) \subseteq Members(s) \cup Members(r)
    BY <1>2 DEF Members
  <2>2. Members(s) \subseteq Members(t)
    <3>1. \A i \in DOMAIN s : i \in DOMAIN t
      BY <1>1
    <3> QED BY <1>1, <3>1 DEF Members
  <2>3. Members(r) \subseteq Members(t)
    <3>1. \A n \in DOMAIN r : l + n \in DOMAIN t
      BY <1>1
    <3> QED BY <1>1, <3>1 DEF Members
  <2> QED BY <2>1, <2>2, <2>3
<1> QED BY <1>4, <1>5 DEF t

LEMMA CutIs ==
  ASSUME TypeOK, Shape, RegistryIsTheLiving, DestructedOnce, NEW k \in 1..(Len(track) + 1),
         flavor = "stack" => \A i \in k..Len(track) : StampAt(at[track[i]]) = "Live",
         DestroyFrom(k)
  PROVE  /\ track' \in Seq(Destructible) /\ Distinct(track') /\ Thinned(track', track)
         /\ Members(track') = {track[i] : i \in 1..(k - 1)}
         /\ destroyed' \in Seq(Destructible) /\ Distinct(destroyed')
         /\ Members(destroyed') = Members(destroyed) \cup {track[i] : i \in k..Len(track)}
<1>1. /\ track \in Seq(Destructible) /\ Len(track) \in Nat /\ DOMAIN track = 1..Len(track)
      /\ Distinct(track) /\ \A i \in DOMAIN track : track[i] \in Live \cap Destructible
  BY TrackedLives
<1>2. track' = SubSeq(track, 1, k - 1)
  BY DEF DestroyFrom
<1>3. /\ track' \in Seq(Destructible) /\ Distinct(track') /\ Thinned(track', track)
      /\ Members(track') = {track[i] : i \in 1..(k - 1)}
  BY <1>1, <1>2, PrefixIs, PrefixKeepsDistinct
<1>4. PICK r \in Seq(Destructible) :
        /\ destroyed' = destroyed \o r
        /\ Distinct(r) /\ Members(r) = {track[i] : i \in k..Len(track)}
  BY DestroyedFrom
<1>5. destroyed \in Seq(Destructible) /\ Distinct(destroyed)
      /\ Members(destroyed) = {o \in Destructible : state[o] = "dead"}
  BY DEF TypeOK, DestructedOnce, Members
<1>6. \A i \in k..Len(track) : state[track[i]] = "live"
  BY <1>1 DEF Live
<1>7. Members(destroyed) \cap Members(r) = {}
  BY <1>4, <1>5, <1>6
<1>8. /\ destroyed \o r \in Seq(Destructible) /\ Distinct(destroyed \o r)
      /\ Members(destroyed \o r) = Members(destroyed) \cup Members(r)
  BY <1>4, <1>5, <1>7, ConcatIs, ConcatKeepsDistinct
<1> QED BY <1>3, <1>4, <1>8
-----------------------------------------------------------------------------
(* The ledger, whatever leaves the region and whatever comes.              *)

LedgerTypes ==
  /\ track \in Seq(Destructible) /\ destroyed \in Seq(Destructible) /\ born \in Seq(Objects)
  /\ state \in [Objects -> {"unborn", "live", "dead", "moved"}]

\* Many at once: the first k - 1 entries are of those that stay.
LEMMA CutKeepsLedger ==
  ASSUME RegionAssumption, TypeOK, Shape, Ledger,
         NEW k \in 1..(Len(track) + 1), NEW stay \in SUBSET Live,
         flavor = "stack" => \A i \in k..Len(track) : StampAt(at[track[i]]) = "Live",
         \A i \in DOMAIN track : track[i] \in stay <=> i < k,
         DestroyFrom(k),
         state' = [o \in Objects |-> IF o \in Live \ stay THEN "dead" ELSE state[o]],
         UNCHANGED <<flavor, at, born>>
  PROVE  Ledger' /\ LedgerTypes' /\ Live' = stay
<1>1. /\ TrackUpwards /\ BornOnce /\ TrackByBirth /\ RegistryIsTheLiving /\ DestructedOnce
      /\ Destructible \subseteq Objects
  BY DEF Ledger, RegionAssumption
<1>2. /\ Len(track) \in Nat /\ DOMAIN track = 1..Len(track)
      /\ Members(track) = Live \cap Destructible
  BY <1>1, TrackedLives
<1>3. /\ track' \in Seq(Destructible) /\ Distinct(track') /\ Thinned(track', track)
      /\ Members(track') = {track[i] : i \in 1..(k - 1)}
      /\ destroyed' \in Seq(Destructible) /\ Distinct(destroyed')
      /\ Members(destroyed') = Members(destroyed) \cup {track[i] : i \in k..Len(track)}
  BY <1>1, CutIs
<1>4. /\ state \in [Objects -> {"unborn", "live", "dead", "moved"}]
      /\ \A o \in Objects : state'[o] = IF o \in Live \ stay THEN "dead" ELSE state[o]
  BY DEF TypeOK
<1>5. \A o \in Objects : o \in Live <=> state[o] = "live"
  BY DEF Live
<1>6. Live' = stay
  <2>1. Live' = {o \in Objects : state'[o] = "live"}
    BY DEF Live
  <2>2. \A o \in Objects : state'[o] = "live" <=> o \in stay
    BY <1>4, <1>5
  <2>3. stay \subseteq Objects
    BY DEF Live
  <2> QED BY <2>1, <2>2, <2>3
<1>7. LedgerTypes'
  <2>1. state' \in [Objects -> {"unborn", "live", "dead", "moved"}]
    BY <1>4
  <2>2. born' \in Seq(Objects)
    BY DEF TypeOK
  <2> QED BY <1>3, <2>1, <2>2 DEF LedgerTypes
<1>8. RegistryIsTheLiving'
  <2>1. {track[i] : i \in 1..(k - 1)} = stay \cap Destructible
    <3>1. \A i \in 1..(k - 1) : i \in DOMAIN track /\ track[i] \in stay /\ track[i] \in Destructible
      BY <1>2 DEF Members
    <3>2. ASSUME NEW o \in stay \cap Destructible PROVE \E i \in 1..(k - 1) : track[i] = o
      <4>1. PICK i \in DOMAIN track : track[i] = o
        BY <1>2, <3>2 DEF Members
      <4>2. i < k
        BY <3>2, <4>1
      <4>3. i \in 1..(k - 1)
        BY <1>2, <4>2
      <4> QED BY <4>1, <4>3
    <3> QED BY <3>1, <3>2
  <2> QED BY <1>3, <1>6, <2>1 DEF RegistryIsTheLiving, Members
<1>9. DestructedOnce'
  <2>1. {track[i] : i \in k..Len(track)} = (Live \ stay) \cap Destructible
    <3>1. \A i \in k..Len(track) : i \in DOMAIN track /\ ~(i < k)
      BY <1>2
    <3>2. \A i \in k..Len(track) : track[i] \in (Live \ stay) \cap Destructible
      BY <1>2, <3>1 DEF Members
    <3>3. ASSUME NEW o \in (Live \ stay) \cap Destructible PROVE \E i \in k..Len(track) : track[i] = o
      <4>1. PICK i \in DOMAIN track : track[i] = o
        BY <1>2, <3>3 DEF Members
      <4>2. ~(i < k)
        BY <3>3, <4>1
      <4>3. i \in k..Len(track)
        BY <1>2, <4>2
      <4> QED BY <4>1, <4>3
    <3> QED BY <3>2, <3>3
  <2>2. Members(destroyed) = {o \in Destructible : state[o] = "dead"}
    BY <1>1 DEF DestructedOnce, Members
  <2>3. \A o \in Destructible : state'[o] = "dead" <=> (state[o] = "dead" \/ o \in Live \ stay)
    BY <1>1, <1>4
  <2>4. Members(destroyed') = {o \in Destructible : state'[o] = "dead"}
    BY <1>3, <2>1, <2>2, <2>3
  <2> QED BY <1>3, <2>4 DEF DestructedOnce, Members
<1>10. BornOnce'
  <2>1. \A o \in Objects : state'[o] # "unborn" <=> state[o] # "unborn"
    BY <1>4, <1>5
  <2> QED BY <1>1, <2>1 DEF BornOnce, Members
<1>11. TrackUpwards' /\ TrackByBirth'
  <2>1. /\ flavor = "stack" => \A i, j \in DOMAIN track' : i < j => at[track'[i]][2] < at[track'[j]][2]
        /\ \A i, j \in DOMAIN track' : i < j =>
             \A m, n \in DOMAIN born : born[m] = track'[i] /\ born[n] = track'[j] => m < n
    BY <1>1, <1>3, OrderStays
  <2> QED BY <2>1 DEF TrackUpwards, TrackByBirth
<1> QED BY <1>6, <1>7, <1>8, <1>9, <1>10, <1>11 DEF Ledger

\* One object, by hand: it dies, or moves away.
LEMMA LeavingKeepsLedger ==
  ASSUME RegionAssumption, TypeOK, Housed, HousedApart, Ledger,
         NEW o \in Live, NEW to \in {"dead", "moved"}, Untrack(o),
         state' = [state EXCEPT ![o] = to],
         destroyed' = IF to = "dead" /\ o \in Destructible THEN Append(destroyed, o) ELSE destroyed,
         UNCHANGED <<flavor, at, born>>
  PROVE  Ledger' /\ LedgerTypes' /\ Live' = Live \ {o}
<1>1. /\ TrackUpwards /\ BornOnce /\ TrackByBirth /\ RegistryIsTheLiving /\ DestructedOnce
      /\ Destructible \subseteq Objects
  BY DEF Ledger, RegionAssumption
<1>2. /\ track' \in Seq(Destructible) /\ Distinct(track') /\ Thinned(track', track)
      /\ Members(track') = (Live \ {o}) \cap Destructible
  BY <1>1, UntrackIs
<1>3. o \in Objects /\ state[o] = "live" /\ \A p \in Objects : p \in Live <=> state[p] = "live"
  BY DEF Live
<1>4. /\ state \in [Objects -> {"unborn", "live", "dead", "moved"}]
      /\ \A p \in Objects : state'[p] = IF p = o THEN to ELSE state[p]
  BY <1>3 DEF TypeOK
<1>5. Live' = Live \ {o}
  BY <1>3, <1>4 DEF Live
<1>6. /\ destroyed \in Seq(Destructible) /\ Distinct(destroyed)
      /\ Members(destroyed) = {p \in Destructible : state[p] = "dead"}
  BY <1>1 DEF TypeOK, DestructedOnce, Members
<1>7. /\ destroyed' \in Seq(Destructible) /\ Distinct(destroyed')
      /\ Members(destroyed') = {p \in Destructible : state'[p] = "dead"}
  <2>1. CASE to = "dead" /\ o \in Destructible
    <3>1. destroyed' = Append(destroyed, o) /\ o \notin Members(destroyed)
      BY <1>3, <1>6, <2>1
    <3>2. Distinct(destroyed') /\ Members(destroyed') = Members(destroyed) \cup {o}
      BY <1>6, <2>1, <3>1, AppendKeepsDistinct
    <3>3. \A p \in Destructible : state'[p] = "dead" <=> (state[p] = "dead" \/ p = o)
      BY <1>1, <1>4, <2>1
    <3> QED BY <1>6, <2>1, <3>1, <3>2, <3>3, AppendIs
  <2>2. CASE ~(to = "dead" /\ o \in Destructible)
    <3>1. destroyed' = destroyed
      BY <2>2
    <3>2. \A p \in Destructible : state'[p] = "dead" <=> state[p] = "dead"
      BY <1>1, <1>3, <1>4, <2>2
    <3> QED BY <1>6, <3>1, <3>2
  <2> QED BY <2>1, <2>2
<1>8. LedgerTypes'
  <2>1. state' \in [Objects -> {"unborn", "live", "dead", "moved"}]
    BY <1>3, <1>4
  <2>2. born' \in Seq(Objects)
    BY DEF TypeOK
  <2> QED BY <1>2, <1>7, <2>1, <2>2 DEF LedgerTypes
<1>9. RegistryIsTheLiving' /\ DestructedOnce'
  BY <1>2, <1>5, <1>7 DEF RegistryIsTheLiving, DestructedOnce, Members
<1>10. BornOnce'
  <2>1. \A p \in Objects : state'[p] # "unborn" <=> state[p] # "unborn"
    BY <1>3, <1>4
  <2> QED BY <1>1, <2>1 DEF BornOnce, Members
<1>11. TrackUpwards' /\ TrackByBirth'
  <2>1. /\ flavor = "stack" => \A i, j \in DOMAIN track' : i < j => at[track'[i]][2] < at[track'[j]][2]
        /\ \A i, j \in DOMAIN track' : i < j =>
             \A m, n \in DOMAIN born : born[m] = track'[i] /\ born[n] = track'[j] => m < n
    BY <1>1, <1>2, OrderStays
  <2> QED BY <2>1 DEF TrackUpwards, TrackByBirth
<1> QED BY <1>1, <1>5, <1>8, <1>9, <1>10, <1>11 DEF Ledger

\* A new object is the last in every order.
LEMMA PlacingKeepsLedger ==
  ASSUME RegionAssumption, TypeOK, Ledger, NEW o \in Objects, NEW a, Place(o, a),
         flavor = "stack" => \A p \in Live : at[p][2] < a[2]
  PROVE  /\ Ledger' /\ LedgerTypes' /\ Live' = Live \cup {o} /\ o \notin Live
         /\ \A p \in Objects : at'[p] = IF p = o THEN a ELSE at[p]
<1>1. /\ TrackUpwards /\ BornOnce /\ TrackByBirth /\ RegistryIsTheLiving /\ DestructedOnce
      /\ Destructible \subseteq Objects
  BY DEF Ledger, RegionAssumption
<1>2. /\ track \in Seq(Destructible) /\ Len(track) \in Nat /\ DOMAIN track = 1..Len(track)
      /\ Distinct(track) /\ Members(track) = Live \cap Destructible
      /\ \A i \in DOMAIN track : track[i] \in Live \cap Destructible
  BY <1>1, TrackedLives
<1>3. /\ state[o] = "unborn" /\ state' = [state EXCEPT ![o] = "live"] /\ at' = [at EXCEPT ![o] = a]
      /\ born' = Append(born, o) /\ destroyed' = destroyed /\ flavor' = flavor
      /\ track' = IF o \in Destructible THEN Append(track, o) ELSE track
  BY DEF Place, declared
<1>4. \A p \in Objects : p \in Live <=> state[p] = "live"
  BY DEF Live
<1>5. /\ state \in [Objects -> {"unborn", "live", "dead", "moved"}]
      /\ \A p \in Objects : state'[p] = IF p = o THEN "live" ELSE state[p]
      /\ \A p \in Objects : at'[p] = IF p = o THEN a ELSE at[p]
  BY <1>3 DEF TypeOK
<1>6. Live' = Live \cup {o} /\ o \notin Live
  BY <1>3, <1>4, <1>5 DEF Live
<1>7. /\ born \in Seq(Objects) /\ Distinct(born) /\ Members(born) = {p \in Objects : state[p] # "unborn"}
  BY <1>1 DEF TypeOK, BornOnce
<1>8. /\ born' \in Seq(Objects) /\ Distinct(born')
      /\ Members(born') = Members(born) \cup {o}
      /\ Len(born) \in Nat /\ DOMAIN born = 1..Len(born)
      /\ DOMAIN born' = 1..(Len(born) + 1) /\ born'[Len(born) + 1] = o
      /\ \A i \in DOMAIN born : born'[i] = born[i]
  BY <1>3, <1>7, AppendIs, AppendKeepsDistinct, SeqIs
<1>9. BornOnce'
  <2>1. \A p \in Objects : state'[p] # "unborn" <=> (state[p] # "unborn" \/ p = o)
    BY <1>5
  <2> QED BY <1>7, <1>8, <2>1 DEF BornOnce
<1>10. /\ track' \in Seq(Destructible) /\ Distinct(track')
       /\ Members(track') = Live' \cap Destructible
  <2>1. CASE o \in Destructible
    <3>1. o \notin Members(track) /\ track' = Append(track, o)
      BY <1>2, <1>3, <1>6, <2>1
    <3>2. Distinct(track') /\ Members(track') = Members(track) \cup {o} /\ track' \in Seq(Destructible)
      BY <1>2, <2>1, <3>1, AppendKeepsDistinct, AppendIs
    <3> QED BY <1>2, <1>6, <2>1, <3>2
  <2>2. CASE o \notin Destructible
    BY <1>2, <1>3, <1>6, <2>2
  <2> QED BY <2>1, <2>2
<1>11. LedgerTypes'
  <2>1. state' \in [Objects -> {"unborn", "live", "dead", "moved"}]
    BY <1>5, <1>3
  <2>2. destroyed' \in Seq(Destructible)
    BY <1>3 DEF TypeOK
  <2> QED BY <1>8, <1>10, <2>1, <2>2 DEF LedgerTypes
<1>12. RegistryIsTheLiving'
  BY <1>10 DEF RegistryIsTheLiving, Members
<1>13. DestructedOnce'
  <2>1. \A p \in Destructible : state'[p] = "dead" <=> state[p] = "dead"
    BY <1>1, <1>3, <1>5
  <2> QED BY <1>1, <1>3, <2>1 DEF DestructedOnce
\* An entry is an old one, at its old place, or the one at the end, o's.
<1>14. \A i \in DOMAIN track' : \/ i \in DOMAIN track /\ track'[i] = track[i]
                                \/ /\ i \notin DOMAIN track /\ track'[i] = o
                                   /\ \A j \in DOMAIN track' : j <= i
  <2>1. CASE o \in Destructible
    <3>1. /\ DOMAIN track' = 1..(Len(track) + 1) /\ track'[Len(track) + 1] = o
          /\ \A i \in 1..Len(track) : track'[i] = track[i]
      BY <1>2, <1>3, <2>1, AppendIs
    <3> QED BY <1>2, <3>1
  <2>2. CASE o \notin Destructible
    BY <1>3, <2>2
  <2> QED BY <2>1, <2>2
<1>15. ASSUME NEW i \in DOMAIN track', NEW j \in DOMAIN track', i < j
       PROVE  /\ i \in DOMAIN track /\ track'[i] = track[i] /\ track[i] # o
              /\ \/ j \in DOMAIN track /\ track'[j] = track[j] /\ track[j] # o
                 \/ track'[j] = o
  <2>1. i \in Nat /\ j \in Nat
    BY <1>10, SeqIs
  <2> QED BY <1>2, <1>6, <1>14, <1>15, <2>1
<1>16. TrackUpwards'
  <2> SUFFICES ASSUME flavor = "stack", NEW i \in DOMAIN track', NEW j \in DOMAIN track', i < j
               PROVE  at'[track'[i]][2] < at'[track'[j]][2]
    BY <1>3 DEF TrackUpwards
  <2>1. /\ i \in DOMAIN track /\ track'[i] = track[i] /\ track[i] # o /\ track[i] \in Live
        /\ track[i] \in Objects /\ at'[track'[i]] = at[track[i]]
    BY <1>2, <1>5, <1>15 DEF Live
  <2>2. CASE j \in DOMAIN track /\ track'[j] = track[j] /\ track[j] # o
    <3>1. at'[track'[j]] = at[track[j]]
      BY <1>2, <1>5, <2>2 DEF Live
    <3> QED BY <1>1, <2>1, <2>2, <3>1 DEF TrackUpwards
  <2>3. CASE track'[j] = o
    BY <1>5, <2>1, <2>3
  <2> QED BY <1>15, <2>2, <2>3
<1>17. TrackByBirth'
  <2> SUFFICES ASSUME NEW i \in DOMAIN track', NEW j \in DOMAIN track', i < j,
                      NEW m \in DOMAIN born', NEW n \in DOMAIN born',
                      born'[m] = track'[i], born'[n] = track'[j]
               PROVE  m < n
    BY DEF TrackByBirth
  <2>1. i \in DOMAIN track /\ track'[i] = track[i] /\ track[i] # o
    BY <1>15
  <2>2. m \in DOMAIN born /\ born[m] = track[i]
    <3>1. m # Len(born) + 1
      BY <1>8, <2>1
    <3>2. m \in DOMAIN born
      BY <1>8, <3>1
    <3> QED BY <1>8, <2>1, <3>2
  <2>3. CASE n \in DOMAIN born
    <3>1. born[n] \in Members(born) /\ born[n] # o
      BY <1>3, <1>7, <2>3 DEF Members
    <3>2. j \in DOMAIN track /\ track'[j] = track[j] /\ born[n] = track[j]
      BY <1>8, <1>15, <2>3, <3>1
    <3> QED BY <1>1, <2>1, <2>2, <2>3, <3>2 DEF TrackByBirth
  <2>4. CASE n \notin DOMAIN born
    BY <1>8, <2>2, <2>4
  <2> QED BY <2>3, <2>4
<1> QED BY <1>1, <1>5, <1>6, <1>9, <1>11, <1>12, <1>13, <1>16, <1>17 DEF Ledger
-----------------------------------------------------------------------------
(* The ground, whatever is placed.                                         *)

GroundTypes ==
  /\ used \in Seq(Nat) /\ cap \in Seq(Nat) /\ DOMAIN cap = 1..Chain
  /\ DOMAIN slot \subseteq Addresses
  /\ \A a \in DOMAIN slot : slot[a] \in [stamp : {"Live", "Freed"}, size : Nat \ {0}]
  /\ free \in [1..Large -> Seq(DOMAIN slot)]
  /\ at \in [Objects -> Addresses \cup {Nowhere}]
  /\ marks \in Seq([cursor : Nat, born : SUBSET Objects])

LEMMA BlockIs ==
  ASSUME TypeOK
  PROVE  /\ Chain \in Nat /\ DOMAIN used = 1..Chain /\ DOMAIN cap = 1..Chain
         /\ \A b \in 1..Chain : used[b] \in Nat /\ cap[b] \in Nat
  BY SeqIs DEF TypeOK, Chain

LEMMA SlotIs ==
  ASSUME TypeOK, NEW a \in DOMAIN slot
  PROVE  /\ a = <<a[1], a[2]>> /\ a[1] \in 1..Chain /\ a[2] \in Nat
         /\ slot[a].size \in Nat \ {0} /\ slot[a].stamp \in {"Live", "Freed"}
         /\ used[a[1]] \in Nat /\ a \in Addresses
<1>1. a \in (1..Chain) \X Nat /\ slot[a] \in [stamp : {"Live", "Freed"}, size : Nat \ {0}]
  BY DEF TypeOK, Addresses
<1>2. a = <<a[1], a[2]>> /\ a[1] \in 1..Chain /\ a[2] \in Nat
  BY <1>1
<1>3. slot[a].size \in Nat \ {0} /\ slot[a].stamp \in {"Live", "Freed"}
  BY <1>1
<1>4. used[a[1]] \in Nat
  BY <1>2, BlockIs
<1>5. a \in Addresses
  BY <1>1 DEF Addresses
<1> QED BY <1>2, <1>3, <1>4, <1>5

\* A header is written over: only its stamp changes.
LEMMA RestampIs ==
  ASSUME TypeOK, NEW a \in DOMAIN slot, NEW s \in {"Live", "Freed"},
         slot' = [slot EXCEPT ![a].stamp = s]
  PROVE  /\ DOMAIN slot' = DOMAIN slot
         /\ \A x \in DOMAIN slot :
              /\ slot'[x] \in [stamp : {"Live", "Freed"}, size : Nat \ {0}]
              /\ slot'[x].size = slot[x].size
              /\ slot'[x].stamp = IF x = a THEN s ELSE slot[x].stamp
<1>1. DOMAIN slot' = DOMAIN slot
  OBVIOUS
<1>2. ASSUME NEW x \in DOMAIN slot
      PROVE  /\ slot'[x] \in [stamp : {"Live", "Freed"}, size : Nat \ {0}]
             /\ slot'[x].size = slot[x].size
             /\ slot'[x].stamp = IF x = a THEN s ELSE slot[x].stamp
  <2>1. slot[x] \in [stamp : {"Live", "Freed"}, size : Nat \ {0}]
    BY DEF TypeOK
  <2>2. CASE x = a
    <3>1. slot'[x] = [slot[x] EXCEPT !.stamp = s]
      BY <2>2
    <3> QED BY <2>1, <2>2, <3>1
  <2>3. CASE x # a
    <3>1. slot'[x] = slot[x]
      BY <2>3
    <3> QED BY <2>1, <2>3, <3>1
  <2> QED BY <2>2, <2>3
<1> QED BY <1>1, <1>2

LEMMA FreeIs ==
  ASSUME TypeOK, NEW c \in 1..Large
  PROVE  /\ free[c] \in Seq(DOMAIN slot) /\ Len(free[c]) \in Nat /\ DOMAIN free[c] = 1..Len(free[c])
         /\ \A i \in DOMAIN free[c] : free[c][i] \in DOMAIN slot
<1>1. free[c] \in Seq(DOMAIN slot)
  BY DEF TypeOK
<1> QED BY <1>1, SeqIs

LEMMA MarkIs ==
  ASSUME TypeOK, NEW i \in DOMAIN marks
  PROVE  marks[i].cursor \in Nat /\ marks[i].born \subseteq Objects
<1> DEFINE M == [cursor : Nat, born : SUBSET Objects]
<1>1. marks \in Seq(M)
  BY DEF TypeOK
<1> HIDE DEF M
<1>2. marks[i] \in M
  BY <1>1, SeqIs
<1> USE DEF M
<1> QED BY <1>2

LEMMA ClassIs ==
  ASSUME RegionAssumption, NEW n \in Nat \ {0}
  PROVE  /\ ClassOf(n) \in 1..Large /\ Large \in Nat
         /\ n <= PoolMax => ClassOf(n) = n
         /\ n > PoolMax => ClassOf(n) = Large
         /\ \A m \in Nat \ {0} : ClassOf(m) = ClassOf(n) /\ n <= PoolMax => m = n
  BY DEF RegionAssumption, ClassOf, Large

LEMMA ObjectIs ==
  ASSUME RegionAssumption, NEW o \in Objects
  PROVE  Size[o] \in Nat \ {0}
  BY DEF RegionAssumption

\* A slot off a free-list.
LEMMA ReusingKeepsGround ==
  ASSUME RegionAssumption, IInv, NEW o \in Objects, NewReuses(o)
  PROVE  /\ Ground' /\ GroundTypes'
         /\ Ledger' /\ LedgerTypes'
<1> USE DEF IInv
<1> DEFINE c == ClassOf(Size[o])
<1>1. Shape /\ Housed /\ HousedApart /\ PoolSlots /\ FreeLists /\ StackMarks
  BY DEF Ground
<1>2. PICK i \in Fits(o) :
        LET a == free[c][i]
        IN  /\ Place(o, a)
            /\ slot' = [slot EXCEPT ![a].stamp = "Live"]
            /\ free' = [free EXCEPT ![c] = Without(@, i)]
            /\ UNCHANGED blocks
  BY DEF NewReuses
<1> DEFINE a == free[c][i]
<1>3. Size[o] \in Nat \ {0} /\ c \in 1..Large
  BY ObjectIs, ClassIs
<1>4. /\ i \in 1..Len(free[c]) /\ i \in DOMAIN free[c] /\ a \in DOMAIN slot
      /\ Size[o] > PoolMax => slot[a].size = Size[o]
  BY <1>3, FreeIs DEF Fits
<1> HIDE DEF c
<1>5. Place(o, a) /\ slot' = [slot EXCEPT ![a].stamp = "Live"]
      /\ free' = [free EXCEPT ![c] = Without(@, i)] /\ used' = used /\ cap' = cap
      /\ flavor' = flavor /\ growable' = growable /\ marks' = marks
  BY <1>2 DEF blocks, Place, declared
<1>6. flavor = "pool"
  <2>1. flavor = "stack" => free[c] = << >>
    BY <1>1, <1>3 DEF Shape
  <2>2. free[c] # << >>
    BY <1>4
  <2> QED BY <1>1, <2>1, <2>2 DEF Shape
<1>7. slot[a].stamp = "Freed" /\ ClassOf(slot[a].size) = c /\ Distinct(free[c])
  BY <1>1, <1>3, <1>4 DEF FreeLists
<1>8. a \in Addresses /\ a[1] \in 1..Chain /\ a[2] \in Nat /\ slot[a].size \in Nat \ {0}
  BY <1>4, SlotIs
<1>9. slot[a].size = Size[o]
  <2>1. CASE Size[o] > PoolMax
    BY <1>4, <2>1
  <2>2. CASE ~(Size[o] > PoolMax)
    <3>1. Size[o] <= PoolMax
      BY <1>3, <2>2 DEF RegionAssumption
    <3> QED BY <1>3, <1>7, <1>8, <3>1, ClassIs DEF c
  <2> QED BY <2>1, <2>2
<1> HIDE DEF a
<1>10. /\ DOMAIN slot' = DOMAIN slot
       /\ \A x \in DOMAIN slot :
            /\ slot'[x] \in [stamp : {"Live", "Freed"}, size : Nat \ {0}]
            /\ slot'[x].size = slot[x].size
            /\ slot'[x].stamp = IF x = a THEN "Live" ELSE slot[x].stamp
  BY <1>4, <1>5, RestampIs DEF a
<1>11. /\ Ledger' /\ LedgerTypes' /\ Live' = Live \cup {o} /\ o \notin Live
       /\ \A p \in Objects : at'[p] = IF p = o THEN a ELSE at[p]
  BY <1>5, <1>6, PlacingKeepsLedger
<1>12. \A p \in Live : /\ p \in Objects /\ p # o /\ at'[p] = at[p] /\ at[p] \in DOMAIN slot
                       /\ at[p] # a /\ slot[at[p]].stamp = "Live" /\ slot[at[p]].size = Size[p]
                       /\ at[p][2] + Size[p] < used[at[p][1]]
  <2> TAKE p \in Live
  <2>1. p \in Objects /\ p # o /\ at'[p] = at[p]
    BY <1>11 DEF Live
  <2> QED BY <1>1, <1>7, <2>1 DEF Housed
<1>13. /\ a[2] + slot[a].size < used[a[1]]
       /\ \A x, y \in DOMAIN slot : x # y => Clear(x, slot[x].size, y, slot[y].size)
  BY <1>1, <1>4, <1>6 DEF PoolSlots, a
<1>14. a \in DOMAIN slot
  BY <1>4 DEF a
<1>15. Shape'
  BY <1>1, <1>5, <1>6 DEF Shape, Chain
<1>16. Housed'
  <2> SUFFICES ASSUME NEW p \in Live'
               PROVE  /\ at'[p] \in DOMAIN slot'
                      /\ slot'[at'[p]].stamp = "Live" /\ slot'[at'[p]].size = Size[p]
                      /\ at'[p][2] + Size[p] < used'[at'[p][1]]
    BY DEF Housed
  <2>1. CASE p = o
    BY <1>5, <1>9, <1>10, <1>11, <1>13, <1>14, <2>1
  <2>2. CASE p \in Live
    BY <1>5, <1>10, <1>12, <2>2
  <2> QED BY <1>11, <2>1, <2>2
<1>17. HousedApart'
  <2> SUFFICES ASSUME NEW p \in Live', NEW q \in Live', p # q
               PROVE  Clear(at'[p], Size[p], at'[q], Size[q])
    BY DEF HousedApart
  <2>1. \A r \in Live' : at'[r] \in DOMAIN slot /\ slot[at'[r]].size = Size[r]
    BY <1>9, <1>11, <1>12, <1>14
  <2>2. at'[p] # at'[q]
    <3>1. CASE p \in Live /\ q \in Live
      BY <1>1, <1>12, <3>1, NobodyShares
    <3>2. CASE p = o /\ q \in Live
      BY <1>11, <1>12, <3>2
    <3>3. CASE q = o /\ p \in Live
      BY <1>11, <1>12, <3>3
    <3> QED BY <1>11, <3>1, <3>2, <3>3
  <2> QED BY <1>13, <2>1, <2>2
<1>18. PoolSlots'
  BY <1>1, <1>5, <1>10 DEF PoolSlots
<1>19. /\ DOMAIN free' = 1..Large
       /\ free'[c] = Without(free[c], i)
       /\ \A d \in 1..Large \ {c} : free'[d] = free[d]
  BY <1>3, <1>5 DEF TypeOK
<1>20. /\ free'[c] \in Seq(DOMAIN slot) /\ Distinct(free'[c])
       /\ Members(free'[c]) = Members(free[c]) \ {a}
  <2>1. free[c] \in Seq(DOMAIN slot) /\ i \in 1..Len(free[c])
    BY <1>3, <1>4, FreeIs
  <2> QED BY <1>7, <1>19, <2>1, WithoutIs, WithoutKeepsDistinct DEF a
<1>21. FreeLists'
  <2> SUFFICES ASSUME NEW d \in 1..Large
               PROVE  /\ Distinct(free'[d])
                      /\ \A j \in DOMAIN free'[d] : /\ slot'[free'[d][j]].stamp = "Freed"
                                                    /\ ClassOf(slot'[free'[d][j]].size) = d
    BY DEF FreeLists
  <2>1. Distinct(free[d]) /\ \A j \in DOMAIN free[d] : /\ slot[free[d][j]].stamp = "Freed"
                                                       /\ ClassOf(slot[free[d][j]].size) = d
                                                       /\ free[d][j] \in DOMAIN slot
    BY <1>1, FreeIs DEF FreeLists
  <2>2. CASE d = c
    <3>1. ASSUME NEW j \in DOMAIN free'[d]
          PROVE  \E k \in DOMAIN free[d] : free'[d][j] = free[d][k] /\ free[d][k] # a
      <4>1. free'[d][j] \in Members(free[c]) \ {a}
        BY <1>20, <2>2, <3>1 DEF Members
      <4> QED BY <2>2, <4>1 DEF Members
    <3>2. ASSUME NEW j \in DOMAIN free'[d]
          PROVE  /\ slot'[free'[d][j]].stamp = "Freed"
                 /\ ClassOf(slot'[free'[d][j]].size) = d
      <4>1. PICK k \in DOMAIN free[d] : free'[d][j] = free[d][k] /\ free[d][k] # a
        BY <3>1
      <4> QED BY <1>10, <2>1, <4>1
    <3> QED BY <1>20, <2>2, <3>2
  <2>3. CASE d # c
    <3>1. \A j \in DOMAIN free[d] : free[d][j] # a
      BY <1>7, <2>1, <2>3
    <3> QED BY <1>10, <1>19, <2>1, <2>3, <3>1
  <2> QED BY <2>2, <2>3
<1>22. StackMarks'
  BY <1>5, <1>6 DEF StackMarks
<1>23. GroundTypes'
  <2>1. free' \in [1..Large -> Seq(DOMAIN slot')]
    <3>1. \A d \in 1..Large : free'[d] \in Seq(DOMAIN slot)
      <4> TAKE d \in 1..Large
      <4> QED BY <1>19, <1>20, FreeIs
    <3>2. free' = [d \in 1..Large |-> free'[d]]
      BY <1>5, <1>19 DEF TypeOK
    <3> QED BY <1>10, <3>1, <3>2
  <2>2. at' \in [Objects -> Addresses \cup {Nowhere}]
    BY <1>5, <1>8 DEF TypeOK, Place, a
  <2>3. Chain' = Chain /\ Addresses' = Addresses
    BY <1>5 DEF Chain, Addresses
  <2> QED BY <1>5, <1>10, <2>1, <2>2, <2>3 DEF TypeOK, GroundTypes
<1> QED BY <1>11, <1>15, <1>16, <1>17, <1>18, <1>21, <1>22, <1>23 DEF Ground

\* What is carved has a header; what lies below the cursor keeps its own.
LEMMA CarveIs ==
  ASSUME RegionAssumption, TypeOK, NEW o \in Objects, NEW b \in Nat, NEW off \in Nat,
         Carve(b, off, Size[o])
  PROVE  /\ <<b, off>> \in DOMAIN slot'
         /\ slot'[<<b, off>>].stamp = "Live" /\ slot'[<<b, off>>].size = Size[o]
         /\ \A x \in DOMAIN slot' : x = <<b, off>> \/ (x \in DOMAIN slot /\ slot'[x] = slot[x])
         /\ \A x \in DOMAIN slot : x[1] # b \/ x[2] < off =>
              x \in DOMAIN slot' /\ slot'[x] = slot[x] /\ x # <<b, off>>
         /\ \A x \in DOMAIN slot' : slot'[x] \in [stamp : {"Live", "Freed"}, size : Nat \ {0}]
<1> DEFINE D == {a \in DOMAIN slot : a[1] # b \/ a[2] \notin off..(off + Size[o])} \cup {<<b, off>>}
           new == [stamp |-> "Live", size |-> Size[o]]
<1>1. slot' = [a \in D |-> IF a = <<b, off>> THEN new ELSE slot[a]]
  BY DEF Carve
<1>2. new \in [stamp : {"Live", "Freed"}, size : Nat \ {0}] /\ new.stamp = "Live" /\ new.size = Size[o]
  BY ObjectIs
<1>3. <<b, off>> \in D
  OBVIOUS
<1>4. \A x \in D : x # <<b, off>> => x \in DOMAIN slot
  OBVIOUS
<1>5. ASSUME NEW x \in DOMAIN slot, x[1] # b \/ x[2] < off
      PROVE  x \in D /\ x # <<b, off>>
  <2>1. x = <<x[1], x[2]>> /\ x[2] \in Nat
    BY SlotIs
  <2>2. x # <<b, off>>
    BY <1>5, <2>1
  <2>3. CASE x[1] # b
    BY <2>2, <2>3
  <2>4. CASE x[2] < off
    <3>1. x[2] \notin off..(off + Size[o])
      BY <2>1, <2>4
    <3> QED BY <2>2, <3>1
  <2> QED BY <1>5, <2>3, <2>4
<1> HIDE DEF D, new
<1>6. DOMAIN slot' = D
  BY <1>1
<1>7. \A x \in D : slot'[x] = IF x = <<b, off>> THEN new ELSE slot[x]
  BY <1>1
<1>8. \A x \in DOMAIN slot : slot[x] \in [stamp : {"Live", "Freed"}, size : Nat \ {0}]
  BY DEF TypeOK
<1>9. slot'[<<b, off>>] = new
  BY <1>3, <1>7
<1>10. \A x \in D : x = <<b, off>> \/ (x \in DOMAIN slot /\ slot'[x] = slot[x])
  BY <1>4, <1>7
<1>11. \A x \in DOMAIN slot : x[1] # b \/ x[2] < off => x \in D /\ slot'[x] = slot[x] /\ x # <<b, off>>
  BY <1>5, <1>7
<1>12. \A x \in D : slot'[x] \in [stamp : {"Live", "Freed"}, size : Nat \ {0}]
  BY <1>2, <1>8, <1>9, <1>10
<1> QED BY <1>2, <1>3, <1>6, <1>9, <1>10, <1>11, <1>12

\* A slot of bytes that nobody has.
LEMMA CarvingKeepsGround ==
  ASSUME RegionAssumption, IInv, NEW o \in Objects, NEW b \in Nat, NEW off \in Nat,
         Place(o, <<b, off>>), Carve(b, off, Size[o]), UNCHANGED free,
         used' \in Seq(Nat), cap' \in Seq(Nat), DOMAIN cap' = 1..Chain',
         Chain' \in Nat, Chain <= Chain', b \in 1..Chain', flavor = "stack" => Chain' = 1,
         \A x \in 1..Chain' : used'[x] <= cap'[x],
         \A x \in 1..Chain : used'[x] = IF x = b THEN off + SlotSize(Size[o]) ELSE used[x],
         used'[b] = off + SlotSize(Size[o]),
         b \in 1..Chain => used[b] = off
  PROVE  /\ Ground' /\ GroundTypes'
         /\ Ledger' /\ LedgerTypes'
<1> USE DEF IInv
<1> DEFINE a == <<b, off>>
<1>1. Shape /\ Housed /\ HousedApart /\ PoolSlots /\ FreeLists /\ StackMarks
  BY DEF Ground
<1>2. Size[o] \in Nat \ {0} /\ Chain \in Nat /\ \A x \in 1..Chain : used[x] \in Nat
  BY ObjectIs, BlockIs
<1>3. /\ a \in DOMAIN slot' /\ slot'[a].stamp = "Live" /\ slot'[a].size = Size[o]
      /\ \A x \in DOMAIN slot' : x = a \/ (x \in DOMAIN slot /\ slot'[x] = slot[x])
      /\ \A x \in DOMAIN slot : x[1] # b \/ x[2] < off =>
           x \in DOMAIN slot' /\ slot'[x] = slot[x] /\ x # a
      /\ \A x \in DOMAIN slot' : slot'[x] \in [stamp : {"Live", "Freed"}, size : Nat \ {0}]
  BY CarveIs
<1>4. a[1] = b /\ a[2] = off
  OBVIOUS
<1> HIDE DEF a
\* Whatever ends below the cursor of its block keeps its header, and is clear of the new slot.
<1>5. ASSUME NEW x \in DOMAIN slot, NEW n \in Nat, x[2] + n < used[x[1]]
      PROVE  /\ x \in DOMAIN slot' /\ slot'[x] = slot[x] /\ x # a
             /\ x[2] + n < used'[x[1]]
             /\ Clear(x, n, a, Size[o]) /\ Clear(a, Size[o], x, n)
  <2>1. x[1] \in 1..Chain /\ x[2] \in Nat /\ used[x[1]] \in Nat
    BY SlotIs
  <2>2. CASE x[1] = b
    <3>1. x[2] + n < off
      BY <1>5, <2>1, <2>2
    <3>2. x[2] < off
      BY <2>1, <3>1
    <3>3. off < used'[x[1]]
      BY <1>2, <2>1, <2>2 DEF SlotSize
    <3>4. used'[x[1]] \in Int /\ off <= used'[x[1]]
      BY <1>2, <2>2 DEF SlotSize
    <3>5. x[2] + n < used'[x[1]]
      <4>1. x[2] + n \in Int
        BY <2>1
      <4>2. \A y, z \in Int : y < off /\ off <= z => y < z
        OBVIOUS
      <4> QED BY <3>1, <3>4, <4>1, <4>2
    <3> QED BY <1>3, <1>4, <3>1, <3>2, <3>5 DEF Clear
  <2>3. CASE x[1] # b
    <3>1. used'[x[1]] = used[x[1]]
      BY <2>1, <2>3
    <3> QED BY <1>3, <1>4, <1>5, <2>3, <3>1 DEF Clear
  <2> QED BY <2>2, <2>3
<1>6. \A p \in Live : /\ p \in Objects /\ at[p] \in DOMAIN slot /\ Size[p] \in Nat
                      /\ slot[at[p]].stamp = "Live" /\ slot[at[p]].size = Size[p]
                      /\ at[p] \in DOMAIN slot' /\ slot'[at[p]] = slot[at[p]]
                      /\ at[p][2] + Size[p] < used'[at[p][1]]
                      /\ Clear(at[p], Size[p], a, Size[o]) /\ Clear(a, Size[o], at[p], Size[p])
  <2> TAKE p \in Live
  <2>1. /\ p \in Objects /\ at[p] \in DOMAIN slot /\ Size[p] \in Nat \ {0}
        /\ slot[at[p]].stamp = "Live" /\ slot[at[p]].size = Size[p]
        /\ at[p][2] + Size[p] < used[at[p][1]]
    BY <1>1, LivesSomewhere DEF Housed
  <2> QED BY <1>5, <2>1
<1>7. /\ at' = [at EXCEPT ![o] = a] /\ flavor' = flavor /\ growable' = growable /\ marks' = marks
      /\ free' = free /\ state[o] = "unborn" /\ state' = [state EXCEPT ![o] = "live"]
  BY DEF Place, declared, a
<1>8. ASSUME flavor = "stack", NEW p \in Live PROVE at[p][2] < off
  <2>1. at[p][1] \in 1..Chain /\ at[p][2] \in Nat /\ Size[p] \in Nat /\ used[at[p][1]] \in Nat
    BY <1>1, LivesSomewhere
  <2>2. Chain = 1 /\ b = 1
    BY <1>1, <1>8 DEF Shape
  <2>3. at[p][1] = b /\ b \in 1..Chain
    BY <2>1, <2>2
  <2>4. at[p][2] + Size[p] < off
    BY <1>1, <2>3 DEF Housed
  <2>5. \A m, n \in Nat : m + n < off => m < off
    BY <1>1
  <2> QED BY <2>1, <2>4, <2>5
<1>9. /\ Ledger' /\ LedgerTypes' /\ Live' = Live \cup {o} /\ o \notin Live
      /\ \A p \in Objects : at'[p] = IF p = o THEN a ELSE at[p]
  <2>1. flavor = "stack" => \A p \in Live : at[p][2] < <<b, off>>[2]
    BY <1>8
  <2>2. Place(o, <<b, off>>)
    OBVIOUS
  <2> QED BY <2>1, <2>2, PlacingKeepsLedger DEF a
<1>10. \A p \in Live : p # o /\ at'[p] = at[p]
  BY <1>6, <1>9
<1>11. Shape'
  <2>1. \A x \in 1..Chain' : used'[x] <= cap'[x]
    OBVIOUS
  <2>2. Chain' \in Nat \ {0}
    OBVIOUS
  <2> QED BY <1>1, <1>7, <2>1, <2>2 DEF Shape
<1>12. Housed'
  <2> SUFFICES ASSUME NEW p \in Live'
               PROVE  /\ at'[p] \in DOMAIN slot'
                      /\ slot'[at'[p]].stamp = "Live" /\ slot'[at'[p]].size = Size[p]
                      /\ at'[p][2] + Size[p] < used'[at'[p][1]]
    BY DEF Housed
  <2>1. CASE p = o
    <3>1. off + Size[o] < used'[b]
      BY <1>2 DEF SlotSize
    <3> QED BY <1>3, <1>4, <1>9, <2>1, <3>1
  <2>2. CASE p \in Live
    <3>1. at'[p] = at[p] /\ slot'[at[p]] = slot[at[p]]
      BY <1>6, <1>10, <2>2
    <3>2. /\ at[p] \in DOMAIN slot' /\ slot[at[p]].stamp = "Live" /\ slot[at[p]].size = Size[p]
          /\ at[p][2] + Size[p] < used'[at[p][1]]
      BY <1>6, <2>2
    <3> QED BY <3>1, <3>2
  <2> QED BY <1>9, <2>1, <2>2
<1>13. HousedApart'
  <2> SUFFICES ASSUME NEW p \in Live', NEW q \in Live', p # q
               PROVE  Clear(at'[p], Size[p], at'[q], Size[q])
    BY DEF HousedApart
  <2>1. CASE p \in Live /\ q \in Live
    BY <1>1, <1>10, <2>1 DEF HousedApart
  <2>2. CASE p = o /\ q \in Live
    BY <1>6, <1>9, <1>10, <2>2
  <2>3. CASE q = o /\ p \in Live
    BY <1>6, <1>9, <1>10, <2>3
  <2> QED BY <1>9, <2>1, <2>2, <2>3
<1>14. PoolSlots'
  <2> SUFFICES ASSUME flavor = "pool", NEW x \in DOMAIN slot'
               PROVE  /\ x[2] + slot'[x].size < used'[x[1]]
                      /\ \A y \in DOMAIN slot' : x # y => Clear(x, slot'[x].size, y, slot'[y].size)
    BY <1>7 DEF PoolSlots
  <2>1. \A y \in DOMAIN slot : /\ y[2] + slot[y].size < used'[y[1]] /\ slot'[y] = slot[y]
                               /\ Clear(y, slot[y].size, a, Size[o]) /\ Clear(a, Size[o], y, slot[y].size)
    <3> TAKE y \in DOMAIN slot
    <3>1. y[2] + slot[y].size < used[y[1]] /\ slot[y].size \in Nat
      BY <1>1, SlotIs DEF PoolSlots
    <3> QED BY <1>5, <3>1
  <2>2. a[2] + Size[o] < used'[a[1]]
    BY <1>2, <1>4 DEF SlotSize
  <2>3. x[2] + slot'[x].size < used'[x[1]]
    BY <1>3, <2>1, <2>2
  <2>4. ASSUME NEW y \in DOMAIN slot', x # y
        PROVE  Clear(x, slot'[x].size, y, slot'[y].size)
    <3>1. CASE x \in DOMAIN slot /\ y \in DOMAIN slot
      BY <1>1, <2>1, <2>4, <3>1 DEF PoolSlots
    <3>2. CASE x = a /\ y \in DOMAIN slot
      BY <1>3, <2>1, <3>2
    <3>3. CASE y = a /\ x \in DOMAIN slot
      BY <1>3, <2>1, <3>3
    <3> QED BY <1>3, <2>4, <3>1, <3>2, <3>3
  <2> QED BY <2>3, <2>4
\* The lists of a stack are empty.
<1>15. ASSUME NEW c \in 1..Large, NEW i \in DOMAIN free[c]
       PROVE  /\ free[c][i] \in DOMAIN slot /\ free[c][i] \in DOMAIN slot'
              /\ slot'[free[c][i]] = slot[free[c][i]]
  <2>1. free[c][i] \in DOMAIN slot
    BY <1>15, FreeIs
  <2>2. flavor = "pool"
    BY <1>1, <1>15 DEF Shape
  <2>3. /\ free[c][i][2] + slot[free[c][i]].size < used[free[c][i][1]]
        /\ slot[free[c][i]].size \in Nat
    BY <1>1, <2>1, <2>2, SlotIs DEF PoolSlots
  <2> QED BY <1>5, <2>1, <2>3
<1>16. FreeLists'
  <2> SUFFICES ASSUME NEW c \in 1..Large
               PROVE  /\ Distinct(free[c])
                      /\ \A j \in DOMAIN free[c] : /\ slot'[free[c][j]].stamp = "Freed"
                                                   /\ ClassOf(slot'[free[c][j]].size) = c
    BY <1>7 DEF FreeLists
  <2>1. Distinct(free[c]) /\ \A j \in DOMAIN free[c] : /\ slot[free[c][j]].stamp = "Freed"
                                                       /\ ClassOf(slot[free[c][j]].size) = c
    BY <1>1 DEF FreeLists
  <2>2. \A j \in DOMAIN free[c] : slot'[free[c][j]] = slot[free[c][j]]
    BY <1>15
  <2> QED BY <2>1, <2>2
<1>17. StackMarks'
  <2> SUFFICES ASSUME flavor = "stack", NEW i \in DOMAIN marks
               PROVE  /\ marks[i].cursor <= used'[1]
                      /\ \A j \in DOMAIN marks : i < j => marks[i].cursor <= marks[j].cursor
                      /\ \A p \in marks[i].born : state'[p] # "unborn"
                      /\ \A p \in Live' : /\ p \in marks[i].born => at'[p][2] + Size[p] < marks[i].cursor
                                          /\ p \notin marks[i].born => marks[i].cursor <= at'[p][2]
    BY <1>7 DEF StackMarks
  <2>1. /\ marks[i].cursor <= used[1]
        /\ \A j \in DOMAIN marks : i < j => marks[i].cursor <= marks[j].cursor
        /\ \A p \in marks[i].born : state[p] # "unborn"
        /\ \A p \in Live : /\ p \in marks[i].born => at[p][2] + Size[p] < marks[i].cursor
                           /\ p \notin marks[i].born => marks[i].cursor <= at[p][2]
    BY <1>1 DEF StackMarks
  <2>2. marks[i].cursor \in Nat /\ marks[i].born \subseteq Objects
    BY MarkIs
  <2>3. Chain = 1 /\ b = 1 /\ used[1] = off /\ used'[1] = off + SlotSize(Size[o])
    BY <1>1 DEF Shape
  <2>4. marks[i].cursor <= used'[1]
    BY <1>2, <2>1, <2>2, <2>3 DEF SlotSize
  <2>5. \A p \in marks[i].born : state'[p] # "unborn"
    BY <1>7, <2>1, <2>2 DEF TypeOK
  <2>6. ASSUME NEW p \in Live'
        PROVE  /\ p \in marks[i].born => at'[p][2] + Size[p] < marks[i].cursor
               /\ p \notin marks[i].born => marks[i].cursor <= at'[p][2]
    <3>1. CASE p \in Live
      BY <1>10, <2>1, <3>1
    <3>2. CASE p = o
      <4>1. p \notin marks[i].born
        BY <1>7, <2>1, <3>2
      <4> QED BY <1>4, <1>9, <2>1, <2>3, <3>2, <4>1
    <3> QED BY <1>9, <3>1, <3>2
  <2> QED BY <2>1, <2>4, <2>5, <2>6
<1>18. GroundTypes'
  <2>1. free' \in [1..Large -> Seq(DOMAIN slot')]
    <3>1. \A c \in 1..Large : free[c] \in Seq(DOMAIN slot')
      <4> TAKE c \in 1..Large
      <4>1. free[c] \in Seq(DOMAIN slot)
        BY FreeIs
      <4> QED BY <1>15, <4>1, SeqIsOf
    <3> QED BY <1>7, <3>1 DEF TypeOK
  <2>2. Addresses \subseteq Addresses' /\ a \in Addresses'
    <3>1. 1..Chain \subseteq 1..Chain' /\ b \in 1..Chain' /\ off \in Nat
      BY <1>2
    <3> QED BY <3>1 DEF Addresses, a
  <2>3. at' \in [Objects -> Addresses' \cup {Nowhere}]
    <3>1. at \in [Objects -> Addresses \cup {Nowhere}]
      BY DEF TypeOK
    <3> QED BY <1>7, <2>2, <3>1
  <2>4. DOMAIN slot' \subseteq Addresses'
    BY <1>3, <2>2 DEF TypeOK
  <2>5. /\ marks' \in Seq([cursor : Nat, born : SUBSET Objects])
        /\ \A x \in DOMAIN slot' : slot'[x] \in [stamp : {"Live", "Freed"}, size : Nat \ {0}]
    <3>1. marks' \in Seq([cursor : Nat, born : SUBSET Objects])
      BY <1>7 DEF TypeOK
    <3>2. \A x \in DOMAIN slot' : slot'[x] \in [stamp : {"Live", "Freed"}, size : Nat \ {0}]
      BY <1>3
    <3> QED BY <3>1, <3>2
  <2> QED BY <2>1, <2>3, <2>4, <2>5 DEF GroundTypes
<1> QED BY <1>9, <1>11, <1>12, <1>13, <1>14, <1>16, <1>17, <1>18 DEF Ground

LEMMA BumpingKeepsGround ==
  ASSUME RegionAssumption, IInv, NEW o \in Objects, NewBumps(o)
  PROVE  /\ Ground' /\ GroundTypes'
         /\ Ledger' /\ LedgerTypes'
<1> USE DEF IInv
<1> DEFINE n == SlotSize(Size[o])
<1>1. Shape /\ TypeOK
  BY DEF Ground
<1>2. /\ Place(o, <<Chain, used[Chain]>>) /\ Carve(Chain, used[Chain], Size[o])
      /\ used' = [used EXCEPT ![Chain] = @ + n] /\ cap' = cap /\ free' = free
      /\ used[Chain] + n <= cap[Chain]
  BY DEF NewBumps, Room
<1>3. n \in Nat
  BY ObjectIs DEF SlotSize
<1> HIDE DEF n
<1>4. /\ Chain \in 1..Chain /\ Chain \in Nat /\ used[Chain] \in Nat
      /\ used \in Seq(Nat) /\ cap \in Seq(Nat) /\ DOMAIN cap = 1..Chain /\ DOMAIN used = 1..Chain
      /\ \A x \in 1..Chain : used[x] <= cap[x]
      /\ flavor = "stack" => Chain = 1
  <2>1. Chain \in Nat \ {0} /\ (flavor = "stack" => Chain = 1) /\ \A x \in 1..Chain : used[x] <= cap[x]
    BY <1>1 DEF Shape
  <2> QED BY <2>1, BlockIs DEF TypeOK
<1>5. /\ used' \in Seq(Nat) /\ Len(used') = Len(used)
      /\ \A x \in 1..Chain : used'[x] = IF x = Chain THEN used[Chain] + n ELSE used[x]
  <2>1. used[Chain] + n \in Nat /\ Chain \in 1..Len(used)
    BY <1>3, <1>4 DEF Chain
  <2>2. /\ [used EXCEPT ![Chain] = used[Chain] + n] \in Seq(Nat)
        /\ Len([used EXCEPT ![Chain] = used[Chain] + n]) = Len(used)
        /\ \A x \in 1..Len(used) : [used EXCEPT ![Chain] = used[Chain] + n][x]
                                     = IF x = Chain THEN used[Chain] + n ELSE used[x]
    BY <1>4, <2>1, ExceptSeq
  <2> QED BY <1>2, <2>2 DEF Chain
<1>6. Chain' = Chain
  BY <1>5 DEF Chain
<1>7. \A x \in 1..Chain' : used'[x] <= cap'[x]
  BY <1>2, <1>4, <1>5, <1>6
<1> HIDE DEF IInv
<1> QED BY <1>2, <1>4, <1>5, <1>6, <1>7, CarvingKeepsGround DEF n

LEMMA GrowingKeepsGround ==
  ASSUME RegionAssumption, IInv, NEW o \in Objects, NewGrows(o)
  PROVE  /\ Ground' /\ GroundTypes'
         /\ Ledger' /\ LedgerTypes'
<1> USE DEF IInv
<1> DEFINE n == SlotSize(Size[o])
           room == IF cap[Chain] < n THEN n ELSE cap[Chain]
           b == Chain + 1
<1>1. Shape /\ TypeOK
  BY DEF Ground
<1>2. /\ Place(o, <<b, 0>>) /\ Carve(b, 0, Size[o]) /\ growable
      /\ cap' = Append(cap, room) /\ used' = Append(used, n) /\ free' = free
  BY DEF NewGrows
<1>3. n \in Nat
  BY ObjectIs DEF SlotSize
<1> HIDE DEF n
<1>4. /\ Chain \in Nat /\ Chain \in 1..Chain
      /\ used \in Seq(Nat) /\ cap \in Seq(Nat) /\ DOMAIN cap = 1..Chain /\ DOMAIN used = 1..Chain
      /\ cap[Chain] \in Nat
      /\ \A x \in 1..Chain : used[x] <= cap[x]
      /\ flavor # "stack"
  <2>1. /\ Chain \in Nat \ {0} /\ (flavor = "stack" => ~growable)
        /\ \A x \in 1..Chain : used[x] <= cap[x]
    BY <1>1 DEF Shape
  <2>2. flavor # "stack"
    BY <1>2, <2>1
  <2>3. /\ DOMAIN used = 1..Chain /\ DOMAIN cap = 1..Chain
        /\ \A x \in 1..Chain : used[x] \in Nat /\ cap[x] \in Nat
    BY BlockIs
  <2>4. used \in Seq(Nat) /\ cap \in Seq(Nat)
    BY DEF TypeOK
  <2>5. Chain \in Nat /\ Chain \in 1..Chain
    BY <2>1
  <2> QED BY <2>1, <2>2, <2>3, <2>4, <2>5
<1>5. room \in Nat /\ n <= room
  BY <1>3, <1>4
<1> HIDE DEF room
<1>6. /\ used' \in Seq(Nat) /\ Len(used') = Chain + 1
      /\ (\A x \in 1..Chain : used'[x] = used[x]) /\ used'[b] = n
  BY <1>2, <1>3, <1>4, AppendIs DEF Chain
<1>7. /\ cap' \in Seq(Nat) /\ DOMAIN cap' = 1..(Chain + 1)
      /\ (\A x \in 1..Chain : cap'[x] = cap[x]) /\ cap'[b] = room
  <2>1. Len(cap) = Chain
    BY <1>4, SeqIs
  <2> QED BY <1>2, <1>4, <1>5, <2>1, AppendIs
<1>8. Chain' = b /\ b \in Nat /\ b \in 1..Chain' /\ b \notin 1..Chain /\ Chain <= Chain'
  BY <1>4, <1>6 DEF Chain
<1>9. \A x \in 1..Chain' : used'[x] <= cap'[x]
  <2> TAKE x \in 1..Chain'
  <2>1. x \in 1..Chain \/ x = b
    BY <1>4, <1>8
  <2> QED BY <1>4, <1>5, <1>6, <1>7, <2>1
<1>10. \A x \in 1..Chain : used'[x] = IF x = b THEN 0 + n ELSE used[x]
  BY <1>6, <1>8
<1>11. DOMAIN cap' = 1..Chain' /\ used'[b] = 0 + n /\ (b \in 1..Chain => used[b] = 0)
  BY <1>3, <1>6, <1>7, <1>8
<1> HIDE DEF IInv, b
<1> QED BY <1>2, <1>4, <1>6, <1>7, <1>8, <1>9, <1>10, <1>11, CarvingKeepsGround DEF n
-----------------------------------------------------------------------------
(* The ground, whatever leaves it.                                         *)

\* A slot goes in front of its free-list.
LEMMA PrependIs ==
  ASSUME NEW S, NEW s \in Seq(S), NEW x \in S, Distinct(s), x \notin Members(s)
  PROVE  /\ <<x>> \o s \in Seq(S) /\ Distinct(<<x>> \o s)
         /\ Members(<<x>> \o s) = {x} \cup Members(s)
<1> DEFINE one == <<x>>
<1>1. one \in Seq(S) /\ DOMAIN one = {1} /\ one[1] = x
  OBVIOUS
<1> HIDE DEF one
<1>2. Distinct(one) /\ Members(one) = {x}
  BY <1>1 DEF Distinct, Members
<1>3. Members(one) \cap Members(s) = {}
  BY <1>2
<1>4. one \o s \in Seq(S)
  BY <1>1, ConcatProperties
<1>5. Distinct(one \o s) /\ Members(one \o s) = Members(one) \cup Members(s)
  BY <1>1, <1>2, <1>3, ConcatKeepsDistinct
<1> QED BY <1>2, <1>4, <1>5 DEF one

\* One slot of a pool, for its free-list.
LEMMA FreeingKeepsGround ==
  ASSUME RegionAssumption, IInv, NEW o \in Live, flavor = "pool",
         slot' = [slot EXCEPT ![at[o]].stamp = "Freed"],
         free' = [free EXCEPT ![ClassOf(slot[at[o]].size)] = <<at[o]>> \o @],
         UNCHANGED <<declared, blocks, at, marks>>, Live' = Live \ {o}
  PROVE  Ground' /\ GroundTypes'
<1> USE DEF IInv
<1> DEFINE a == at[o]
           c == ClassOf(slot[a].size)
<1>1. Shape /\ Housed /\ HousedApart /\ PoolSlots /\ FreeLists /\ StackMarks
  BY DEF Ground
<1>2. a \in DOMAIN slot /\ slot[a].stamp = "Live" /\ slot[a].size \in Nat \ {0}
  BY <1>1, SlotIs DEF Housed
<1>3. c \in 1..Large
  BY <1>2, ClassIs
<1>4. /\ DOMAIN slot' = DOMAIN slot
      /\ \A x \in DOMAIN slot :
           /\ slot'[x] \in [stamp : {"Live", "Freed"}, size : Nat \ {0}]
           /\ slot'[x].size = slot[x].size
           /\ slot'[x].stamp = IF x = a THEN "Freed" ELSE slot[x].stamp
  BY <1>2, RestampIs
<1>5. \A p \in Live \ {o} : at[p] # a /\ at[p] \in DOMAIN slot
  BY <1>1, NobodyShares DEF Housed
<1>6. /\ flavor' = flavor /\ growable' = growable /\ used' = used /\ cap' = cap /\ at' = at
      /\ marks' = marks /\ Live' = Live \ {o}
  BY DEF declared, blocks
<1>7. /\ DOMAIN free' = 1..Large /\ free'[c] = <<a>> \o free[c]
      /\ \A d \in 1..Large \ {c} : free'[d] = free[d]
  BY <1>3 DEF TypeOK
<1> HIDE DEF a, c
<1>8. a \notin Members(free[c])
  BY <1>1, <1>2, <1>3 DEF FreeLists, Members
<1>9. /\ free'[c] \in Seq(DOMAIN slot) /\ Distinct(free'[c])
      /\ Members(free'[c]) = {a} \cup Members(free[c])
  <2>1. free[c] \in Seq(DOMAIN slot) /\ Distinct(free[c])
    BY <1>1, <1>3, FreeIs DEF FreeLists
  <2> DEFINE list == <<a>> \o free[c]
  <2>2. list \in Seq(DOMAIN slot) /\ Distinct(list) /\ Members(list) = {a} \cup Members(free[c])
    BY <1>2, <1>8, <2>1, PrependIs
  <2>3. free'[c] = list
    BY <1>7
  <2> HIDE DEF list
  <2> QED BY <2>2, <2>3
<1>10. Shape'
  BY <1>1, <1>6 DEF Shape, Chain
<1>11. Housed' /\ HousedApart'
  <2>1. \A p \in Live' : p \in Live /\ slot'[at[p]].stamp = slot[at[p]].stamp
                         /\ slot'[at[p]].size = slot[at[p]].size
    BY <1>4, <1>5, <1>6
  <2>2. Housed'
    BY <1>1, <1>4, <1>6, <2>1 DEF Housed
  <2>3. HousedApart'
    BY <1>1, <1>6, <2>1 DEF HousedApart
  <2> QED BY <2>2, <2>3
<1>12. PoolSlots'
  BY <1>1, <1>4, <1>6 DEF PoolSlots
<1>13. FreeLists'
  <2> SUFFICES ASSUME NEW d \in 1..Large
               PROVE  /\ Distinct(free'[d])
                      /\ \A j \in DOMAIN free'[d] : /\ slot'[free'[d][j]].stamp = "Freed"
                                                    /\ ClassOf(slot'[free'[d][j]].size) = d
    BY DEF FreeLists
  <2>1. Distinct(free[d]) /\ \A x \in Members(free[d]) : /\ x \in DOMAIN slot
                                                         /\ slot[x].stamp = "Freed"
                                                         /\ ClassOf(slot[x].size) = d
    BY <1>1, FreeIs DEF FreeLists, Members
  <2>2. \A x \in Members(free[d]) : slot'[x].stamp = "Freed" /\ ClassOf(slot'[x].size) = d
    BY <1>2, <1>4, <2>1
  <2>3. slot'[a].stamp = "Freed" /\ ClassOf(slot'[a].size) = c
    BY <1>2, <1>4 DEF c
  <2>4. CASE d = c
    <3>1. \A j \in DOMAIN free'[d] : free'[d][j] \in {a} \cup Members(free[d])
      <4>1. \A j \in DOMAIN free'[d] : free'[d][j] \in Members(free'[d])
        BY DEF Members
      <4> QED BY <1>9, <2>4, <4>1
    <3> QED BY <1>9, <2>2, <2>3, <2>4, <3>1
  <2>5. CASE d # c
    <3>1. \A j \in DOMAIN free'[d] : free'[d][j] \in Members(free[d])
      BY <1>7, <2>5 DEF Members
    <3> QED BY <1>7, <2>1, <2>2, <2>5, <3>1
  <2> QED BY <2>4, <2>5
<1>14. StackMarks'
  BY <1>6 DEF StackMarks
<1>15. GroundTypes'
  <2>1. free' \in [1..Large -> Seq(DOMAIN slot')]
    <3>1. \A d \in 1..Large : free'[d] \in Seq(DOMAIN slot)
      <4> TAKE d \in 1..Large
      <4> QED BY <1>7, <1>9, FreeIs
    <3>2. free' = [d \in 1..Large |-> free'[d]]
      BY <1>7 DEF TypeOK
    <3> QED BY <1>4, <3>1, <3>2
  <2>2. Chain' = Chain /\ Addresses' = Addresses
    BY <1>6 DEF Chain, Addresses
  <2> QED BY <1>4, <1>6, <2>1, <2>2 DEF TypeOK, GroundTypes
<1> QED BY <1>10, <1>11, <1>12, <1>13, <1>14, <1>15 DEF Ground

\* A stack whose cursor is moved down to where what stays ends.
LEMMA LoweringKeepsGround ==
  ASSUME RegionAssumption, IInv, flavor = "stack", NEW stay \in SUBSET Live, Live' = stay,
         UNCHANGED <<declared, cap, free, at>>,
         DOMAIN slot' = DOMAIN slot,
         \A x \in DOMAIN slot : slot'[x] \in [stamp : {"Live", "Freed"}, size : Nat \ {0}],
         \A p \in stay : slot'[at[p]] = slot[at[p]],
         used' \in Seq(Nat), Len(used') = 1, used'[1] <= used[1],
         \A p \in stay : at[p][2] + Size[p] < used'[1],
         marks' \in Seq([cursor : Nat, born : SUBSET Objects]),
         \A i \in DOMAIN marks' : /\ i \in DOMAIN marks /\ marks'[i] = marks[i]
                                  /\ marks[i].cursor <= used'[1],
         \A p \in Objects : state[p] # "unborn" => state'[p] # "unborn"
  PROVE  Ground' /\ GroundTypes'
<1> USE DEF IInv
<1>1. Shape /\ Housed /\ HousedApart /\ PoolSlots /\ FreeLists /\ StackMarks
  BY DEF Ground
<1>2. Chain = 1 /\ Chain' = 1 /\ Addresses' = Addresses
  BY <1>1 DEF Shape, Chain, Addresses
<1>3. /\ flavor' = flavor /\ growable' = growable /\ cap' = cap /\ at' = at /\ free' = free
      /\ Live' \subseteq Live
  BY DEF declared
<1>4. used[1] \in Nat /\ used'[1] \in Nat /\ cap[1] \in Nat /\ used[1] <= cap[1]
  <2>1. 1 \in 1..Chain
    BY <1>2
  <2> QED BY <1>1, <2>1, BlockIs, SeqIs DEF Shape
<1>5. Shape'
  <2>1. \A b \in 1..1 : used'[b] <= cap[b]
    BY <1>4
  <2> QED BY <1>1, <1>2, <1>3, <2>1 DEF Shape
<1>6. Housed'
  <2> SUFFICES ASSUME NEW p \in Live'
               PROVE  /\ at[p] \in DOMAIN slot'
                      /\ slot'[at[p]].stamp = "Live" /\ slot'[at[p]].size = Size[p]
                      /\ at[p][2] + Size[p] < used'[at[p][1]]
    BY <1>3 DEF Housed
  <2>1. /\ at[p] \in DOMAIN slot /\ slot[at[p]].stamp = "Live" /\ slot[at[p]].size = Size[p]
    BY <1>1, <1>3 DEF Housed
  <2>2. at[p][1] = 1
    BY <1>1, <1>2, <1>3, LivesSomewhere
  <2> QED BY <2>1, <2>2
<1>7. HousedApart'
  BY <1>1, <1>3 DEF HousedApart
<1>8. PoolSlots'
  BY <1>3 DEF PoolSlots
<1>9. FreeLists'
  <2>1. \A c \in 1..Large : DOMAIN free[c] = {}
    BY <1>1 DEF Shape
  <2> QED BY <1>3, <2>1 DEF FreeLists, Distinct
<1>10. StackMarks'
  <2> SUFFICES ASSUME NEW i \in DOMAIN marks'
               PROVE  /\ marks'[i].cursor <= used'[1]
                      /\ \A j \in DOMAIN marks' : i < j => marks'[i].cursor <= marks'[j].cursor
                      /\ \A p \in marks'[i].born : state'[p] # "unborn"
                      /\ \A p \in Live' : /\ p \in marks'[i].born => at'[p][2] + Size[p] < marks'[i].cursor
                                          /\ p \notin marks'[i].born => marks'[i].cursor <= at'[p][2]
    BY DEF StackMarks
  <2>1. i \in DOMAIN marks /\ marks'[i] = marks[i] /\ marks[i].cursor <= used'[1]
        /\ marks[i].born \subseteq Objects
    BY MarkIs
  <2>2. /\ \A j \in DOMAIN marks : i < j => marks[i].cursor <= marks[j].cursor
        /\ \A p \in marks[i].born : state[p] # "unborn"
        /\ \A p \in Live : /\ p \in marks[i].born => at[p][2] + Size[p] < marks[i].cursor
                           /\ p \notin marks[i].born => marks[i].cursor <= at[p][2]
    BY <1>1, <2>1 DEF StackMarks
  <2> QED BY <1>3, <2>1, <2>2
<1>11. GroundTypes'
  <2>1. free \in [1..Large -> Seq(DOMAIN slot')] /\ at \in [Objects -> Addresses \cup {Nowhere}]
        /\ cap \in Seq(Nat) /\ DOMAIN cap = 1..Chain /\ DOMAIN slot \subseteq Addresses
    BY DEF TypeOK
  <2> QED BY <1>2, <1>3, <2>1 DEF GroundTypes
<1> QED BY <1>5, <1>6, <1>7, <1>8, <1>9, <1>10, <1>11 DEF Ground
-----------------------------------------------------------------------------
(* Each step.                                                              *)

LEMMA FlavorIs ==
  ASSUME Shape
  PROVE  (flavor = "pool" \/ flavor = "stack") /\ ~(flavor = "pool" /\ flavor = "stack")
  BY DEF Shape

LEMMA DeletingKeepsAll ==
  ASSUME RegionAssumption, IInv, NEW o \in Objects, Delete(o)
  PROVE  /\ Ground' /\ GroundTypes'
         /\ Ledger' /\ LedgerTypes'
<1> USE DEF IInv
<1>1. Shape /\ Housed /\ HousedApart /\ PoolSlots /\ FreeLists /\ StackMarks
  BY DEF Ground
<1>2. /\ o \in Live /\ state' = [state EXCEPT ![o] = "dead"]
      /\ destroyed' = IF o \in Destructible THEN Append(destroyed, o) ELSE destroyed
      /\ UNCHANGED <<declared, at, born, marks, phase>>
  BY DEF Delete
<1>3. Untrack(o)
  BY DEF Delete, RegionFree
<1>4. "dead" \in {"dead", "moved"} /\ UNCHANGED <<flavor, at, born>>
  BY <1>2 DEF declared
<1>5. Ledger' /\ LedgerTypes' /\ Live' = Live \ {o}
  BY <1>1, <1>2, <1>3, <1>4, LeavingKeepsLedger
<1>6. CASE flavor = "pool"
  <2>1. RegionFree(o)
    BY <1>1, <1>6, FlavorIs DEF Delete
  <2>2. /\ slot' = [slot EXCEPT ![at[o]].stamp = "Freed"]
        /\ free' = [free EXCEPT ![ClassOf(slot[at[o]].size)] = <<at[o]>> \o @]
        /\ UNCHANGED blocks
    BY <1>1, <1>6, <2>1, FlavorIs DEF RegionFree, blocks
  <2>3. UNCHANGED <<declared, blocks, at, marks>>
    BY <1>2, <2>2
  <2> QED BY <1>2, <1>5, <1>6, <2>2, <2>3, FreeingKeepsGround
<1>7. CASE flavor = "stack"
  <2>1. UNCHANGED <<blocks, slot, free>>
    BY <1>1, <1>7, FlavorIs DEF Delete
  <2>2. used' = used /\ cap' = cap /\ slot' = slot /\ free' = free /\ at' = at /\ marks' = marks
        /\ declared' = declared
    BY <1>2, <2>1 DEF blocks
  <2>3. Chain = 1 /\ used \in Seq(Nat) /\ used[1] \in Nat
    <3>1. Chain = 1 /\ 1 \in 1..Chain
      BY <1>1, <1>7 DEF Shape
    <3> QED BY <3>1, BlockIs DEF TypeOK
  <2>4. \A p \in Live \ {o} : slot'[at[p]] = slot[at[p]] /\ at[p][2] + Size[p] < used'[1]
    <3> TAKE p \in Live \ {o}
    <3>1. at[p][1] \in 1..Chain /\ at[p][2] + Size[p] < used[at[p][1]]
      BY <1>1, LivesSomewhere DEF Housed
    <3>2. at[p][1] = 1
      BY <2>3, <3>1
    <3> QED BY <2>2, <3>1, <3>2
  <2>5. \A i \in DOMAIN marks' : /\ i \in DOMAIN marks /\ marks'[i] = marks[i]
                                 /\ marks[i].cursor <= used'[1]
    BY <1>1, <1>7, <2>2 DEF StackMarks
  <2>6. \A p \in Objects : state[p] # "unborn" => state'[p] # "unborn"
    BY <1>2 DEF TypeOK
  <2>7. \A x \in DOMAIN slot : slot'[x] \in [stamp : {"Live", "Freed"}, size : Nat \ {0}]
    BY <2>2 DEF TypeOK
  <2>8. marks' \in Seq([cursor : Nat, born : SUBSET Objects])
    BY <2>2 DEF TypeOK
  <2>9. /\ UNCHANGED <<declared, cap, free, at>> /\ DOMAIN slot' = DOMAIN slot
        /\ used' \in Seq(Nat) /\ Len(used') = 1 /\ used'[1] <= used[1]
        /\ Live \ {o} \in SUBSET Live
    BY <2>2, <2>3 DEF Chain
  <2>10. Ground' /\ GroundTypes'
    BY <1>5, <1>7, <2>4, <2>5, <2>6, <2>7, <2>8, <2>9, LoweringKeepsGround
  <2> QED BY <1>5, <2>10
<1> QED BY <1>1, <1>6, <1>7, FlavorIs

LEMMA OneLowered ==
  ASSUME NEW s \in Seq(Nat), Len(s) = 1, NEW n \in Nat
  PROVE  [s EXCEPT ![1] = n] \in Seq(Nat) /\ Len([s EXCEPT ![1] = n]) = 1 /\ [s EXCEPT ![1] = n][1] = n
<1>1. PICK i \in 1..Len(s) : i = 1
  OBVIOUS
<1>2. /\ [s EXCEPT ![i] = n] \in Seq(Nat) /\ Len([s EXCEPT ![i] = n]) = Len(s)
      /\ [s EXCEPT ![i] = n][i] = n
  BY ExceptSeq
<1> QED BY <1>1, <1>2

\* What is extracted is younger than every mark, so that the cursor does not
\* come down below one.
LEMMA ExtractingKeepsAll ==
  ASSUME RegionAssumption, BelowMarks = FALSE, IInv, NEW o \in Objects, Extract(o)
  PROVE  /\ Ground' /\ GroundTypes'
         /\ Ledger' /\ LedgerTypes'
<1> USE DEF IInv
<1> DEFINE a == at[o]
           top == a[2] + SlotSize(slot[a].size) = used[1]
<1>1. Shape /\ Housed /\ HousedApart /\ PoolSlots /\ FreeLists /\ StackMarks
  BY DEF Ground
<1>2. /\ o \in Live /\ state' = [state EXCEPT ![o] = "moved"]
      /\ RegionFree(o) /\ ~Older(o)
      /\ UNCHANGED <<declared, at, born, destroyed, marks, phase>>
  BY DEF Extract
<1>3. /\ Untrack(o) /\ slot' = [slot EXCEPT ![a].stamp = "Freed"] /\ cap' = cap
  BY <1>2 DEF RegionFree
<1>4. /\ "moved" \in {"dead", "moved"} /\ UNCHANGED <<flavor, at, born>>
      /\ destroyed' = IF "moved" = "dead" /\ o \in Destructible THEN Append(destroyed, o) ELSE destroyed
  BY <1>2 DEF declared
<1>5. Ledger' /\ LedgerTypes' /\ Live' = Live \ {o}
  BY <1>1, <1>2, <1>3, <1>4, LeavingKeepsLedger
<1>6. CASE flavor = "pool"
  <2>1. /\ free' = [free EXCEPT ![ClassOf(slot[at[o]].size)] = <<at[o]>> \o @]
        /\ UNCHANGED blocks
    BY <1>1, <1>2, <1>6, FlavorIs DEF RegionFree, blocks
  <2>2. UNCHANGED <<declared, blocks, at, marks>>
    BY <1>2, <2>1
  <2> QED BY <1>2, <1>3, <1>5, <1>6, <2>1, <2>2, FreeingKeepsGround
<1>7. CASE flavor = "stack"
  <2>1. /\ used' = (IF top THEN [used EXCEPT ![1] = a[2]] ELSE used)
        /\ free' = free
    BY <1>1, <1>2, <1>7, FlavorIs DEF RegionFree
  <2>2. at' = at /\ marks' = marks /\ declared' = declared
    BY <1>2
  <2>3. Chain = 1 /\ used \in Seq(Nat) /\ Len(used) = 1 /\ used[1] \in Nat
    <3>1. Chain = 1 /\ 1 \in 1..Chain
      BY <1>1, <1>7 DEF Shape
    <3> QED BY <3>1, BlockIs DEF TypeOK, Chain
  <2>4. \A p \in Live : /\ p \in Objects /\ at[p][1] = 1 /\ at[p][2] \in Nat /\ Size[p] \in Nat \ {0}
                        /\ at[p] \in DOMAIN slot /\ slot[at[p]].size = Size[p]
                        /\ at[p][2] + Size[p] < used[1]
    <3> TAKE p \in Live
    <3>1. /\ p \in Objects /\ at[p][1] \in 1..Chain /\ at[p][2] \in Nat /\ Size[p] \in Nat \ {0}
          /\ at[p] \in DOMAIN slot
      BY <1>1, LivesSomewhere
    <3>2. at[p][1] = 1
      BY <2>3, <3>1
    <3> QED BY <1>1, <3>1, <3>2 DEF Housed
  <2>5. a \in DOMAIN slot /\ a[2] \in Nat /\ a[1] = 1 /\ slot[a].size = Size[o] /\ Size[o] \in Nat \ {0}
    BY <1>2, <2>4
  <2> HIDE DEF a
  <2>6. /\ DOMAIN slot' = DOMAIN slot
        /\ \A x \in DOMAIN slot :
             /\ slot'[x] \in [stamp : {"Live", "Freed"}, size : Nat \ {0}]
             /\ x # a => slot'[x] = slot[x]
    <3>1. "Freed" \in {"Live", "Freed"}
      OBVIOUS
    <3>2. /\ DOMAIN slot' = DOMAIN slot
          /\ \A x \in DOMAIN slot : slot'[x] \in [stamp : {"Live", "Freed"}, size : Nat \ {0}]
      BY <1>3, <2>5, <3>1, RestampIs
    <3>3. \A x \in DOMAIN slot : x # a => slot'[x] = slot[x]
      BY <1>3
    <3> QED BY <3>2, <3>3
  <2>7. \A p \in Live \ {o} : at[p] # a
    BY <1>1, <1>2, NobodyShares DEF a
  <2>8. /\ used' \in Seq(Nat) /\ Len(used') = 1 /\ used'[1] \in Nat
        /\ top => used'[1] = a[2]
        /\ ~top => used'[1] = used[1]
    <3>1. CASE top
      <4>1. /\ [used EXCEPT ![1] = a[2]] \in Seq(Nat) /\ Len([used EXCEPT ![1] = a[2]]) = 1
            /\ [used EXCEPT ![1] = a[2]][1] = a[2]
        BY <2>3, <2>5, OneLowered
      <4> HIDE DEF top
      <4> QED BY <2>1, <2>5, <3>1, <4>1
    <3>2. CASE ~top
      <4> HIDE DEF top
      <4> QED BY <2>1, <2>3, <3>2
    <3> QED BY <3>1, <3>2
  <2>9. used'[1] <= used[1]
    BY <2>3, <2>5, <2>8 DEF SlotSize
  <2>10. \A p \in Live \ {o} : slot'[at[p]] = slot[at[p]] /\ at[p][2] + Size[p] < used'[1]
    <3> TAKE p \in Live \ {o}
    <3>1. Clear(at[p], Size[p], a, Size[o])
      BY <1>1, <1>2 DEF HousedApart, a
    <3>2. at[p][2] + Size[p] < a[2] \/ a[2] + Size[o] < at[p][2]
      BY <2>4, <2>5, <3>1 DEF Clear
    <3>3. at[p][2] + Size[p] < used'[1]
      <4>1. at[p][2] \in Nat /\ Size[p] \in Nat \ {0} /\ at[p][2] + Size[p] < used[1]
        BY <2>4
      <4> QED BY <2>3, <2>5, <2>8, <3>2, <4>1 DEF SlotSize
    <3> QED BY <2>4, <2>6, <2>7, <3>3
  <2>11. ASSUME NEW i \in DOMAIN marks'
         PROVE  i \in DOMAIN marks /\ marks'[i] = marks[i] /\ marks[i].cursor <= used'[1]
    <3>1. i \in DOMAIN marks /\ marks'[i] = marks[i]
      BY <2>2
    <3>2. o \notin marks[i].born
      BY <1>2, <3>1 DEF Older
    <3>3. marks[i].cursor <= used[1] /\ marks[i].cursor <= a[2]
      BY <1>1, <1>2, <1>7, <3>1, <3>2 DEF StackMarks, a
    <3> HIDE DEF top
    <3> QED BY <2>8, <3>1, <3>3
  <2>16. /\ \A x \in DOMAIN slot : slot'[x] \in [stamp : {"Live", "Freed"}, size : Nat \ {0}]
         /\ DOMAIN slot' = DOMAIN slot
    BY <2>6
  <2>17. used' \in Seq(Nat) /\ Len(used') = 1
    BY <2>8
  <2>12. \A p \in Objects : state[p] # "unborn" => state'[p] # "unborn"
    BY <1>2 DEF TypeOK
  <2>13. marks' \in Seq([cursor : Nat, born : SUBSET Objects])
    BY <2>2 DEF TypeOK
  <2>14. UNCHANGED <<declared, cap, free, at>> /\ Live \ {o} \in SUBSET Live
    BY <1>3, <2>1, <2>2
  <2> HIDE DEF top
  <2>15. Ground' /\ GroundTypes'
    BY <1>5, <1>7, <2>9, <2>10, <2>11, <2>12, <2>13, <2>14, <2>16, <2>17, LoweringKeepsGround
  <2> QED BY <1>5, <2>15
<1> QED BY <1>1, <1>6, <1>7, FlavorIs

\* The objects below the cursor stay, and are those the registry keeps.
LEMMA RollingBackKeepsAll ==
  ASSUME RegionAssumption, IInv, flavor = "stack", NEW cursor \in Nat, NEW stay \in SUBSET Live,
         cursor <= used[1],
         \A p \in Live : /\ p \in stay => at[p][2] + Size[p] < cursor
                         /\ p \notin stay => cursor <= at[p][2],
         RollbackTo(cursor),
         state' = [o \in Objects |-> IF o \in Live \ stay THEN "dead" ELSE state[o]],
         UNCHANGED <<declared, cap, free, at, born>>,
         marks' \in Seq([cursor : Nat, born : SUBSET Objects]),
         \A i \in DOMAIN marks' : /\ i \in DOMAIN marks /\ marks'[i] = marks[i]
                                  /\ marks[i].cursor <= cursor
  PROVE  /\ Ground' /\ GroundTypes'
         /\ Ledger' /\ LedgerTypes'
<1> USE DEF IInv
<1> DEFINE k == OldestFrom(cursor)
           taken == {at[track[i]] : i \in k..Len(track)}
<1>1. /\ Shape /\ Housed /\ HousedApart /\ PoolSlots /\ FreeLists /\ StackMarks
      /\ RegistryIsTheLiving /\ TrackUpwards
  BY DEF Ground, Ledger
<1>2. /\ Len(track) \in Nat /\ DOMAIN track = 1..Len(track) /\ Distinct(track)
      /\ \A i \in DOMAIN track : track[i] \in Live
  BY <1>1, TrackedLives
<1>3. \A p \in Live : /\ p \in Objects /\ at[p] \in DOMAIN slot /\ at[p][2] \in Nat /\ Size[p] \in Nat \ {0}
                      /\ slot[at[p]].stamp = "Live"
  BY <1>1, LivesSomewhere DEF Housed
<1>4. /\ k \in 1..(Len(track) + 1)
      /\ \A i \in k..Len(track) : at[track[i]][2] >= cursor
      /\ k > 1 => at[track[k - 1]][2] < cursor
  <2>1. \A i \in DOMAIN track : at[track[i]][2] \in Nat
    BY <1>2, <1>3
  <2> QED BY <2>1, OldestFromIs
<1>5. /\ DestroyFrom(k) /\ used' = <<cursor>>
      /\ slot' = [a \in DOMAIN slot |->
                    IF a \in taken THEN [slot[a] EXCEPT !.stamp = "Freed"] ELSE slot[a]]
  BY DEF RollbackTo
<1> HIDE DEF k, taken
<1>6. \A i \in DOMAIN track : track[i] \in stay <=> i < k
  <2> TAKE i \in DOMAIN track
  <2>1. track[i] \in Live /\ at[track[i]][2] \in Nat /\ Size[track[i]] \in Nat
    BY <1>2, <1>3
  <2>2. CASE i < k
    <3>1. k - 1 \in DOMAIN track /\ k > 1 /\ i <= k - 1 /\ i \in Nat
      BY <1>2, <1>4, <2>2
    <3>2. at[track[k - 1]][2] < cursor /\ at[track[k - 1]][2] \in Nat
      BY <1>2, <1>3, <1>4, <3>1
    <3>3. i < k - 1 => at[track[i]][2] < at[track[k - 1]][2]
      BY <1>1, <3>1 DEF TrackUpwards
    <3>4. i < k - 1 \/ i = k - 1
      BY <1>4, <3>1
    <3>5. at[track[i]][2] < cursor
      BY <2>1, <3>2, <3>3, <3>4
    <3> QED BY <2>1, <2>2, <3>5
  <2>3. CASE ~(i < k)
    <3>1. i \in k..Len(track)
      BY <1>2, <1>4, <2>3
    <3>2. at[track[i]][2] >= cursor
      BY <1>4, <3>1
    <3>3. ~(at[track[i]][2] + Size[track[i]] < cursor)
      BY <2>1, <3>2
    <3> QED BY <2>1, <2>3, <3>3
  <2> QED BY <2>2, <2>3
<1>7. \A i \in k..Len(track) : i \in DOMAIN track /\ track[i] \in Live /\ track[i] \notin stay
  BY <1>2, <1>4, <1>6
<1>8. flavor = "stack" => \A i \in k..Len(track) : StampAt(at[track[i]]) = "Live"
  BY <1>3, <1>7 DEF StampAt
<1>9. Ledger' /\ LedgerTypes' /\ Live' = stay
  <2>1. UNCHANGED <<flavor, at, born>>
    BY DEF declared
  <2> QED BY <1>1, <1>4, <1>5, <1>6, <1>8, <2>1, CutKeepsLedger
<1>10. DOMAIN slot' = DOMAIN slot
  BY <1>5
<1>11. \A x \in DOMAIN slot : slot'[x] \in [stamp : {"Live", "Freed"}, size : Nat \ {0}]
  <2> TAKE x \in DOMAIN slot
  <2>1. slot[x] \in [stamp : {"Live", "Freed"}, size : Nat \ {0}]
    BY DEF TypeOK
  <2>2. [slot[x] EXCEPT !.stamp = "Freed"] \in [stamp : {"Live", "Freed"}, size : Nat \ {0}]
    BY <2>1
  <2>3. slot'[x] = slot[x] \/ slot'[x] = [slot[x] EXCEPT !.stamp = "Freed"]
    BY <1>5
  <2> QED BY <2>1, <2>2, <2>3
<1>12. \A p \in stay : slot'[at[p]] = slot[at[p]]
  <2> TAKE p \in stay
  <2>1. at[p] \in DOMAIN slot
    BY <1>3
  <2>2. at[p] \notin taken
    <3> SUFFICES ASSUME NEW i \in k..Len(track), at[p] = at[track[i]] PROVE FALSE
      BY DEF taken
    <3>1. p \in Live /\ track[i] \in Live /\ p # track[i]
      BY <1>7
    <3> QED BY <1>1, <3>1, NobodyShares
  <2> QED BY <1>5, <2>1, <2>2
<1>13. used' \in Seq(Nat) /\ Len(used') = 1 /\ used'[1] = cursor
  BY <1>5
<1>14. \A p \in Objects : state[p] # "unborn" => state'[p] # "unborn"
  OBVIOUS
<1>15. UNCHANGED <<declared, cap, free, at>>
  OBVIOUS
<1>16. used'[1] <= used[1]
  BY <1>13
<1>17. \A p \in stay : at[p][2] + Size[p] < used'[1]
  BY <1>13
<1>18. \A i \in DOMAIN marks' : /\ i \in DOMAIN marks /\ marks'[i] = marks[i]
                                /\ marks[i].cursor <= used'[1]
  BY <1>13
<1>19. used' \in Seq(Nat) /\ Len(used') = 1
  BY <1>13
<1> HIDE DEF IInv
<1>20. Ground' /\ GroundTypes'
  BY <1>9, <1>10, <1>11, <1>12, <1>14, <1>15, <1>16, <1>17, <1>18, <1>19, LoweringKeepsGround
<1> QED BY <1>9, <1>20

LEMMA RollbackKeepsAll ==
  ASSUME RegionAssumption, IInv, NEW i \in DOMAIN marks, Rollback(i)
  PROVE  /\ Ground' /\ GroundTypes'
         /\ Ledger' /\ LedgerTypes'
<1> USE DEF IInv
<1> DEFINE stay == Live \cap marks[i].born
           cursor == marks[i].cursor
<1>1. Shape /\ StackMarks
  BY DEF Ground
<1>2. /\ RollbackTo(cursor) /\ marks' = SubSeq(marks, 1, i)
      /\ state' = [o \in Objects |-> IF o \in Live \ marks[i].born THEN "dead" ELSE state[o]]
      /\ UNCHANGED <<declared, cap, free, at, born>>
  BY DEF Rollback
<1>3. flavor = "stack"
  <2>1. flavor = "pool" => DOMAIN marks = {}
    BY <1>1 DEF Shape
  <2> QED BY <1>1, <2>1 DEF Shape
<1>4. Live \ stay = Live \ marks[i].born
  OBVIOUS
<1>5. /\ cursor <= used[1] /\ cursor \in Nat
      /\ \A p \in Live : /\ p \in stay => at[p][2] + Size[p] < cursor
                         /\ p \notin stay => cursor <= at[p][2]
  BY <1>1, <1>3, MarkIs DEF StackMarks
<1>6. marks \in Seq([cursor : Nat, born : SUBSET Objects]) /\ Len(marks) \in Nat /\ DOMAIN marks = 1..Len(marks)
  BY SeqIs DEF TypeOK
<1>7. /\ marks' \in Seq([cursor : Nat, born : SUBSET Objects]) /\ DOMAIN marks' = 1..i
      /\ \A j \in 1..i : marks'[j] = marks[j]
  <2>1. PICK k \in 1..(Len(marks) + 1) : k - 1 = i
    <3>1. i + 1 \in 1..(Len(marks) + 1) /\ (i + 1) - 1 = i
      BY <1>6
    <3> QED BY <3>1
  <2>2. /\ SubSeq(marks, 1, k - 1) \in Seq([cursor : Nat, born : SUBSET Objects])
        /\ DOMAIN SubSeq(marks, 1, k - 1) = 1..(k - 1)
        /\ \A j \in 1..(k - 1) : SubSeq(marks, 1, k - 1)[j] = marks[j]
    BY <1>6, PrefixIs
  <2>3. marks' = SubSeq(marks, 1, k - 1)
    BY <1>2, <2>1
  <2> QED BY <2>1, <2>2, <2>3
<1>8. ASSUME NEW j \in DOMAIN marks'
      PROVE  j \in DOMAIN marks /\ marks'[j] = marks[j] /\ marks[j].cursor <= cursor
  <2>1. j \in DOMAIN marks /\ marks'[j] = marks[j] /\ (j < i \/ j = i)
    BY <1>6, <1>7
  <2>2. j < i => marks[j].cursor <= cursor
    BY <1>1, <1>3, <2>1 DEF StackMarks
  <2>3. j = i => marks[j].cursor <= cursor
    BY <1>5
  <2> QED BY <2>1, <2>2, <2>3
<1>9. stay \in SUBSET Live /\ state' = [o \in Objects |-> IF o \in Live \ stay THEN "dead" ELSE state[o]]
  BY <1>2, <1>4
<1> HIDE DEF IInv, stay, cursor
<1> QED BY <1>2, <1>3, <1>5, <1>7, <1>8, <1>9, RollingBackKeepsAll

LEMMA ReleaseKeepsAll ==
  ASSUME RegionAssumption, IInv, Release
  PROVE  /\ Ground' /\ GroundTypes'
         /\ Ledger' /\ LedgerTypes'
<1> USE DEF IInv
<1>1. Shape /\ Housed /\ RegistryIsTheLiving /\ FreeLists
  BY DEF Ground, Ledger
<1>2. /\ state' = [o \in Objects |-> IF o \in Live \ {} THEN "dead" ELSE state[o]]
      /\ marks' = << >> /\ {} \in SUBSET Live
      /\ UNCHANGED <<declared, cap, free, at, born>>
  BY DEF Release
<1>3. marks' \in Seq([cursor : Nat, born : SUBSET Objects]) /\ DOMAIN marks' = {}
  BY <1>2
<1>4. CASE flavor = "stack"
  <2>1. RollbackTo(0)
    BY <1>1, <1>4, FlavorIs DEF Release
  <2>2. used[1] \in Nat
    <3>1. 1 \in 1..Chain
      BY <1>1 DEF Shape
    <3> QED BY <3>1, BlockIs
  <2>3. 0 \in Nat /\ 0 <= used[1]
    BY <2>2
  <2>4. \A p \in Live : /\ p \in {} => at[p][2] + Size[p] < 0
                        /\ p \notin {} => 0 <= at[p][2]
    BY <1>1, LivesSomewhere
  <2>5. \A i \in DOMAIN marks' : i \in DOMAIN marks /\ marks'[i] = marks[i] /\ marks[i].cursor <= 0
    BY <1>3
  <2> HIDE DEF IInv
  <2> QED BY <1>2, <1>3, <1>4, <2>1, <2>3, <2>4, <2>5, RollingBackKeepsAll
<1>5. CASE flavor = "pool"
  <2>1. DestroyFrom(1) /\ used' = used /\ slot' = slot
    BY <1>1, <1>5, FlavorIs DEF Release
  <2>2. flavor = "stack" => \A i \in 1..Len(track) : StampAt(at[track[i]]) = "Live"
    BY <1>1, <1>5, FlavorIs
  <2>3. Len(track) \in Nat /\ DOMAIN track = 1..Len(track)
    BY <1>1, TrackedLives
  <2>4. 1 \in 1..(Len(track) + 1) /\ \A i \in DOMAIN track : track[i] \in {} <=> i < 1
    BY <2>3
  <2>5. UNCHANGED <<flavor, at, born>>
    BY <1>2 DEF declared
  <2>6. Ledger' /\ LedgerTypes' /\ Live' = {}
    BY <1>1, <1>2, <2>1, <2>2, <2>4, <2>5, CutKeepsLedger
  <2>7. /\ flavor' = flavor /\ growable' = growable /\ cap' = cap /\ free' = free /\ at' = at
        /\ Chain' = Chain /\ Addresses' = Addresses
    BY <1>2, <2>1 DEF declared, Chain, Addresses
  <2>8. Shape'
    BY <1>1, <1>2, <2>1, <2>7 DEF Shape
  <2>9. Housed' /\ HousedApart'
    BY <2>6 DEF Housed, HousedApart
  <2>10. PoolSlots' /\ FreeLists'
    BY <2>1, <2>7 DEF Ground, PoolSlots, FreeLists
  <2>11. StackMarks'
    BY <1>3 DEF StackMarks
  <2>12. GroundTypes'
    BY <1>3, <2>1, <2>7 DEF TypeOK, GroundTypes
  <2> QED BY <2>6, <2>8, <2>9, <2>10, <2>11, <2>12 DEF Ground
<1> QED BY <1>1, <1>4, <1>5, FlavorIs

LEMMA MarkKeepsAll ==
  ASSUME RegionAssumption, IInv, Mark
  PROVE  /\ Ground' /\ GroundTypes'
         /\ Ledger' /\ LedgerTypes'
<1> USE DEF IInv
<1> DEFINE mark == [cursor |-> used[1], born |-> {o \in Objects : state[o] # "unborn"}]
<1>1. Shape /\ Housed /\ HousedApart /\ PoolSlots /\ FreeLists /\ StackMarks
  BY DEF Ground
<1>2. /\ flavor = "stack" /\ marks' = Append(marks, mark)
      /\ flavor' = flavor /\ growable' = growable /\ used' = used /\ cap' = cap /\ slot' = slot
      /\ free' = free /\ track' = track /\ at' = at /\ state' = state /\ born' = born
      /\ destroyed' = destroyed
  BY DEF Mark, declared, blocks
<1>3. used[1] \in Nat /\ Chain = 1
  <2>1. Chain = 1 /\ 1 \in 1..Chain
    BY <1>1, <1>2 DEF Shape
  <2> QED BY <2>1, BlockIs
<1>4. /\ mark \in [cursor : Nat, born : SUBSET Objects]
      /\ mark.cursor = used[1] /\ mark.born = {o \in Objects : state[o] # "unborn"}
  BY <1>3
<1> HIDE DEF mark
<1>5. marks \in Seq([cursor : Nat, born : SUBSET Objects]) /\ Len(marks) \in Nat /\ DOMAIN marks = 1..Len(marks)
  BY SeqIs DEF TypeOK
<1>6. /\ marks' \in Seq([cursor : Nat, born : SUBSET Objects])
      /\ DOMAIN marks' = 1..(Len(marks) + 1)
      /\ (\A i \in DOMAIN marks : marks'[i] = marks[i])
      /\ marks'[Len(marks) + 1] = mark
  BY <1>2, <1>4, <1>5, AppendIs
<1>7. Live' = Live /\ Chain' = Chain /\ Addresses' = Addresses
  BY <1>2 DEF Live, Chain, Addresses
<1>8. Ledger' /\ LedgerTypes'
  <2>1. TrackUpwards' /\ BornOnce' /\ TrackByBirth'
    BY <1>2 DEF Ledger, TrackUpwards, BornOnce, TrackByBirth
  <2>2. RegistryIsTheLiving' /\ DestructedOnce'
    BY <1>2, <1>7 DEF Ledger, RegistryIsTheLiving, DestructedOnce
  <2> QED BY <1>2, <2>1, <2>2 DEF Ledger, LedgerTypes, TypeOK
<1>9. Shape' /\ Housed' /\ HousedApart' /\ PoolSlots' /\ FreeLists'
  <2>1. Shape'
    BY <1>1, <1>2, <1>7 DEF Shape
  <2>2. Housed' /\ HousedApart'
    BY <1>1, <1>2, <1>7 DEF Housed, HousedApart
  <2>3. PoolSlots' /\ FreeLists'
    BY <1>1, <1>2 DEF PoolSlots, FreeLists
  <2> QED BY <2>1, <2>2, <2>3
<1>10. StackMarks'
  <2> SUFFICES ASSUME NEW i \in DOMAIN marks'
               PROVE  /\ marks'[i].cursor <= used[1]
                      /\ \A j \in DOMAIN marks' : i < j => marks'[i].cursor <= marks'[j].cursor
                      /\ \A o \in marks'[i].born : state[o] # "unborn"
                      /\ \A o \in Live : /\ o \in marks'[i].born => at[o][2] + Size[o] < marks'[i].cursor
                                         /\ o \notin marks'[i].born => marks'[i].cursor <= at[o][2]
    BY <1>2, <1>7 DEF StackMarks
  <2>1. CASE i \in DOMAIN marks
    <3>1. /\ marks'[i] = marks[i] /\ marks[i].cursor <= used[1]
          /\ \A j \in DOMAIN marks : i < j => marks[i].cursor <= marks[j].cursor
          /\ \A o \in marks[i].born : state[o] # "unborn"
          /\ \A o \in Live : /\ o \in marks[i].born => at[o][2] + Size[o] < marks[i].cursor
                             /\ o \notin marks[i].born => marks[i].cursor <= at[o][2]
      BY <1>1, <1>2, <1>6, <2>1 DEF StackMarks
    <3>2. ASSUME NEW j \in DOMAIN marks', i < j PROVE marks'[i].cursor <= marks'[j].cursor
      <4>1. CASE j \in DOMAIN marks
        BY <1>6, <3>1, <3>2, <4>1
      <4>2. CASE j = Len(marks) + 1
        BY <1>4, <1>6, <3>1, <4>2
      <4> QED BY <1>5, <1>6, <4>1, <4>2
    <3> QED BY <3>1, <3>2
  <2>2. CASE i = Len(marks) + 1
    <3>1. \A j \in DOMAIN marks' : ~(i < j)
      BY <1>5, <1>6, <2>2
    <3>2. marks'[i] = mark
      BY <1>6, <2>2
    <3>3. \A o \in Live : o \in mark.born /\ at[o][2] + Size[o] < used[1]
      <4> TAKE o \in Live
      <4>1. at[o][1] \in 1..Chain /\ o \in Objects /\ state[o] = "live"
        BY <1>1, LivesSomewhere
      <4>2. at[o][1] = 1
        BY <1>3, <4>1
      <4> QED BY <1>1, <1>4, <4>1, <4>2 DEF Housed
    <3> QED BY <1>3, <1>4, <3>1, <3>2, <3>3
  <2> QED BY <1>5, <1>6, <2>1, <2>2
<1>11. GroundTypes'
  BY <1>2, <1>6, <1>7 DEF TypeOK, GroundTypes
<1> QED BY <1>8, <1>9, <1>10, <1>11 DEF Ground
-----------------------------------------------------------------------------
(* The invariant, and what follows from it.                                *)

LEMMA TypesTogether ==
  ASSUME LedgerTypes, GroundTypes, flavor \in Flavors, growable \in BOOLEAN,
         phase \in {"open", "released", "trapped"}
  PROVE  TypeOK
  BY DEF LedgerTypes, GroundTypes, TypeOK

LEMMA InitInv ==
  ASSUME RegionAssumption, Init
  PROVE  IInv
<1>1. /\ used = <<0>> /\ cap = <<Cap>> /\ slot = << >> /\ track = << >>
      /\ born = << >> /\ destroyed = << >> /\ marks = << >> /\ phase = "open"
      /\ free = [c \in 1..Large |-> << >>] /\ at = [o \in Objects |-> Nowhere]
      /\ state = [o \in Objects |-> "unborn"] /\ flavor \in Flavors
      /\ growable \in IF flavor = "pool" THEN BOOLEAN ELSE {FALSE}
  BY DEF Init
<1>2. /\ Chain = 1 /\ DOMAIN slot = {} /\ DOMAIN track = {} /\ DOMAIN born = {}
      /\ DOMAIN destroyed = {} /\ DOMAIN marks = {} /\ Live = {}
      /\ \A c \in 1..Large : free[c] = << >> /\ DOMAIN free[c] = {}
      /\ used[1] = 0 /\ cap[1] = Cap /\ Cap \in Nat /\ growable \in BOOLEAN
  <2>1. /\ Chain = 1 /\ DOMAIN slot = {} /\ DOMAIN track = {} /\ DOMAIN born = {}
        /\ DOMAIN destroyed = {} /\ DOMAIN marks = {}
    BY <1>1 DEF Chain
  <2>2. \A c \in 1..Large : free[c] = << >> /\ DOMAIN free[c] = {}
    BY <1>1
  <2>3. Live = {}
    BY <1>1 DEF Live
  <2>4. used[1] = 0 /\ cap[1] = Cap /\ Cap \in Nat
    BY <1>1, RegionAssumption DEF RegionAssumption
  <2>5. growable \in BOOLEAN
    BY <1>1
  <2> QED BY <2>1, <2>2, <2>3, <2>4, <2>5
<1>3. TypeOK
  <2>1. /\ used \in Seq(Nat) /\ cap \in Seq(Nat) /\ DOMAIN cap = 1..Chain
        /\ track \in Seq(Destructible) /\ born \in Seq(Objects) /\ destroyed \in Seq(Destructible)
    BY <1>1, <1>2
  <2>2. marks \in Seq([cursor : Nat, born : SUBSET Objects])
    BY <1>1
  <2>3. free \in [1..Large -> Seq(DOMAIN slot)]
    BY <1>1
  <2>4. at \in [Objects -> Addresses \cup {Nowhere}]
    BY <1>1
  <2>5. state \in [Objects -> {"unborn", "live", "dead", "moved"}]
    BY <1>1
  <2>6. GroundTypes
    BY <1>2, <2>1, <2>2, <2>3, <2>4 DEF GroundTypes
  <2>7. LedgerTypes
    BY <2>1, <2>5 DEF LedgerTypes
  <2> QED BY <1>1, <1>2, <2>6, <2>7, TypesTogether
<1>4. Shape
  <2>1. flavor \in {"pool", "stack"}
    BY <1>1 DEF RegionAssumption
  <2>2. flavor = "stack" => ~growable
    BY <1>1
  <2>3. \A b \in 1..Chain : used[b] <= cap[b]
    BY <1>2
  <2> QED BY <1>1, <1>2, <2>1, <2>2, <2>3 DEF Shape
<1>5. Ground
  BY <1>2, <1>4 DEF Ground, Housed, HousedApart, PoolSlots, FreeLists, StackMarks, Distinct
<1>6. Members(born) = {} /\ {track[i] : i \in DOMAIN track} = {}
      /\ {destroyed[i] : i \in DOMAIN destroyed} = {}
  BY <1>2 DEF Members
<1>7. Ledger
  <2>1. TrackUpwards /\ TrackByBirth
    BY <1>2 DEF TrackUpwards, TrackByBirth
  <2>2. BornOnce
    BY <1>1, <1>2, <1>6 DEF BornOnce, Distinct
  <2>3. RegistryIsTheLiving
    BY <1>2, <1>6 DEF RegistryIsTheLiving, Distinct
  <2>4. DestructedOnce
    <3>1. \A o \in Destructible : state[o] # "dead"
      BY <1>1 DEF RegionAssumption
    <3> QED BY <1>2, <1>6, <3>1 DEF DestructedOnce, Distinct
  <2> QED BY <2>1, <2>2, <2>3, <2>4 DEF Ledger
<1> QED BY <1>3, <1>5, <1>7 DEF IInv

\* Steps that change nothing but the phase.
LEMMA NothingElse ==
  ASSUME RegionAssumption, IInv,
         UNCHANGED <<declared, blocks, slot, free, track, at, state, born, destroyed, marks>>
  PROVE  /\ Ground' /\ GroundTypes'
         /\ Ledger' /\ LedgerTypes'
<1> USE DEF IInv
<1>1. /\ flavor' = flavor /\ growable' = growable /\ used' = used /\ cap' = cap /\ slot' = slot
      /\ free' = free /\ track' = track /\ at' = at /\ state' = state /\ born' = born
      /\ destroyed' = destroyed /\ marks' = marks
  BY DEF declared, blocks
<1>2. Live' = Live /\ Chain' = Chain /\ Addresses' = Addresses
  BY <1>1 DEF Live, Chain, Addresses
<1>3. TrackUpwards' /\ BornOnce' /\ TrackByBirth'
  BY <1>1 DEF Ledger, TrackUpwards, BornOnce, TrackByBirth
<1>4. RegistryIsTheLiving' /\ DestructedOnce'
  BY <1>1, <1>2 DEF Ledger, RegistryIsTheLiving, DestructedOnce
<1>5. Shape' /\ Housed' /\ HousedApart'
  BY <1>1, <1>2 DEF Ground, Shape, Housed, HousedApart
<1>6. PoolSlots' /\ FreeLists' /\ StackMarks'
  BY <1>1, <1>2 DEF Ground, PoolSlots, FreeLists, StackMarks
<1>7. LedgerTypes' /\ GroundTypes'
  BY <1>1, <1>2 DEF TypeOK, LedgerTypes, GroundTypes
<1> QED BY <1>3, <1>4, <1>5, <1>6, <1>7 DEF Ground, Ledger

LEMMA NextInv ==
  ASSUME RegionAssumption, BelowMarks = FALSE, IInv, [Next]_vars
  PROVE  IInv'
<1>1. TypeOK
  BY DEF IInv
<1>2. flavor' = flavor /\ growable' = growable /\ phase' \in {"open", "released", "trapped"}
  <2>1. phase \in {"open", "released", "trapped"}
    BY <1>1 DEF TypeOK
  <2>2. CASE UNCHANGED vars
    BY <2>1, <2>2 DEF vars, declared
  <2>3. ASSUME NEW o \in Objects, NewReuses(o) \/ NewBumps(o) \/ NewGrows(o)
        PROVE  declared' = declared /\ phase' = phase
    BY <2>3 DEF NewReuses, NewBumps, NewGrows, Place
  <2>4. ASSUME NEW o \in Objects, NewTraps(o) PROVE declared' = declared /\ phase' = "trapped"
    BY <2>4 DEF NewTraps
  <2>5. ASSUME NEW o \in Objects, Delete(o) \/ Extract(o) PROVE declared' = declared /\ phase' = phase
    BY <2>5 DEF Delete, Extract
  <2>6. CASE Mark
    BY <2>1, <2>6 DEF Mark, declared
  <2>7. ASSUME NEW i \in DOMAIN marks, Rollback(i) PROVE declared' = declared /\ phase' = phase
    BY <2>7 DEF Rollback
  <2>8. CASE Release
    BY <2>8 DEF Release, declared
  <2> QED BY <2>1, <2>2, <2>3, <2>4, <2>5, <2>6, <2>7, <2>8 DEF Next, declared
<1>3. /\ Ground' /\ GroundTypes'
      /\ Ledger' /\ LedgerTypes'
  <2>1. CASE UNCHANGED vars
    BY <2>1, NothingElse DEF vars
  <2>2. ASSUME NEW o \in Objects, NewReuses(o)
        PROVE  Ground' /\ GroundTypes' /\ Ledger' /\ LedgerTypes'
    BY <2>2, ReusingKeepsGround
  <2>3. ASSUME NEW o \in Objects, NewBumps(o)
        PROVE  Ground' /\ GroundTypes' /\ Ledger' /\ LedgerTypes'
    BY <2>3, BumpingKeepsGround
  <2>4. ASSUME NEW o \in Objects, NewGrows(o)
        PROVE  Ground' /\ GroundTypes' /\ Ledger' /\ LedgerTypes'
    BY <2>4, GrowingKeepsGround
  <2>5. ASSUME NEW o \in Objects, NewTraps(o)
        PROVE  Ground' /\ GroundTypes' /\ Ledger' /\ LedgerTypes'
    BY <2>5, NothingElse DEF NewTraps
  <2>6. ASSUME NEW o \in Objects, Delete(o)
        PROVE  Ground' /\ GroundTypes' /\ Ledger' /\ LedgerTypes'
    BY <2>6, DeletingKeepsAll
  <2>7. ASSUME NEW o \in Objects, Extract(o)
        PROVE  Ground' /\ GroundTypes' /\ Ledger' /\ LedgerTypes'
    BY <2>7, ExtractingKeepsAll
  <2>8. CASE Mark
    BY <2>8, MarkKeepsAll
  <2>9. ASSUME NEW i \in DOMAIN marks, Rollback(i)
        PROVE  Ground' /\ GroundTypes' /\ Ledger' /\ LedgerTypes'
    BY <2>9, RollbackKeepsAll
  <2>10. CASE Release
    BY <2>10, ReleaseKeepsAll
  <2> QED BY <2>1, <2>2, <2>3, <2>4, <2>5, <2>6, <2>7, <2>8, <2>9, <2>10 DEF Next
<1>4. TypeOK'
  <2>1. flavor' \in Flavors /\ growable' \in BOOLEAN
    BY <1>1, <1>2 DEF TypeOK
  <2> QED BY <1>2, <1>3, <2>1 DEF LedgerTypes, GroundTypes, TypeOK
<1> QED BY <1>3, <1>4 DEF IInv

LEMMA Invariance ==
  ASSUME BelowMarks = FALSE
  PROVE  Spec => []IInv
<1>1. Init => IInv
  BY RegionAssumption, InitInv
<1>2. IInv /\ [Next]_vars => IInv'
  BY RegionAssumption, NextInv
<1> QED BY <1>1, <1>2, PTL DEF Spec

\* Every variable keeps its type.
THEOREM TypeCorrect ==
  ASSUME BelowMarks = FALSE
  PROVE  Spec => []TypeOK
<1>1. IInv => TypeOK
  BY DEF IInv
<1> QED BY <1>1, Invariance, PTL

\* The registry holds each live object with a destructor, once, and nothing else.
THEOREM RegistryHoldsTheLiving ==
  ASSUME BelowMarks = FALSE
  PROVE  Spec => []RegistryIsTheLiving
<1>1. IInv => RegistryIsTheLiving
  BY DEF IInv, Ledger
<1> QED BY <1>1, Invariance, PTL

\* A destructor runs once, for each object that is deleted, rolled back or
\* released, and for no other.
THEOREM DestructorsRunOnce ==
  ASSUME BelowMarks = FALSE
  PROVE  Spec => []DestructedOnce
<1>1. IInv => DestructedOnce
  BY DEF IInv, Ledger
<1> QED BY <1>1, Invariance, PTL

LEMMA SlotsStayApart ==
  ASSUME RegionAssumption, IInv
  PROVE  SlotsApart
<1> USE DEF IInv
<1>1. Shape /\ Housed /\ HousedApart /\ PoolSlots /\ FreeLists
  BY DEF Ground
<1>2. ASSUME NEW o \in Live
      PROVE  /\ at[o][1] \in 1..Chain /\ at[o][2] \in Nat /\ Size[o] \in Nat \ {0}
             /\ used[at[o][1]] \in Nat /\ at[o] \in DOMAIN slot /\ at[o] = <<at[o][1], at[o][2]>>
             /\ slot[at[o]].stamp = "Live" /\ slot[at[o]].size = Size[o]
             /\ at[o][2] + Size[o] < used[at[o][1]]
  BY <1>1, LivesSomewhere, SlotIs DEF Housed
<1>3. ASSUME NEW o \in Live PROVE Extent(o) \subseteq Carved
  <2> SUFFICES ASSUME NEW g \in at[o][2]..(at[o][2] + Size[o])
               PROVE  <<at[o][1], g>> \in Carved
    BY DEF Extent
  <2>1. g \in 0..(used[at[o][1]] - 1) /\ at[o][1] \in 1..Chain
    BY <1>2
  <2> QED BY <2>1 DEF Carved
<1>4. ASSUME NEW o \in Live, NEW p \in Live, o # p PROVE Extent(o) \cap Extent(p) = {}
  <2> SUFFICES ASSUME NEW g \in at[o][2]..(at[o][2] + Size[o]),
                      NEW h \in at[p][2]..(at[p][2] + Size[p]),
                      at[o][1] = at[p][1], g = h
               PROVE  FALSE
    BY DEF Extent
  <2>1. Clear(at[o], Size[o], at[p], Size[p])
    BY <1>1, <1>4 DEF HousedApart
  <2>2. /\ at[o][2] \in Nat /\ Size[o] \in Nat /\ at[p][2] \in Nat /\ Size[p] \in Nat
    BY <1>2
  <2> QED BY <2>1, <2>2 DEF Clear
<1>5. LiveObjectsApart
  <2>1. \A o \in Live : StampAt(at[o]) = "Live" /\ slot[at[o]].size = Size[o]
    BY <1>2 DEF StampAt
  <2>2. \A b \in 1..Chain : used[b] <= cap[b]
    BY <1>1 DEF Shape
  <2> QED BY <1>3, <1>4, <2>1, <2>2 DEF LiveObjectsApart
<1>6. ASSUME NEW c \in 1..Large, NEW i \in DOMAIN free[c], NEW o \in Live
      PROVE  free[c][i] \notin Extent(o)
  <2> DEFINE a == free[c][i]
  <2>1. a \in DOMAIN slot /\ slot[a].stamp = "Freed"
    BY <1>1, FreeIs DEF FreeLists
  <2>2. flavor = "pool"
    BY <1>1, <1>6 DEF Shape
  <2>3. at[o] # a /\ at[o] \in DOMAIN slot /\ slot[at[o]].size = Size[o]
    BY <1>2, <2>1
  <2>4. Clear(a, slot[a].size, at[o], Size[o])
    BY <1>1, <2>1, <2>2, <2>3 DEF PoolSlots
  <2>5. a[2] \in Nat /\ slot[a].size \in Nat
    BY <2>1, SlotIs
  <2> HIDE DEF a
  <2>6. SUFFICES ASSUME NEW g \in at[o][2]..(at[o][2] + Size[o]), a = <<at[o][1], g>>
                 PROVE  FALSE
    BY DEF Extent, a
  <2>7. a[1] = at[o][1] /\ a[2] = g
    BY <2>6
  <2>8. at[o][2] \in Nat /\ Size[o] \in Nat
    BY <1>2
  <2> QED BY <2>4, <2>5, <2>7, <2>8 DEF Clear
<1>7. FreeSlotsAreDead
  <2> SUFFICES ASSUME NEW c \in 1..Large
               PROVE  /\ Distinct(free[c])
                      /\ \A i \in DOMAIN free[c] :
                           /\ slot[free[c][i]].stamp = "Freed" /\ ClassOf(slot[free[c][i]].size) = c
                           /\ \A o \in Live : free[c][i] \notin Extent(o)
    BY DEF FreeSlotsAreDead
  <2>1. Distinct(free[c]) /\ \A i \in DOMAIN free[c] : /\ slot[free[c][i]].stamp = "Freed"
                                                       /\ ClassOf(slot[free[c][i]].size) = c
    BY <1>1 DEF FreeLists
  <2> QED BY <1>6, <2>1
<1> QED BY <1>5, <1>7 DEF SlotsApart

\* The allocator hands out no byte twice, and a free-list leads to dead
\* memory only.
THEOREM NoByteIsTwoOwners ==
  ASSUME BelowMarks = FALSE
  PROVE  Spec => []SlotsApart
<1>1. IInv => SlotsApart
  BY RegionAssumption, SlotsStayApart
<1> QED BY <1>1, Invariance, PTL
-----------------------------------------------------------------------------
(* The order of destructors.                                               *)

Birth(o) == CHOOSE i \in DOMAIN born : born[i] = o

Newest == \A i, j \in DOMAIN destroyed' \ DOMAIN destroyed :
            i < j => Birth(destroyed'[j]) < Birth(destroyed'[i])

LEMMA BirthIs ==
  ASSUME IInv, NEW o \in Live
  PROVE  Birth(o) \in DOMAIN born /\ born[Birth(o)] = o
<1>1. o \in Members(born)
  BY DEF IInv, Ledger, BornOnce, Live
<1>2. \E i \in DOMAIN born : born[i] = o
  BY <1>1 DEF Members
<1> QED BY <1>2 DEF Birth

\* The entries from the k-th on, backwards, are the newest first.
LEMMA BackwardsIsNewestFirst ==
  ASSUME IInv, NEW k \in 1..(Len(track) + 1),
         flavor = "stack" => \A i \in k..Len(track) : StampAt(at[track[i]]) = "Live",
         DestroyFrom(k)
  PROVE  Newest
<1> USE DEF IInv
<1>1. Shape /\ RegistryIsTheLiving /\ TrackByBirth
  BY DEF Ground, Ledger
<1>2. PICK r \in Seq(Destructible) : destroyed' = destroyed \o r /\ LatestFirst(r, k)
  BY <1>1, DestroyedFrom
<1>3. PICK turn \in [DOMAIN r -> k..Len(track)] :
        /\ \A m, n \in DOMAIN r : m < n => turn[n] < turn[m]
        /\ \A n \in DOMAIN r : r[n] = track[turn[n]]
  BY <1>2 DEF LatestFirst
<1> DEFINE l == Len(destroyed)
           t == destroyed \o r
<1>4. /\ l \in Nat /\ Len(r) \in Nat /\ DOMAIN destroyed = 1..l /\ DOMAIN r = 1..Len(r)
      /\ DOMAIN t = 1..(l + Len(r))
      /\ \A n \in DOMAIN r : t[l + n] = r[n]
  <2>1. destroyed \in Seq(Destructible)
    BY DEF TypeOK
  <2> QED BY <2>1, ConcatIs
<1>5. destroyed' = t
  BY <1>2
<1> HIDE DEF l, t
<1>6. \A i \in DOMAIN t \ DOMAIN destroyed : i - l \in DOMAIN r /\ t[i] = r[i - l] /\ i \in Int
  <2> TAKE i \in DOMAIN t \ DOMAIN destroyed
  <2>1. i - l \in DOMAIN r /\ l + (i - l) = i /\ i \in Int
    BY <1>4
  <2> QED BY <1>4, <2>1
<1>7. Len(track) \in Nat /\ DOMAIN track = 1..Len(track) /\ \A i \in DOMAIN track : track[i] \in Live
  BY <1>1, TrackedLives
<1>8. ASSUME NEW i \in DOMAIN t \ DOMAIN destroyed, NEW j \in DOMAIN t \ DOMAIN destroyed, i < j
      PROVE  Birth(t[j]) < Birth(t[i])
  <2> DEFINE m == turn[j - l]
             n == turn[i - l]
  <2>1. i - l \in DOMAIN r /\ j - l \in DOMAIN r /\ i - l < j - l
    BY <1>4, <1>6, <1>8
  <2>2. /\ m \in DOMAIN track /\ n \in DOMAIN track /\ m < n
        /\ t[j] = track[m] /\ t[i] = track[n]
    BY <1>3, <1>6, <1>7, <2>1
  <2> HIDE DEF m, n
  <2>3. track[m] \in Live /\ track[n] \in Live
    BY <1>7, <2>2
  <2>4. /\ Birth(t[j]) \in DOMAIN born /\ born[Birth(t[j])] = track[m]
        /\ Birth(t[i]) \in DOMAIN born /\ born[Birth(t[i])] = track[n]
    BY <2>2, <2>3, BirthIs
  <2> QED BY <1>1, <2>2, <2>4 DEF TrackByBirth
<1> QED BY <1>5, <1>8 DEF Newest

LEMMA RolledBackFrom ==
  ASSUME RegionAssumption, IInv, NEW cursor \in Nat
  PROVE  /\ OldestFrom(cursor) \in 1..(Len(track) + 1)
         /\ \A i \in OldestFrom(cursor)..Len(track) : StampAt(at[track[i]]) = "Live"
<1> USE DEF IInv
<1>1. Housed /\ RegistryIsTheLiving
  BY DEF Ground, Ledger
<1>2. Len(track) \in Nat /\ DOMAIN track = 1..Len(track) /\ \A i \in DOMAIN track : track[i] \in Live
  BY <1>1, TrackedLives
<1>3. \A p \in Live : at[p] \in DOMAIN slot /\ at[p][2] \in Nat /\ slot[at[p]].stamp = "Live"
  BY <1>1, LivesSomewhere DEF Housed
<1>4. OldestFrom(cursor) \in 1..(Len(track) + 1)
  BY <1>2, <1>3, OldestFromIs
<1>5. \A i \in OldestFrom(cursor)..Len(track) : i \in DOMAIN track
  BY <1>2, <1>4
<1> QED BY <1>2, <1>3, <1>4, <1>5 DEF StampAt

LEMMA StepIsNewestFirst ==
  ASSUME RegionAssumption, IInv, [Next]_vars
  PROVE  Newest
<1> USE DEF IInv
<1>1. Shape /\ RegistryIsTheLiving
  BY DEF Ground, Ledger
<1>2. ASSUME destroyed' = destroyed PROVE Newest
  BY <1>2 DEF Newest
<1>3. ASSUME NEW o \in Objects, Delete(o) PROVE Newest
  <2>1. destroyed \in Seq(Destructible)
    BY DEF TypeOK
  <2>2. CASE o \in Destructible
    <3>1. destroyed' = Append(destroyed, o)
      BY <1>3, <2>2 DEF Delete
    <3>2. /\ Len(destroyed) \in Nat /\ DOMAIN destroyed = 1..Len(destroyed)
          /\ DOMAIN destroyed' = 1..(Len(destroyed) + 1)
      BY <2>1, <2>2, <3>1, AppendIs, SeqIs
    <3>3. \A i, j \in DOMAIN destroyed' \ DOMAIN destroyed : ~(i < j)
      BY <3>2
    <3> QED BY <3>3 DEF Newest
  <2>3. CASE o \notin Destructible
    BY <1>2, <1>3, <2>3 DEF Delete
  <2> QED BY <2>2, <2>3
<1>4. ASSUME NEW cursor \in Nat, RollbackTo(cursor) PROVE Newest
  <2>1. DestroyFrom(OldestFrom(cursor))
    BY <1>4 DEF RollbackTo
  <2> QED BY <2>1, RolledBackFrom, BackwardsIsNewestFirst
<1>5. ASSUME NEW i \in DOMAIN marks, Rollback(i) PROVE Newest
  BY <1>4, <1>5, MarkIs DEF Rollback
<1>6. CASE Release
  <2>1. CASE flavor = "stack"
    <3>1. RollbackTo(0) /\ 0 \in Nat
      BY <1>1, <1>6, <2>1, FlavorIs DEF Release
    <3> QED BY <1>4, <3>1
  <2>2. CASE flavor = "pool"
    <3>1. DestroyFrom(1)
      BY <1>1, <1>6, <2>2, FlavorIs DEF Release
    <3>2. flavor = "stack" => \A i \in 1..Len(track) : StampAt(at[track[i]]) = "Live"
      BY <1>1, <2>2, FlavorIs
    <3>3. 1 \in 1..(Len(track) + 1)
      BY <1>1, TrackedLives
    <3> HIDE DEF IInv
    <3> QED BY <3>1, <3>2, <3>3, BackwardsIsNewestFirst
  <2> QED BY <1>1, <2>1, <2>2, FlavorIs
<1>7. CASE UNCHANGED vars
  BY <1>2, <1>7 DEF vars
<1>8. ASSUME NEW o \in Objects, NewReuses(o) \/ NewBumps(o) \/ NewGrows(o) \/ NewTraps(o) \/ Extract(o)
      PROVE  Newest
  <2>1. destroyed' = destroyed
    BY <1>8 DEF NewReuses, NewBumps, NewGrows, NewTraps, Extract, Place
  <2> QED BY <1>2, <2>1
<1>9. CASE Mark
  BY <1>2, <1>9 DEF Mark
<1> QED BY <1>3, <1>5, <1>6, <1>7, <1>8, <1>9 DEF Next

\* Of two objects that a rollback or a release destructs, the one allocated
\* later goes first.
THEOREM TheNewestGoFirst ==
  ASSUME BelowMarks = FALSE
  PROVE  Spec => NewestFirst
<1>1. IInv /\ [Next]_vars =>
        [LET Named(o) == CHOOSE i \in DOMAIN born : born[i] = o
         IN  \A i, j \in DOMAIN destroyed' \ DOMAIN destroyed :
               i < j => Named(destroyed'[j]) < Named(destroyed'[i])]_vars
  BY RegionAssumption, StepIsNewestFirst DEF Newest, Birth
<1> QED BY <1>1, Invariance, PTL DEF Spec, NewestFirst
=============================================================================
