------------------------------- MODULE Region -------------------------------
(***************************************************************************)
(* A `pool` or `stack` region held in a field: the allocator of            *)
(* polaron_region_core.pol and the code lower.cpp emits around it for      *)
(* `new T in region`, `delete .. from region`, `extract`, `mark`,          *)
(* `rollback` and `release`.                                               *)
(*                                                                         *)
(* Sizes are counted in grains of 16 bytes: a slot is a header of one      *)
(* grain and a payload.  An address is a block of the chain and an offset  *)
(* into its data area.  A fixedslot region takes the branches of a pool.   *)
(* A free-list is the sequence of its slots, although its links live in    *)
(* their payloads: LiveObjectsApart says that nobody else writes there.    *)
(* Destructors do not use the region they are in.                          *)
(*                                                                         *)
(* An operator X_m or X_n is a plausible mistake in X, not part of the     *)
(* model.                                                                  *)
(***************************************************************************)
EXTENDS Integers, FiniteSets, Sequences

CONSTANTS
  Objects,       \* what the program allocates, each at most once
  Size,          \* Size[o]: o's payload, rounded up to the grain
  Destructible,  \* the objects whose class has a destructor
  PoolMax,       \* payloads up to this have a free-list for each size
  Cap,           \* the first block's data area
  MaxBlocks,     \* bound: the chain of a growable region
  MaxMarks,      \* bound: checkpoints held at a time
  Flavors,       \* the flavors to consider
  BelowMarks     \* whether objects older than a held checkpoint are extracted

ASSUME RegionAssumption ==
  /\ IsFiniteSet(Objects) /\ Destructible \subseteq Objects
  /\ Size \in [Objects -> Nat \ {0}]
  /\ PoolMax \in Nat /\ Cap \in Nat /\ MaxBlocks \in Nat \ {0} /\ MaxMarks \in Nat
  /\ Flavors \subseteq {"pool", "stack"}
  /\ BelowMarks \in BOOLEAN

VARIABLES
  flavor, growable,  \* fixed by the declaration
  cap, used,         \* per block of the chain; the last is the one bumped
  slot,              \* slot headers by address: stamp and payload size
  free,              \* the head's free-lists, by size class
  track,             \* the destructor registry: objects, by where they are
  at,                \* the handle the program has of an object
  state,             \* "unborn", "live", "dead", or "moved" out by extract
  born, destroyed,   \* history: allocations and destructor calls in order
  marks,             \* checkpoints held: the cursor, and who was born by then
  phase              \* "open", "released" or "trapped"

declared == <<flavor, growable>>
blocks == <<cap, used>>
vars == <<declared, blocks, slot, free, track, at, state, born, destroyed,
          marks, phase>>

Nowhere == <<0, 0>>
Chain == Len(used)   \* the number of blocks, and the one being bumped
Live == {o \in Objects : state[o] = "live"}

Large == PoolMax + 1
ClassOf(payload) == IF payload <= PoolMax THEN payload ELSE Large
SlotSize(payload) == payload + 1

Without(s, i) == SubSeq(s, 1, i - 1) \o SubSeq(s, i + 1, Len(s))

Init == /\ flavor \in Flavors
        /\ growable \in IF flavor = "pool" THEN BOOLEAN ELSE {FALSE}
        /\ cap = <<Cap>> /\ used = <<0>>
        /\ slot = << >>
        /\ free = [c \in 1..Large |-> << >>]
        /\ track = << >>
        /\ at = [o \in Objects |-> Nowhere]
        /\ state = [o \in Objects |-> "unborn"]
        /\ born = << >> /\ destroyed = << >>
        /\ marks = << >>
        /\ phase = "open"
-----------------------------------------------------------------------------
(* `new T in region R`: a slot, the constructor, and for a class with a    *)
(* destructor an entry in the registry.                                    *)
Place(o, a) ==
  /\ phase = "open" /\ state[o] = "unborn"
  /\ at' = [at EXCEPT ![o] = a]
  /\ state' = [state EXCEPT ![o] = "live"]
  /\ born' = Append(born, o)
  /\ track' = IF o \in Destructible THEN Append(track, o) ELSE track
  /\ UNCHANGED <<declared, destroyed, marks, phase>>

\* A class of small slots gives its first; the large list is searched for
\* the first of exactly the size.
Fits(o) == LET list == free[ClassOf(Size[o])]
           IN  {i \in 1..Len(list) :
                  Size[o] > PoolMax => slot[list[i]].size = Size[o]}

\* Mutant: the search unlinks the head of the list, not what it found.
NewReuses_m(o) ==
  \E i \in Fits(o) :
    LET c == ClassOf(Size[o])
        a == free[c][i]
    IN  /\ \A j \in Fits(o) : i <= j
        /\ Place(o, a)
        /\ slot' = [slot EXCEPT ![a].stamp = "Live"]
        /\ free' = [free EXCEPT ![c] = Tail(@)]
        /\ UNCHANGED blocks

NewReuses(o) ==
  \E i \in Fits(o) :
    LET c == ClassOf(Size[o])
        a == free[c][i]
    IN  /\ \A j \in Fits(o) : i <= j
        /\ Place(o, a)
        /\ slot' = [slot EXCEPT ![a].stamp = "Live"]
        /\ free' = [free EXCEPT ![c] = Without(@, i)]
        /\ UNCHANGED blocks

\* Headers the new slot covers are bytes of its payload from now on.
Carve(b, off, payload) ==
  slot' = [a \in {a \in DOMAIN slot : a[1] # b \/ a[2] \notin off..(off + payload)}
                 \cup {<<b, off>>} |->
             IF a = <<b, off>> THEN [stamp |-> "Live", size |-> payload] ELSE slot[a]]

Room(o) == used[Chain] + SlotSize(Size[o]) <= cap[Chain]

NewBumps(o) ==
  /\ Fits(o) = {} /\ Room(o)
  /\ Place(o, <<Chain, used[Chain]>>)
  /\ Carve(Chain, used[Chain], Size[o])
  /\ used' = [used EXCEPT ![Chain] = @ + SlotSize(Size[o])]
  /\ UNCHANGED <<cap, free>>

\* Mutant: the new block is not initialised.
NewGrows_m(o) ==
  LET bytes == SlotSize(Size[o])
  IN  /\ Fits(o) = {} /\ ~Room(o) /\ growable /\ Chain < MaxBlocks
      /\ Place(o, <<Chain + 1, 0>>)
      /\ Carve(Chain + 1, 0, Size[o])
      /\ used' = Append(used, bytes)
      /\ UNCHANGED <<cap, free>>

\* A growable region chains a block at least as large as the last.
NewGrows(o) ==
  LET bytes == SlotSize(Size[o])
  IN  /\ Fits(o) = {} /\ ~Room(o) /\ growable /\ Chain < MaxBlocks
      /\ Place(o, <<Chain + 1, 0>>)
      /\ Carve(Chain + 1, 0, Size[o])
      /\ cap' = Append(cap, IF cap[Chain] < bytes THEN bytes ELSE cap[Chain])
      /\ used' = Append(used, bytes)
      /\ UNCHANGED free

\* A fixed region that is full ends the program.
NewTraps(o) ==
  /\ phase = "open" /\ state[o] = "unborn"
  /\ Fits(o) = {} /\ ~Room(o) /\ ~growable
  /\ phase' = "trapped"
  /\ UNCHANGED <<declared, blocks, slot, free, track, at, state, born,
                 destroyed, marks>>
-----------------------------------------------------------------------------
(* One object given back by hand.                                          *)

\* Mutant: the last entry fills the gap.
Untrack_m(o) ==
  LET found == {i \in DOMAIN track : at[track[i]] = at[o]}
  IN  IF found = {} THEN UNCHANGED track
      ELSE \E i \in found :
             /\ \A j \in found : j <= i
             /\ track' = [j \in 1..(Len(track) - 1) |->
                            IF j = i THEN track[Len(track)] ELSE track[j]]

\* The registry forgets the latest entry at o's address, if there is one.
Untrack(o) ==
  LET found == {i \in DOMAIN track : at[track[i]] = at[o]}
  IN  IF found = {} THEN UNCHANGED track
      ELSE \E i \in found : /\ \A j \in found : j <= i
                            /\ track' = Without(track, i)

\* Mutants: a stack takes back a slot that is not the top one; the registry
\* is not told.
RegionFree_m(o) ==
  LET a == at[o]
  IN  /\ slot' = [slot EXCEPT ![a].stamp = "Freed"]
      /\ Untrack(o)
      /\ \/ /\ flavor = "stack"
            /\ used' = [used EXCEPT ![1] = @ - SlotSize(slot[a].size)]
            /\ UNCHANGED free
         \/ /\ flavor = "pool"
            /\ free' = [free EXCEPT ![ClassOf(slot[a].size)] = <<a>> \o @]
            /\ UNCHANGED used
      /\ UNCHANGED cap

RegionFree_n(o) ==
  LET a == at[o]
  IN  /\ slot' = [slot EXCEPT ![a].stamp = "Freed"]
      /\ \/ /\ flavor = "stack" /\ UNCHANGED free
         \/ /\ flavor = "pool"
            /\ free' = [free EXCEPT ![ClassOf(slot[a].size)] = <<a>> \o @]
      /\ UNCHANGED <<blocks, track>>

\* __polaron_region_free.  Its two panics, over a stamp that is not Live,
\* need a handle the program no longer has: see LiveObjectsApart.
RegionFree(o) ==
  LET a == at[o]
      top == a[2] + SlotSize(slot[a].size) = used[1]
  IN  /\ slot' = [slot EXCEPT ![a].stamp = "Freed"]
      /\ Untrack(o)
      /\ \/ /\ flavor = "stack"
            /\ used' = IF top THEN [used EXCEPT ![1] = a[2]] ELSE used
            /\ UNCHANGED free
         \/ /\ flavor = "pool"
            /\ free' = [free EXCEPT ![ClassOf(slot[a].size)] = <<a>> \o @]
            /\ UNCHANGED used
      /\ UNCHANGED cap

\* The destructor, then the slot: a stack only forgets the object.
Delete(o) ==
  /\ phase = "open" /\ o \in Live
  /\ state' = [state EXCEPT ![o] = "dead"]
  /\ destroyed' = IF o \in Destructible THEN Append(destroyed, o) ELSE destroyed
  /\ \/ flavor = "pool" /\ RegionFree(o)
     \/ flavor = "stack" /\ Untrack(o) /\ UNCHANGED <<blocks, slot, free>>
  /\ UNCHANGED <<declared, at, born, marks, phase>>

Older(o) == \E i \in DOMAIN marks : o \in marks[i].born

\* The bytes move to the heap, and the object with them.
Extract(o) ==
  /\ phase = "open" /\ o \in Live
  /\ BelowMarks \/ ~Older(o)
  /\ state' = [state EXCEPT ![o] = "moved"]
  /\ RegionFree(o)
  /\ UNCHANGED <<declared, at, born, destroyed, marks, phase>>
-----------------------------------------------------------------------------
(* Many objects at once.                                                   *)
Mark == /\ phase = "open" /\ flavor = "stack" /\ Len(marks) < MaxMarks
        /\ marks' = Append(marks, [cursor |-> used[1],
                                   born |-> {o \in Objects : state[o] # "unborn"}])
        /\ UNCHANGED <<declared, blocks, slot, free, track, at, state, born,
                       destroyed, phase>>

StampAt(a) == IF a \in DOMAIN slot THEN slot[a].stamp ELSE "none"

\* Where rollbackTo stops: above the newest entry older than the cursor.
OldestFrom(cursor) ==
  CHOOSE k \in 1..(Len(track) + 1) :
    /\ \A i \in k..Len(track) : at[track[i]][2] >= cursor
    /\ k > 1 => at[track[k - 1]][2] < cursor

\* The entries from the k-th on, the newest first.  Those of a stack are
\* passed over when the slot is no longer Live; a pool goes by the registry.
DestroyFrom(k) ==
  LET taken == {i \in k..Len(track) : flavor = "pool" \/ StampAt(at[track[i]]) = "Live"}
  IN  /\ \E turn \in [1..Cardinality(taken) -> taken] :
           /\ \A m, n \in DOMAIN turn : m < n => turn[n] < turn[m]
           /\ destroyed' = destroyed \o [n \in DOMAIN turn |-> track[turn[n]]]
      /\ track' = SubSeq(track, 1, k - 1)

\* Mutant: an entry right at the cursor is kept.
RollbackTo_m(cursor) ==
  /\ DestroyFrom(OldestFrom(cursor + 1))
  /\ used' = <<cursor>>
  /\ UNCHANGED slot

RollbackTo(cursor) ==
  LET k == OldestFrom(cursor)
      taken == {at[track[i]] : i \in k..Len(track)}
  IN  /\ DestroyFrom(k)
      /\ slot' = [a \in DOMAIN slot |->
                    IF a \in taken THEN [slot[a] EXCEPT !.stamp = "Freed"] ELSE slot[a]]
      /\ used' = <<cursor>>

\* "Marks nest": those younger than the one rolled back to are not used.
Rollback(i) ==
  /\ phase = "open"
  /\ RollbackTo(marks[i].cursor)
  /\ state' = [o \in Objects |->
                 IF o \in Live \ marks[i].born THEN "dead" ELSE state[o]]
  /\ marks' = SubSeq(marks, 1, i)
  /\ UNCHANGED <<declared, cap, free, at, born, phase>>

\* Teardown of everything that is left, then the blocks are given back.
Release ==
  /\ phase = "open"
  /\ \/ flavor = "stack" /\ RollbackTo(0)
     \/ flavor = "pool" /\ DestroyFrom(1) /\ UNCHANGED <<used, slot>>
  /\ state' = [o \in Objects |-> IF o \in Live THEN "dead" ELSE state[o]]
  /\ marks' = << >>
  /\ phase' = "released"
  /\ UNCHANGED <<declared, cap, free, at, born>>
-----------------------------------------------------------------------------
Next == \/ \E o \in Objects : \/ NewReuses(o) \/ NewBumps(o) \/ NewGrows(o) \/ NewTraps(o)
                              \/ Delete(o) \/ Extract(o)
        \/ Mark
        \/ \E i \in DOMAIN marks : Rollback(i)
        \/ Release

Spec == Init /\ [][Next]_vars
-----------------------------------------------------------------------------
Distinct(s) == \A i, j \in DOMAIN s : s[i] = s[j] => i = j
Addresses == (1..Chain) \X Nat

TypeOK ==
  /\ flavor \in Flavors /\ growable \in BOOLEAN
  /\ used \in Seq(Nat) /\ cap \in Seq(Nat) /\ DOMAIN cap = 1..Chain
  /\ DOMAIN slot \subseteq Addresses
  /\ \A a \in DOMAIN slot : slot[a] \in [stamp : {"Live", "Freed"}, size : Nat \ {0}]
  /\ free \in [1..Large -> Seq(DOMAIN slot)]
  /\ track \in Seq(Destructible)
  /\ at \in [Objects -> Addresses \cup {Nowhere}]
  /\ state \in [Objects -> {"unborn", "live", "dead", "moved"}]
  /\ born \in Seq(Objects) /\ destroyed \in Seq(Destructible)
  /\ marks \in Seq([cursor : Nat, born : SUBSET Objects])
  /\ phase \in {"open", "released", "trapped"}

\* The grains of o's slot.
Extent(o) == {<<at[o][1], g>> : g \in at[o][2]..(at[o][2] + Size[o])}
Carved == UNION {{<<b, g>> : g \in 0..(used[b] - 1)} : b \in 1..Chain}

(* The allocator hands out no byte twice: live objects lie apart, below    *)
(* their block's cursor and never past its end, each under a header that   *)
(* is stamped Live and says its size, so that neither panic of             *)
(* __polaron_region_free meets a handle the program still has.             *)
LiveObjectsApart ==
  phase = "open" =>
    /\ \A b \in 1..Chain : used[b] <= cap[b]
    /\ \A o \in Live : /\ Extent(o) \subseteq Carved
                       /\ StampAt(at[o]) = "Live" /\ slot[at[o]].size = Size[o]
    /\ \A o, p \in Live : o # p => Extent(o) \cap Extent(p) = {}

(* A free-list leads to dead memory only: no slot is on the lists twice or *)
(* on the list of another size, none of them is under a live object, and   *)
(* each still says that it was freed, which is what traps a double delete. *)
FreeSlotsAreDead ==
  \A c \in 1..Large :
    /\ Distinct(free[c])
    /\ \A i \in DOMAIN free[c] :
         LET a == free[c][i]
         IN  /\ slot[a].stamp = "Freed" /\ ClassOf(slot[a].size) = c
             /\ \A o \in Live : a \notin Extent(o)

(* No byte of a region is two owners': neither two objects', nor an        *)
(* object's and a free-list's.                                             *)
SlotsApart == LiveObjectsApart /\ FreeSlotsAreDead

(* The registry is the liveness of a region's objects: it holds, once,     *)
(* each live object with a destructor and nothing else, so that release    *)
(* neither forgets one created by another method nor destroys one that was *)
(* deleted or extracted by hand.                                           *)
RegistryIsTheLiving ==
  /\ Distinct(track)
  /\ {track[i] : i \in DOMAIN track} = Live \cap Destructible

(* "Destruct it exactly once" (polaron_region_core.pol:539): deleted by    *)
(* hand, rolled back or released, an object has its destructor run once;   *)
(* one that lives, or has left for the heap, has not had it run.           *)
DestructedOnce ==
  /\ Distinct(destroyed)
  /\ {destroyed[i] : i \in DOMAIN destroyed} = {o \in Destructible : state[o] = "dead"}

(* Rollback and release take objects the newest first (the guide,          *)
(* 05-memory-and-ownership.md:638): of two objects destroyed by one step,  *)
(* the one allocated later goes first.                                     *)
NewestFirst ==
  [][LET Birth(o) == CHOOSE i \in DOMAIN born : born[i] = o
     IN  \A i, j \in DOMAIN destroyed' \ DOMAIN destroyed :
           i < j => Birth(destroyed'[j]) < Birth(destroyed'[i])]_vars
=============================================================================
