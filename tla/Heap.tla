-------------------------------- MODULE Heap --------------------------------
(* The heap of polaron_alloc_core.hpp, realloc, and the cache of released  *)
(* region blocks of polaron_rt.cpp.                                        *)
(*                                                                         *)
(* Every thread has free-lists, a slab it carves and counters of its own,  *)
(* and a block may be freed by another thread than the one that made it.   *)
(* Nothing else is shared, so that a call is one action.  Sizes are in     *)
(* grains of 16 bytes, and a block's header is one grain; a block is named *)
(* by where its header is, an allocation of the operating system's and an  *)
(* offset.  A program frees only what it holds.                            *)
(*                                                                         *)
(* An operator X_m or X_n is a plausible mistake in X, not part of the     *)
(* model.                                                                  *)
EXTENDS Integers, FiniteSets, Sequences, FiniteSetsExt

CONSTANTS
  Threads,
  Sizes,       \* the sizes the program asks for
  NClasses,    \* a class for each size up to this; above, a block is Large
  Slab,        \* the size of a slab
  Areas,       \* bound: what the operating system has to give
  CacheSlots,  \* released region blocks a thread keeps
  MaxBlocks,   \* bound: blocks out at a time
  MaxDrift     \* bound: a thread whose counters are further off zero asks for nothing

\* What an instance must give.
HeapAssumption ==
  /\ Sizes \subseteq Nat \ {0} /\ NClasses \in Nat /\ Slab \in Nat /\ Slab > NClasses
  /\ CacheSlots \in Nat /\ MaxBlocks \in Nat /\ MaxDrift \in Nat
  /\ IsFiniteSet(Threads)

VARIABLES
  heap,    \* header: the headers, by address; areas: what has been taken from the system;
           \* per thread, lists: a free-list a class; slab: area and cursor; bytes, count
  blocks,  \* what is out, by address: its size, and whether it is "plain", a "region"
           \* block, or "cached"
  cache,   \* per thread, the cached region blocks with their sizes
  resized  \* history: a Large block has been given another size

heapVars == <<heap, blocks, cache, resized>>

Large == NClasses + 1
ClassOf(size) == IF size <= NClasses THEN size ELSE Large
Payload(h) == IF h.cls = Large THEN h.pad ELSE h.cls

With(f, x, v) == [y \in DOMAIN f \cup {x} |-> IF y = x THEN v ELSE f[y]]
But(f, x) == [y \in DOMAIN f \ {x} |-> f[y]]

HeapInit ==
  /\ heap = [header |-> << >>, areas |-> {},
             lists |-> [t \in Threads |-> [c \in 1..NClasses |-> << >>]],
             slab |-> [t \in Threads |-> <<0, Slab>>],
             bytes |-> [t \in Threads |-> 0], count |-> [t \in Threads |-> 0]]
  /\ blocks = << >>
  /\ cache = [t \in Threads |-> << >>]
  /\ resized = FALSE
-----------------------------------------------------------------------------
(* The two entry points, on a heap h: what they make of it.                *)

Tally(h, t, bytes, n) == [h EXCEPT !.bytes[t] = @ + bytes, !.count[t] = @ + n]

Stamped(cls, pad) == [magic |-> "Magic", cls |-> cls, pad |-> pad]

\* A block with an allocation of its own.
LargeBlock(h, t, size) ==
  {[at |-> <<a, 0>>,
    heap |-> Tally([h EXCEPT !.header = With(@, <<a, 0>>, Stamped(Large, size)),
                             !.areas = @ \cup {a}], t, size, 1)] : a \in Areas \ h.areas}

\* Mutant: the block still says that it is free.
Reused_m(h, t, c) ==
  LET a == Head(h.lists[t][c])
  IN  {[at |-> a, heap |-> Tally([h EXCEPT !.lists[t][c] = Tail(@)], t, c, 1)]}

Reused(h, t, c) ==
  LET a == Head(h.lists[t][c])
  IN  {[at |-> a,
        heap |-> Tally([h EXCEPT !.lists[t][c] = Tail(@), !.header[a].magic = "Magic"], t, c, 1)]}

\* From the thread's slab, or from a new one: what is left of the old is lost.
Carved(h, t, c) ==
  LET area == h.slab[t][1]
      cursor == h.slab[t][2]
      From(a, off) ==
        [at |-> <<a, off>>,
         heap |-> Tally([h EXCEPT !.header = With(@, <<a, off>>, Stamped(c, 0)),
                                  !.areas = @ \cup {a},
                                  !.slab[t] = <<a, off + 1 + c>>], t, c, 1)]
  IN  IF cursor + 1 + c <= Slab THEN {From(area, cursor)}
      ELSE {From(a, 0) : a \in Areas \ h.areas}

Malloc(h, t, size) ==
  LET c == ClassOf(size)
  IN  IF c = Large THEN LargeBlock(h, t, size)
      ELSE IF h.lists[t][c] # << >> THEN Reused(h, t, c) ELSE Carved(h, t, c)

\* Mutant: a block is counted out by its own size, as it was for the asking.
Free_m(h, t, a) ==
  LET hd == h.header[a]
  IN  IF hd.cls = Large
      THEN Tally([h EXCEPT !.header = But(@, a), !.areas = @ \ {a[1]}], t, -hd.cls, -1)
      ELSE Tally([h EXCEPT !.header[a].magic = "Freed",
                           !.lists[t][hd.cls] = <<a>> \o @], t, -hd.cls, -1)

\* A block of a class goes to the list of the thread that frees it.
Free(h, t, a) ==
  LET hd == h.header[a]
  IN  IF hd.cls = Large
      THEN Tally([h EXCEPT !.header = But(@, a), !.areas = @ \ {a[1]}], t, -hd.pad, -1)
      ELSE Tally([h EXCEPT !.header[a].magic = "Freed",
                           !.lists[t][hd.cls] = <<a>> \o @], t, -hd.cls, -1)
-----------------------------------------------------------------------------
(* What threads do.                                                        *)
Bounded(t) == /\ Cardinality(DOMAIN blocks) < MaxBlocks
              /\ {heap.bytes[t], heap.count[t]} \subseteq (-MaxDrift)..MaxDrift

Out(size, as) == [size |-> size, as |-> as]

New(t, size) ==
  /\ Bounded(t)
  /\ \E r \in Malloc(heap, t, size) : /\ heap' = r.heap
                                      /\ blocks' = With(blocks, r.at, Out(size, "plain"))
  /\ UNCHANGED <<cache, resized>>

Delete(t, a) ==
  /\ blocks[a].as = "plain"
  /\ heap' = Free(heap, t, a)
  /\ blocks' = But(blocks, a)
  /\ UNCHANGED <<cache, resized>>

\* The system's realloc moves a Large block or not; no counter is told, and
\* so the bound is one such call.
ReallocLarge(t, a, size) ==
  /\ Bounded(t) /\ ~resized /\ blocks[a].as = "plain" /\ heap.header[a].cls = Large
  /\ \E b \in (Areas \ heap.areas) \cup {a[1]} :
       /\ heap' = [heap EXCEPT !.header = With(But(@, a), <<b, 0>>, Stamped(Large, size)),
                               !.areas = (@ \ {a[1]}) \cup {b}]
       /\ blocks' = With(But(blocks, a), <<b, 0>>, Out(size, "plain"))
  /\ resized' = (size # heap.header[a].pad)
  /\ UNCHANGED cache

\* Mutant: the old block is forgotten.
Realloc_m(t, a, size) ==
  LET cls == heap.header[a].cls
  IN  /\ Bounded(t) /\ blocks[a].as = "plain" /\ cls # Large
      /\ \/ /\ size <= cls
            /\ blocks' = [blocks EXCEPT ![a].size = size]
            /\ UNCHANGED heap
         \/ /\ size > cls
            /\ \E r \in Malloc(heap, t, size) :
                 /\ heap' = r.heap
                 /\ blocks' = With(But(blocks, a), r.at, Out(size, "plain"))
      /\ UNCHANGED <<cache, resized>>

\* A block of a class stays while the class is large enough, and is copied
\* to another when it is not.
Realloc(t, a, size) ==
  LET cls == heap.header[a].cls
  IN  /\ Bounded(t) /\ blocks[a].as = "plain" /\ cls # Large
      /\ \/ /\ size <= cls
            /\ blocks' = [blocks EXCEPT ![a].size = size]
            /\ UNCHANGED heap
         \/ /\ size > cls
            /\ \E r \in Malloc(heap, t, size) :
                 /\ heap' = Free(r.heap, t, a)
                 /\ blocks' = With(But(blocks, a), r.at, Out(size, "plain"))
      /\ UNCHANGED <<cache, resized>>

\* Mutant: the comparison is the wrong way round.
Cached_m(t, size) == {i \in DOMAIN cache[t] : cache[t][i].total <= size}

Cached(t, size) == {i \in DOMAIN cache[t] : cache[t][i].total = size}

\* The first cached block of exactly the size; the last fills its place.
AcquireCached(t, size) ==
  \E i \in Cached(t, size) :
    LET a == cache[t][i].block
        last == Len(cache[t])
    IN  /\ \A j \in Cached(t, size) : i <= j
        /\ cache' = [cache EXCEPT ![t] = SubSeq([cache[t] EXCEPT ![i] = cache[t][last]],
                                              1, last - 1)]
        /\ blocks' = [blocks EXCEPT ![a] = Out(size, "region")]
        /\ UNCHANGED <<heap, resized>>

AcquireNew(t, size) ==
  /\ Bounded(t) /\ Cached(t, size) = {}
  /\ \E r \in Malloc(heap, t, size) : /\ heap' = r.heap
                                      /\ blocks' = With(blocks, r.at, Out(size, "region"))
  /\ UNCHANGED <<cache, resized>>

\* A block whose data follow its header is kept, while there is room.
ReleaseCached(t, a) ==
  /\ blocks[a].as = "region" /\ Len(cache[t]) < CacheSlots
  /\ cache' = [cache EXCEPT ![t] = Append(@, [block |-> a, total |-> blocks[a].size])]
  /\ blocks' = [blocks EXCEPT ![a].as = "cached"]
  /\ UNCHANGED <<heap, resized>>

\* The header of a region at a fixed address, or the cache is full.
ReleaseFreed(t, a) ==
  /\ blocks[a].as = "region"
  /\ heap' = Free(heap, t, a)
  /\ blocks' = But(blocks, a)
  /\ UNCHANGED <<cache, resized>>

HeapNext ==
  \E t \in Threads :
    \/ \E size \in Sizes : New(t, size) \/ AcquireCached(t, size) \/ AcquireNew(t, size)
    \/ \E a \in DOMAIN blocks :
         \/ Delete(t, a) \/ ReleaseCached(t, a) \/ ReleaseFreed(t, a)
         \/ \E size \in Sizes : ReallocLarge(t, a, size) \/ Realloc(t, a, size)
HeapSpec == HeapInit /\ [][HeapNext]_heapVars
-----------------------------------------------------------------------------
HeapTypeOK ==
  /\ DOMAIN heap.header \subseteq Areas \X (0..Slab)
  /\ heap.areas \subseteq Areas
  /\ heap.lists \in [Threads -> [1..NClasses -> Seq(DOMAIN heap.header)]]
  /\ heap.bytes \in [Threads -> Int] /\ heap.count \in [Threads -> Int]
  /\ \A t \in Threads : Len(cache[t]) <= CacheSlots
  /\ DOMAIN blocks \subseteq DOMAIN heap.header
  /\ \A a \in DOMAIN blocks : blocks[a] \in [size : Sizes, as : {"plain", "region", "cached"}]
  /\ resized \in BOOLEAN

\* The grains of a block, its header with them.
Extent(a) == {<<a[1], g>> : g \in a[2]..(a[2] + Payload(heap.header[a]))}

\* Where an address is on the free-lists: thread, class and position.
Spots(a) ==
  UNION {UNION {{<<t, c, i>> : i \in {j \in DOMAIN heap.lists[t][c] : heap.lists[t][c][j] = a}} :
                  c \in 1..NClasses} : t \in Threads}

\* Where it is in the caches: thread and position.
Keepers(a) == UNION {{<<t, i>> : i \in {j \in DOMAIN cache[t] : cache[t][j].block = a}} : t \in Threads}

(* No byte is two blocks': headers lie apart, what is out is large enough  *)
(* and stamped so that free will take it, and what is not out is on one    *)
(* list of one thread, that of its class, and stamped so that a second     *)
(* free is stopped.  A cached block is in one cache, under its own size.   *)
BlocksApart ==
  /\ \A a, b \in DOMAIN heap.header : a # b => Extent(a) \cap Extent(b) = {}
  /\ \A a \in DOMAIN heap.header :
       LET h == heap.header[a]
       IN  IF a \in DOMAIN blocks
           THEN /\ h.magic = "Magic" /\ blocks[a].size <= Payload(h)
                /\ Spots(a) = {}
           ELSE /\ h.magic = "Freed"
                /\ \E p \in Spots(a) : Spots(a) = {p} /\ p[2] = h.cls
  /\ \A a \in DOMAIN blocks :
       /\ IF blocks[a].as = "cached" THEN \E k \in Keepers(a) : Keepers(a) = {k} ELSE Keepers(a) = {}
       /\ \A k \in Keepers(a) : cache[k[1]][k[2]].total = blocks[a].size

Total(f) == MapThenSumSet(LAMBDA x : f[x], DOMAIN f)

(* The counters of all threads together say how many blocks are out, which *)
(* Test.assertNoLeaks reads; and how many bytes, as long as no Large block *)
(* has been resized: realloc does not tell them.                           *)
CountsAgree ==
  /\ Total(heap.count) = Cardinality(DOMAIN blocks)
  /\ ~resized =>
       Total(heap.bytes) = Total([a \in DOMAIN blocks |-> Payload(heap.header[a])])
=============================================================================
