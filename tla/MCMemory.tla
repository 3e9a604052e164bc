------------------------------ MODULE MCMemory ------------------------------
(* Who owns a byte: regions and rings, the heap or the bump arenas under   *)
(* them, the code that `unimport` takes away and brings back, and the weak *)
(* references that an object's death empties, each on a small instance.    *)
(* They share no state; Init says which of them a behaviour is about, and  *)
(* the others stay as they begin.                                          *)
EXTENDS Region, RingRegion, CodeVault, WeakList, TLC

CONSTANTS
  Kinds,                    \* those to check
  o1, o2, o3, o4,           \* the objects of a region
  Threads, Requests, Areas, CacheSlots, MaxOut, MaxDrift,  \* the heap
  Pool, Meta, Seeds, Demands, MaxPieces, MovesTop,         \* the bump arenas
  Plain, Cascaded, BaseFirst, Things  \* what is unimported, how, and the objects

VARIABLES kind, heap, out, cache, resized,
          seed, seedUsed, arena, issued, mem, full,
          alive, instances, poisoned, ripped, object, inside, lost

heapVars == <<heap, out, cache, resized>>
arenaVars == <<seed, seedUsed, arena, issued, mem, full>>
importVars == <<alive, instances, poisoned, ripped, object, inside, lost>>

\* One size with a list of its own and two that share the large list; one
\* object's class has no destructor.
ObjectSizes == (o1 :> 1) @@ (o2 :> 2) @@ (o3 :> 3) @@ (o4 :> 2)
WithDestructor == {o2, o3, o4}

\* Two classes of blocks, and a slab that two blocks leave a grain of.
Allocator == INSTANCE Heap
               WITH Sizes <- Requests, NClasses <- 2, Slab <- 4, MaxBlocks <- MaxOut,
                    blocks <- out

Arena == INSTANCE BumpArena WITH MaxOut <- MaxPieces

\* Four methods: a short one, one longer than is saved, one of a single
\* byte, and the last, of which nobody knows the length.  The vault holds
\* three at a time, and not every three.
Methods == {0, 2, 5, 6}

\* A base, what extends it and overrides one of its two methods, a class
\* for itself, and one with a static method.  Statements are in that method
\* or in another class: one of them is `unimport` of the class it is in.
Supers == [c \in {"Base", "Derived", "Alone", "Main"} |->
             IF c = "Derived" THEN "Base" ELSE "None"]
Declared == [Base |-> {"new", "~", "f", "g"}, Derived |-> {"new", "~", "f"},
             Alone |-> {"new", "~", "h"}, Main |-> {"new", "~", "static"}]

Statements == {<<"Derived", "Main">>, <<"Alone", "None">>, <<"Main", "Main">>}
Cascades == {<<"Base", "Main">>, <<"Base", "None">>}

Program == INSTANCE Unimport
             WITH Classes <- DOMAIN Supers, Super <- Supers, Declares <- Declared,
                  Objects <- Things, None <- "None"

\* Three objects: one has two weak fields, the others one.
WeakFields == <<{1, 2}, {1}, {1}>>

ASSUME InstancesFit == /\ Allocator!HeapAssumption
                       /\ RingAssumption
                       /\ Arena!ArenaAssumption
                       /\ VaultAssumption
                       /\ Program!UnimportAssumption
                       /\ Program!LeavesNoOrphans /\ Program!KeepsItsStatics
                       /\ WeakAssumption

MemoryInit == /\ kind \in Kinds
              /\ Init /\ (kind # "region" => flavor = "stack")
              /\ RingInit /\ Allocator!HeapInit /\ Arena!ArenaInit
              /\ VaultInit /\ Program!ImportInit
              /\ WeakInit

\* One of them goes on; each keeps what the other kinds have.
MemoryNext ==
  /\ \/ kind = "region" /\ Next
     \/ kind # "region" /\ UNCHANGED vars
  /\ \/ kind = "ring" /\ RingNext
     \/ kind # "ring" /\ UNCHANGED ringVars
  /\ \/ kind = "heap" /\ Allocator!HeapNext
     \/ kind # "heap" /\ UNCHANGED heapVars
  /\ \/ kind = "arena" /\ Arena!ArenaNext
     \/ kind # "arena" /\ UNCHANGED arenaVars
  /\ \/ kind = "vault" /\ VaultNext
     \/ kind # "vault" /\ UNCHANGED vaultVars
  /\ \/ kind = "import" /\ Program!ImportNext
     \/ kind # "import" /\ UNCHANGED importVars
  /\ \/ kind = "weak" /\ WeakNext
     \/ kind # "weak" /\ UNCHANGED weakVars
  /\ UNCHANGED kind

\* Threads are alike, and so are the system's allocations.
Alike == Permutations(Threads) \cup Permutations(Areas)

MemorySpec == MemoryInit /\ [][MemoryNext]_<<kind, vars, ringVars, heapVars, arenaVars, vaultVars, importVars,
                                            weakVars>>
-----------------------------------------------------------------------------
\* Every variable of the seven has a value of its kind.
MemoryTypeOK == /\ TypeOK /\ RingTypeOK /\ Arena!ArenaTypeOK
                /\ Allocator!HeapTypeOK /\ VaultTypeOK /\ Program!ImportTypeOK
                /\ WeakTypeOK

\* No byte is two objects' of a region or two blocks' of the heap or of an
\* arena, and nothing is on two lists: see Region, Heap and BumpArena.
NothingOverlaps == SlotsApart /\ Allocator!BlocksApart /\ Arena!BlocksKeepContents

\* Every object a region or a ring has made is ended once, by the step that
\* takes it out, unless it was extracted: see Region and RingRegion.
EndedOnce == DestructedOnce /\ WindowOfTheLatest

\* The counters of all threads say what is out: see Heap.
CountsAgree == Allocator!CountsAgree

\* No step runs into code that was overwritten: see Unimport.
NeverInDestroyedCode == Program!NeverInDestroyedCode

\* Code goes whole and comes back whole, in whatever order: no method saved
\* in the vault is lost, and no class is there in part: see CodeVault, Unimport.
WholeOrGone == CodeIsKept /\ Program!WholeOrGone
=============================================================================
