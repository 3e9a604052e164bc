------------------------------ MODULE BumpArena ------------------------------
(* Where the bytes of regions come from without an operating system: the   *)
(* two arenas of polaron_fs_region.pol, of region blocks and of destructor *)
(* registries, and the memory of polaron_fs_seed.pol that both go on in    *)
(* when they are full.                                                     *)
(*                                                                         *)
(* Sizes are in grains of 16 bytes.  The two static arrays and the seeded  *)
(* memory lie next to each other, which is the worst case for a giving     *)
(* back that goes by addresses.  What a byte holds is told by its owner    *)
(* and its place in it.                                                    *)
(*                                                                         *)
(* An operator X_m or X_n is a plausible mistake in X, not part of the     *)
(* model.                                                                  *)
EXTENDS Integers, FiniteSets, FiniteSetsExt

CONSTANTS
  Pool, Meta,   \* the static arrays
  Seeds,        \* how much memory the program may hand over
  Demands,      \* the sizes it asks for
  MaxOut,       \* bound: blocks out at a time
  MovesTop      \* whether the newest block is resized also where the arena has no room

\* What an instance must give.
ArenaAssumption ==
  /\ Pool \in Nat /\ Meta \in Nat /\ MaxOut \in Nat
  /\ Seeds \subseteq Nat \ {0} /\ Demands \subseteq Nat \ {0} /\ MovesTop \in BOOLEAN

VARIABLES
  seed, seedUsed,  \* what was handed over, and how far it is given out
  arena,           \* base, capacity and cursor of each
  issued,          \* the blocks out: whose arena, where, how long, and a number
  mem,             \* what the memory holds
  full             \* the panic over a full arena

arenaVars == <<seed, seedUsed, arena, issued, mem, full>>

Arenas == {"blocks", "registry"}
SeedAt == Pool + Meta
Nobodys == <<0, 0>>

ArenaInit == /\ seed = 0 /\ seedUsed = 0
             /\ arena = [k \in Arenas |->
                           IF k = "blocks" THEN [base |-> 0, capacity |-> Pool, used |-> 0]
                           ELSE [base |-> Pool, capacity |-> Meta, used |-> 0]]
             /\ issued = {} /\ full = FALSE
             /\ mem = [i \in 0..(SeedAt - 1) |-> Nobodys]

\* __polaron_region_seed, called once by who has read the memory map, with what it gave.
Seed(size) ==
  /\ ~full /\ seed = 0
  /\ seed' = size
  /\ mem' = [i \in 0..(SeedAt + size - 1) |-> IF i < SeedAt THEN mem[i] ELSE Nobodys]
  /\ UNCHANGED <<seedUsed, arena, issued, full>>

Fits(bytes) == bytes <= seed - seedUsed

\* The sizes to grow by, the generous one first: twice the need, or as much as before.
Wants(a, need) == <<IF 2 * need < a.capacity THEN a.capacity ELSE 2 * need, need>>

\* The arena a with need more bytes taken: where it stands, or in a piece of the seed.
Room(a, need) == a.used + need <= a.capacity
Pieces(a, need) == {i \in 1..2 : Fits(Wants(a, need)[i])}
Piece(a, need) == Wants(a, need)[Min(Pieces(a, need))]
\* Mutant: the cursor of the old memory is kept in the new.
Grown_m(a, need) == [base |-> SeedAt + seedUsed, capacity |-> Piece(a, need), used |-> a.used]

Grown(a, need) == [base |-> SeedAt + seedUsed, capacity |-> Piece(a, need), used |-> 0]

Span(b) == b.at..(b.at + b.size - 1)

\* The memory m when only these blocks are out: of the rest nobody asks.
Kept(m, held) == [i \in DOMAIN m |-> IF \E b \in held : i \in Span(b) THEN m[i] ELSE Nobodys]

Written(m, at, id, from, to) ==
  [i \in DOMAIN m |-> IF i \in (at + from)..(at + to - 1) THEN <<id, i - at>> ELSE m[i]]

\* `take` of k, which stands as a: the program fills in what it did not have yet.
Take(k, a, need, id, had) ==
  LET now == IF Room(a, need) THEN a ELSE Grown(a, need)
      at == now.base + now.used
  IN  IF Room(a, need) \/ Pieces(a, need) # {}
      THEN /\ arena' = [arena EXCEPT ![k] = [now EXCEPT !.used = @ + need]]
           /\ seedUsed' = IF Room(a, need) THEN seedUsed ELSE seedUsed + now.capacity
           /\ issued' = {b \in issued : b.id # id} \cup {[kind |-> k, at |-> at, size |-> need, id |-> id]}
           /\ mem' = Written(mem, at, id, had, need)
           /\ UNCHANGED <<seed, full>>
      ELSE full' = TRUE /\ UNCHANGED <<seed, seedUsed, arena, issued, mem>>

FreeIds == 1..MaxOut \ {b.id : b \in issued}

\* __polaron_region_acquire, with the header below the block, or the first entry of a registry.
Acquire(k, size) ==
  /\ ~full /\ FreeIds # {}
  /\ Take(k, arena[k], IF k = "blocks" THEN size + 1 ELSE size, Min(FreeIds), 0)

\* Mutant: the block only has to begin below the cursor.
IsTop_m(b) == b.at < arena[b.kind].base + arena[b.kind].used

IsTop(b) == LET a == arena[b.kind] IN a.base + (a.used - b.size) = b.at

\* Only the newest gives its bytes back.
GiveBack(b) ==
  /\ ~full
  /\ issued' = issued \ {b}
  /\ mem' = Kept(mem, issued')
  /\ arena' = IF IsTop(b) THEN [arena EXCEPT ![b.kind].used = @ - b.size] ELSE arena
  /\ UNCHANGED <<seed, seedUsed, full>>

\* A registry that grows where it stands.
ResizeTop(b, size) ==
  LET a == [arena[b.kind] EXCEPT !.used = @ - b.size]
  IN  /\ ~full /\ IsTop(b) /\ size > b.size
      /\ MovesTop \/ Room(a, size)
      /\ Take(b.kind, a, size, b.id, b.size)

\* Mutant: the copy is one grain short.
Copied_m(b, at) == [i \in DOMAIN mem |-> IF i \in at..(at + b.size - 2) THEN mem[b.at + (i - at)] ELSE mem[i]]

Copied(b, at) == [i \in DOMAIN mem |-> IF i \in at..(at + b.size - 1) THEN mem[b.at + (i - at)] ELSE mem[i]]

\* A registry that is not the newest block: a fresh block, and the old bytes copied.
ResizeCopy(b, size) ==
  LET a == arena[b.kind]
      now == IF Room(a, size) THEN a ELSE Grown(a, size)
      at == now.base + now.used
  IN  /\ ~full /\ ~IsTop(b) /\ size > b.size
      /\ Room(a, size) \/ Pieces(a, size) # {}
      /\ arena' = [arena EXCEPT ![b.kind] = [now EXCEPT !.used = @ + size]]
      /\ seedUsed' = IF Room(a, size) THEN seedUsed ELSE seedUsed + now.capacity
      /\ issued' = (issued \ {b}) \cup {[b EXCEPT !.at = at, !.size = size]}
      /\ mem' = Kept(Written(Copied(b, at), at, b.id, b.size, size), issued')
      /\ UNCHANGED <<seed, full>>

Resize(b, size) == b.kind = "registry" /\ (ResizeTop(b, size) \/ ResizeCopy(b, size))

ArenaNext == \/ \E size \in Seeds : Seed(size)
             \/ \E k \in Arenas, size \in Demands : Acquire(k, size)
             \/ \E b \in issued : GiveBack(b) \/ \E size \in Demands : Resize(b, size)
ArenaSpec == ArenaInit /\ [][ArenaNext]_arenaVars
-----------------------------------------------------------------------------
ArenaTypeOK == /\ seedUsed \in 0..seed
               /\ \A k \in Arenas : arena[k].capacity \in Nat /\ arena[k].used \in Int
               /\ {b.id : b \in issued} \subseteq 1..MaxOut

(* Every block that is out holds what its owner wrote, in memory that was  *)
(* handed over: none is given out twice, however blocks were given back    *)
(* and the arenas moved on, and a registry that grows keeps its entries.   *)
BlocksKeepContents ==
  \A b \in issued : \A i \in 0..(b.size - 1) :
    b.at + i \in DOMAIN mem /\ mem[b.at + i] = <<b.id, i>>
=============================================================================
