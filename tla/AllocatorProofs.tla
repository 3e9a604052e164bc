-------------------------- MODULE AllocatorProofs --------------------------
(* That no byte has two owners: the two allocators below everything else,  *)
(* the heap of polaron_alloc.pol with its slabs, lists and caches and the  *)
(* arenas of a program without an operating system, for any sizes, threads *)
(* and bounds; and that the counters of the heap's threads add up to what  *)
(* is out.                                                                 *)
EXTENDS Heap, BumpArena, SequenceTheorems, FiniteSetTheorems, WellFoundedInduction, TLAPS

-----------------------------------------------------------------------------
(* The heap.  An allocation of the system's is one thread's slab, carved   *)
(* from its beginning, a slab nobody carves any more, or one Large block.  *)

Fields == {"header", "areas", "lists", "slab", "bytes", "count"}
Addresses == Areas \X (0..Slab)
Headers == [magic : {"Magic", "Freed"}, cls : 1..Large, pad : Nat]

\* The last grain of the block at a.
EndOf(h, a) == a[2] + Payload(h.header[a])

HeapTypes(h) ==
  /\ DOMAIN h = Fields
  /\ DOMAIN h.header \subseteq Addresses
  /\ \A a \in DOMAIN h.header : h.header[a] \in Headers
  /\ h.areas \subseteq Areas
  /\ h.lists \in [Threads -> [1..NClasses -> Seq(DOMAIN h.header)]]
  /\ h.slab \in [Threads -> (Areas \cup {0}) \X (0..Slab)]
  /\ h.bytes \in [Threads -> Int] /\ h.count \in [Threads -> Int]

\* A block lies in what was taken, beside the others, a Large one alone.
Beside(h, a, b) == /\ a[1] = b[1] => EndOf(h, a) < b[2] \/ EndOf(h, b) < a[2]
                   /\ h.header[a].cls = Large => a[1] # b[1]
Laid(h) ==
  /\ \A a \in DOMAIN h.header : a[1] \in h.areas
  /\ \A a, b \in DOMAIN h.header : a # b => Beside(h, a, b)

\* What a thread can carve: nothing is there yet, and nobody else carves it.
Open(h, t) == h.slab[t][2] < Slab
Below(h, t, a) == a[1] = h.slab[t][1] => h.header[a].cls # Large /\ EndOf(h, a) < h.slab[t][2]
Carvable(h) ==
  \A t \in Threads : Open(h, t) =>
    /\ h.slab[t][1] \in h.areas
    /\ \A a \in DOMAIN h.header : Below(h, t, a)
    /\ \A u \in Threads \ {t} : Open(h, u) => h.slab[u][1] # h.slab[t][1]

\* What is not out is on one list, and what is out on none.
Entry(h, t, c, i) == h.lists[t][c][i]
OnTheirs(h, out) ==
  \A t \in Threads, c \in 1..NClasses : \A i \in DOMAIN h.lists[t][c] :
    /\ Entry(h, t, c, i) \in DOMAIN h.header \ out
    /\ h.header[Entry(h, t, c, i)].cls = c
OnOne(h) ==
  \A t, u \in Threads, c \in 1..NClasses :
    \A i \in DOMAIN h.lists[t][c], j \in DOMAIN h.lists[u][c] :
      Entry(h, t, c, i) = Entry(h, u, c, j) => t = u /\ i = j
ToBeHad(h, a) ==
  /\ h.header[a].magic = "Freed" /\ h.header[a].cls \in 1..NClasses
  /\ \E t \in Threads : \E i \in DOMAIN h.lists[t][h.header[a].cls] :
       Entry(h, t, h.header[a].cls, i) = a
Listed(h, out) ==
  /\ OnTheirs(h, out) /\ OnOne(h)
  /\ \A a \in DOMAIN h.header \ out : ToBeHad(h, a)
  /\ \A a \in out : a \in DOMAIN h.header /\ h.header[a].magic = "Magic"

Sound(h, out) == HeapTypes(h) /\ Laid(h) /\ Carvable(h) /\ Listed(h, out)

\* What an allocation of a size gives.
Gives(h, out, r, size) ==
  /\ r.at \notin out /\ Sound(r.heap, out \cup {r.at})
  /\ size <= Payload(r.heap.header[r.at])
  /\ \A a \in out : r.heap.header[a] = h.header[a]
-----------------------------------------------------------------------------
\* What adding or replacing one entry leaves of a function.
LEMMA WithIs ==
  ASSUME NEW f, NEW x, NEW v
  PROVE  /\ DOMAIN With(f, x, v) = DOMAIN f \cup {x}
         /\ With(f, x, v)[x] = v
         /\ \A y \in DOMAIN f : y # x => With(f, x, v)[y] = f[y]
BY DEF With

\* What dropping one entry leaves of a function.
LEMMA ButIs ==
  ASSUME NEW f, NEW x
  PROVE  /\ DOMAIN But(f, x) = DOMAIN f \ {x}
         /\ \A y \in DOMAIN f \ {x} : But(f, x)[y] = f[y]
BY DEF But

\* Counting changes the counters of the heap and nothing else.
LEMMA TallyIs ==
  ASSUME NEW h, DOMAIN h = Fields, NEW t \in Threads, NEW bytes \in Int, NEW n \in Int,
         h.bytes \in [Threads -> Int], h.count \in [Threads -> Int]
  PROVE  LET g == Tally(h, t, bytes, n)
         IN  /\ DOMAIN g = Fields
             /\ g.header = h.header /\ g.areas = h.areas /\ g.lists = h.lists /\ g.slab = h.slab
             /\ g.bytes \in [Threads -> Int] /\ g.count \in [Threads -> Int]
BY DEF Tally, Fields

\* A block is as long as its header says.
LEMMA PayloadIs ==
  ASSUME NClasses \in Nat, NEW d \in Headers
  PROVE  Payload(d) \in Nat
BY DEF Payload, Headers, Large

\* No block ends before it begins.
LEMMA EndIs ==
  ASSUME HeapAssumption, NEW h, HeapTypes(h), NEW a \in DOMAIN h.header
  PROVE  a[2] \in Nat /\ EndOf(h, a) \in Nat /\ a[2] <= EndOf(h, a)
<1>1. a \in Areas \X (0..Slab) /\ Slab \in Nat /\ NClasses \in Nat
  BY DEF HeapTypes, Addresses, HeapAssumption
<1>2. a[2] \in Nat
  BY <1>1
<1>3. Payload(h.header[a]) \in Nat
  BY <1>1, PayloadIs DEF HeapTypes
<1> QED BY <1>2, <1>3 DEF EndOf

\* A list with one more in front: the others are one place further.
LEMMA FrontIs ==
  ASSUME NEW S, NEW a \in S, NEW s \in Seq(S)
  PROVE  /\ <<a>> \o s \in Seq(S) /\ DOMAIN (<<a>> \o s) = 1..(Len(s) + 1)
         /\ (<<a>> \o s)[1] = a /\ \A i \in 2..(Len(s) + 1) : (<<a>> \o s)[i] = s[i - 1]
<1>1. <<a>> \in Seq(S) /\ Len(<<a>>) = 1 /\ <<a>>[1] = a /\ Len(s) \in Nat
  OBVIOUS
<1> DEFINE m == <<a>> \o s
<1>2. m \in Seq(S) /\ Len(m) = 1 + Len(s)
      /\ \A i \in 1..(1 + Len(s)) : m[i] = IF i <= 1 THEN <<a>>[i] ELSE s[i - 1]
  BY <1>1, ConcatProperties
<1>3. DOMAIN m = 1..Len(m)
  BY <1>2, LenProperties
<1> HIDE DEF m
<1>4. \A i \in 2..(Len(s) + 1) : i \in 1..(1 + Len(s)) /\ ~(i <= 1)
  BY <1>1
<1>5. 1 \in 1..(1 + Len(s)) /\ 1 <= 1 /\ 1 + Len(s) = Len(s) + 1
  BY <1>1
<1> QED BY <1>1, <1>2, <1>3, <1>4, <1>5 DEF m

\* Lists of blocks stay lists of blocks when there are more,
LEMMA ListsWiden ==
  ASSUME NEW S, NEW T, S \subseteq T, NEW f \in [Threads -> [1..NClasses -> Seq(S)]]
  PROVE  f \in [Threads -> [1..NClasses -> Seq(T)]]
<1>1. ASSUME NEW s \in Seq(S) PROVE s \in Seq(T)
  BY SeqDef
<1> QED BY <1>1

\* and when there are fewer, if what they hold is still among them.
LEMMA ListsNarrow ==
  ASSUME NEW S, NEW T, NEW f \in [Threads -> [1..NClasses -> Seq(S)]],
         \A t \in Threads, c \in 1..NClasses : \A i \in DOMAIN f[t][c] : f[t][c][i] \in T
  PROVE  f \in [Threads -> [1..NClasses -> Seq(T)]]
<1>1. ASSUME NEW t \in Threads, NEW c \in 1..NClasses PROVE f[t][c] \in Seq(T)
  <2>1. f[t][c] \in Seq(S)
    OBVIOUS
  <2>2. PICK n \in Nat : f[t][c] \in [1..n -> S]
    BY <2>1, SeqDef
  <2>3. f[t][c] \in [1..n -> T]
    BY <2>2
  <2> QED BY <2>3, SeqDef
<1>2. f = [t \in Threads |-> [c \in 1..NClasses |-> f[t][c]]]
  OBVIOUS
<1> QED BY <1>1, <1>2

\* What the counters say is nobody's business here.
LEMMA TallyKeeps ==
  ASSUME NEW h, NEW out, Sound(h, out), NEW t \in Threads, NEW bytes \in Int, NEW n \in Int
  PROVE  Sound(Tally(h, t, bytes, n), out) /\ Tally(h, t, bytes, n).header = h.header
<1> DEFINE g == Tally(h, t, bytes, n)
<1>1. /\ DOMAIN h = Fields /\ h.bytes \in [Threads -> Int] /\ h.count \in [Threads -> Int]
  BY DEF Sound, HeapTypes
<1>2. /\ DOMAIN g = Fields
      /\ g.header = h.header /\ g.areas = h.areas /\ g.lists = h.lists /\ g.slab = h.slab
      /\ g.bytes \in [Threads -> Int] /\ g.count \in [Threads -> Int]
  BY <1>1, TallyIs
<1> HIDE DEF g
<1>3. HeapTypes(g)
  BY <1>2 DEF Sound, HeapTypes
<1>4. Laid(g)
  BY <1>2 DEF Sound, Laid, Beside, EndOf
<1>5. Carvable(g)
  BY <1>2 DEF Sound, Carvable, Open, Below, EndOf
<1>6. Listed(g, out)
  <2>1. Listed(h, out)
    BY DEF Sound
  <2>2. \A s, c, i : Entry(g, s, c, i) = Entry(h, s, c, i)
    BY <1>2 DEF Entry
  <2>3. OnTheirs(g, out)
    BY <1>2, <2>1, <2>2 DEF Listed, OnTheirs
  <2>4. OnOne(g)
    BY <1>2, <2>1, <2>2 DEF Listed, OnOne
  <2>5. \A a : ToBeHad(h, a) => ToBeHad(g, a)
    BY <1>2, <2>2 DEF ToBeHad
  <2> QED BY <1>2, <2>1, <2>3, <2>4, <2>5 DEF Listed
<1> QED BY <1>2, <1>3, <1>4, <1>5, <1>6 DEF Sound, g

Put(h, a, size) == [h EXCEPT !.header = With(@, <<a, 0>>, Stamped(Large, size)),
                             !.areas = @ \cup {a}]
Gone(h, a) == [h EXCEPT !.header = But(@, a), !.areas = @ \ {a[1]}]

\* A Large block in an area of its own.
LEMMA PutGives ==
  ASSUME HeapAssumption, NEW h, NEW out, Sound(h, out), NEW a \in Areas \ h.areas, NEW size \in Nat
  PROVE  Gives(h, out, [at |-> <<a, 0>>, heap |-> Put(h, a, size)], size)
<1> DEFINE R == Put(h, a, size)
           x == <<a, 0>>
<1>3. /\ DOMAIN R = Fields
      /\ R.header = With(h.header, x, Stamped(Large, size))
      /\ R.areas = h.areas \cup {a} /\ R.lists = h.lists /\ R.slab = h.slab
      /\ R.bytes \in [Threads -> Int] /\ R.count \in [Threads -> Int]
  BY DEF Put, Sound, HeapTypes, Fields
<1>5. x[1] = a /\ x[2] = 0 /\ a \notin h.areas /\ x \notin DOMAIN h.header
  BY DEF Sound, Laid
<1> HIDE DEF R
<1>4. /\ DOMAIN R.header = DOMAIN h.header \cup {x} /\ R.header[x] = Stamped(Large, size)
      /\ \A b \in DOMAIN h.header : b # x => R.header[b] = h.header[b]
  BY <1>3 DEF With
<1> HIDE DEF x
<1>6. x \notin out
  BY <1>5 DEF Sound, Listed
<1>7. R.header[x] \in Headers /\ R.header[x].cls = Large /\ R.header[x].magic = "Magic"
      /\ Payload(R.header[x]) = size
  BY <1>4 DEF Stamped, Headers, Large, Payload, HeapAssumption
<1>8. HeapTypes(R)
  <2>1. h.lists \in [Threads -> [1..NClasses -> Seq(DOMAIN R.header)]]
    <3>1. DOMAIN h.header \subseteq DOMAIN R.header
      BY <1>4
    <3>2. h.lists \in [Threads -> [1..NClasses -> Seq(DOMAIN h.header)]]
      BY DEF Sound, HeapTypes
    <3> HIDE DEF Sound
    <3> QED BY <3>1, <3>2, ListsWiden
  <2>2. DOMAIN R.header \subseteq Addresses
    BY <1>3, <1>4 DEF x, Sound, HeapTypes, Addresses, HeapAssumption
  <2> QED BY <1>3, <1>4, <1>7, <2>1, <2>2 DEF Sound, HeapTypes
<1>9. Laid(R)
  BY <1>3, <1>4, <1>5 DEF Sound, Laid, Beside, EndOf
<1>10. Carvable(R)
  BY <1>3, <1>4, <1>5 DEF Sound, Carvable, Open, Below, EndOf
<1>11. Listed(R, out \cup {x})
  <2>1. \A u, c, i : Entry(R, u, c, i) = Entry(h, u, c, i)
    BY <1>3 DEF Entry
  <2>2. OnTheirs(R, out \cup {x})
    <3> SUFFICES ASSUME NEW u \in Threads, NEW c \in 1..NClasses, NEW i \in DOMAIN h.lists[u][c]
                 PROVE  /\ Entry(h, u, c, i) \in DOMAIN R.header \ (out \cup {x})
                        /\ R.header[Entry(h, u, c, i)].cls = c
      BY <1>3, <2>1 DEF OnTheirs
    <3>1. Entry(h, u, c, i) \in DOMAIN h.header \ out /\ h.header[Entry(h, u, c, i)].cls = c
      BY DEF Sound, Listed, OnTheirs
    <3> QED BY <1>4, <1>5, <3>1
  <2>3. OnOne(R)
    BY <1>3, <2>1 DEF Sound, Listed, OnOne
  <2>4. \A b \in DOMAIN R.header \ (out \cup {x}) : ToBeHad(R, b)
    <3> SUFFICES ASSUME NEW b \in DOMAIN h.header \ out, b # x PROVE ToBeHad(R, b)
      BY <1>4
    <3>1. R.header[b] = h.header[b] /\ ToBeHad(h, b)
      BY <1>4 DEF Sound, Listed
    <3> QED BY <1>3, <2>1, <3>1 DEF ToBeHad
  <2>5. \A b \in out \cup {x} : b \in DOMAIN R.header /\ R.header[b].magic = "Magic"
    BY <1>4, <1>5, <1>7 DEF Sound, Listed
  <2> QED BY <2>2, <2>3, <2>4, <2>5 DEF Listed
<1> QED BY <1>4, <1>5, <1>6, <1>7, <1>8, <1>9, <1>10, <1>11 DEF Gives, Sound, Listed, R, x

\* malloc of more than the largest class gives the caller a Large block.
LEMMA LargeBlockGives ==
  ASSUME HeapAssumption, NEW h, NEW out, Sound(h, out), NEW t \in Threads,
         NEW size \in Nat, NEW r \in LargeBlock(h, t, size)
  PROVE  Gives(h, out, r, size)
<1>1. PICK a \in Areas \ h.areas : r = [at |-> <<a, 0>>, heap |-> Tally(Put(h, a, size), t, size, 1)]
  BY DEF LargeBlock, Put
<1>2. Gives(h, out, [at |-> <<a, 0>>, heap |-> Put(h, a, size)], size)
  BY PutGives
<1>3. <<a, 0>> \notin out /\ Sound(Put(h, a, size), out \cup {<<a, 0>>})
  BY <1>2 DEF Gives
<1>4. /\ Sound(Tally(Put(h, a, size), t, size, 1), out \cup {<<a, 0>>})
      /\ Tally(Put(h, a, size), t, size, 1).header = Put(h, a, size).header
  BY <1>3, TallyKeeps
<1> QED BY <1>1, <1>2, <1>3, <1>4 DEF Gives

\* A block of its own class that was freed.
LEMMA ReusedGives ==
  ASSUME HeapAssumption, NEW h, NEW out, Sound(h, out), NEW t \in Threads,
         NEW c \in 1..NClasses, h.lists[t][c] # << >>, NEW r \in Reused(h, t, c)
  PROVE  Gives(h, out, r, c)
<1> DEFINE R == r.heap
           x == r.at
           L == h.lists[t][c]
           g == [h EXCEPT !.lists[t][c] = Tail(@), !.header[x].magic = "Magic"]
<1>1. x = Head(L) /\ R = Tally(g, t, c, 1)
  <2>1. r = [at |-> Head(L), heap |-> Tally([h EXCEPT !.lists[t][c] = Tail(@),
                                                    !.header[Head(L)].magic = "Magic"], t, c, 1)]
    BY DEF Reused
  <2>2. x = Head(L)
    BY <2>1
  <2> HIDE DEF x
  <2> QED BY <2>1, <2>2
<1>2. L \in Seq(DOMAIN h.header) /\ L # << >> /\ Len(L) \in Nat \ {0} /\ DOMAIN L = 1..Len(L)
      /\ c \in Int
  <2>1. L \in Seq(DOMAIN h.header) /\ L # << >>
    BY DEF Sound, HeapTypes
  <2> HIDE DEF L, x, R
  <2>2. Len(L) \in Nat \ {0} /\ DOMAIN L = 1..Len(L)
    BY <2>1, EmptySeq, LenProperties
  <2> QED BY <2>1, <2>2 DEF HeapAssumption
<1>3. x = L[1] /\ 1 \in DOMAIN L
  BY <1>1, <1>2
<1>4. x \in DOMAIN h.header \ out /\ h.header[x].cls = c /\ h.header[x] \in Headers
  BY <1>3 DEF Sound, Listed, OnTheirs, Entry, HeapTypes
<1>5. /\ DOMAIN g = Fields /\ g.areas = h.areas /\ g.slab = h.slab
      /\ g.bytes = h.bytes /\ g.count = h.count
  BY DEF Sound, HeapTypes, Fields
<1>6. g.header = [h.header EXCEPT ![x].magic = "Magic"]
  BY DEF Sound, HeapTypes, Fields
<1>7. g.lists = [h.lists EXCEPT ![t][c] = Tail(@)]
  BY DEF Sound, HeapTypes, Fields
<1>8. /\ DOMAIN R = Fields /\ R.header = g.header /\ R.areas = h.areas /\ R.lists = g.lists
      /\ R.slab = h.slab /\ R.bytes \in [Threads -> Int] /\ R.count \in [Threads -> Int]
  <2> HIDE DEF g, R, L, x
  <2>1. h.bytes \in [Threads -> Int] /\ h.count \in [Threads -> Int]
    BY DEF Sound, HeapTypes
  <2> QED BY <1>1, <1>2, <1>5, <2>1, TallyIs
<1>9. /\ DOMAIN R.header = DOMAIN h.header
      /\ R.header[x] = [h.header[x] EXCEPT !.magic = "Magic"]
      /\ \A b \in DOMAIN h.header : b # x => R.header[b] = h.header[b]
  <2> HIDE DEF g, R, L, x
  <2> QED BY <1>4, <1>6, <1>8
<1>10. /\ R.lists[t][c] = Tail(L)
       /\ \A u \in Threads, d \in 1..NClasses : u # t \/ d # c => R.lists[u][d] = h.lists[u][d]
       /\ DOMAIN R.lists = Threads /\ \A u \in Threads : DOMAIN R.lists[u] = 1..NClasses
  <2>1. h.lists \in [Threads -> [1..NClasses -> Seq(DOMAIN h.header)]]
    BY DEF Sound, HeapTypes
  <2>2. R.lists = [h.lists EXCEPT ![t] = [h.lists[t] EXCEPT ![c] = Tail(L)]]
    BY <1>7, <1>8
  <2> HIDE DEF g, R, L
  <2> QED BY <2>1, <2>2, ZenonT(60)
<1> HIDE DEF g, R, L, x
<1>11. /\ Tail(L) \in Seq(DOMAIN h.header) /\ DOMAIN Tail(L) = 1..(Len(L) - 1)
       /\ \A i \in 1..(Len(L) - 1) : Tail(L)[i] = L[i + 1]
  BY <1>2, HeadTailProperties
<1>12. /\ R.header[x] \in Headers /\ R.header[x].cls = c /\ R.header[x].magic = "Magic"
       /\ Payload(R.header[x]) = Payload(h.header[x])
  BY <1>4, <1>9 DEF Headers, Payload
<1>13. Payload(R.header[x]) = c
  BY <1>12 DEF Payload, Large, HeapAssumption
<1>14. \A b \in DOMAIN h.header : EndOf(R, b) = EndOf(h, b) /\ R.header[b].cls = h.header[b].cls
  BY <1>4, <1>9, <1>12 DEF EndOf
<1>15. HeapTypes(R)
  <2>1. \A b \in DOMAIN R.header : R.header[b] \in Headers
    BY <1>9, <1>12 DEF Sound, HeapTypes
  <2>2. R.lists \in [Threads -> [1..NClasses -> Seq(DOMAIN R.header)]]
    <3>1. h.lists \in [Threads -> [1..NClasses -> Seq(DOMAIN h.header)]]
      BY DEF Sound, HeapTypes
    <3>2. R.lists = [u \in Threads |-> [d \in 1..NClasses |-> R.lists[u][d]]]
      <4>1. R.lists = [h.lists EXCEPT ![t][c] = Tail(@)]
        BY <1>7, <1>8
      <4> QED BY <3>1, <4>1
    <3>3. \A u \in Threads, d \in 1..NClasses : R.lists[u][d] \in Seq(DOMAIN R.header)
      <4> SUFFICES ASSUME NEW u \in Threads, NEW d \in 1..NClasses
                   PROVE  R.lists[u][d] \in Seq(DOMAIN h.header)
        BY <1>9
      <4>1. CASE u = t /\ d = c
        BY <1>10, <1>11, <4>1
      <4>2. CASE ~(u = t /\ d = c)
        <5>1. R.lists[u][d] = h.lists[u][d] /\ h.lists[u] \in [1..NClasses -> Seq(DOMAIN h.header)]
          BY <1>10, <3>1, <4>2
        <5> QED BY <5>1
      <4> QED BY <4>1, <4>2
    <3> QED BY <3>2, <3>3
  <2> QED BY <1>8, <1>9, <2>1, <2>2 DEF Sound, HeapTypes
<1>16. Laid(R)
  <2>1. \A b, d \in DOMAIN h.header : Beside(h, b, d) => Beside(R, b, d)
    BY <1>14 DEF Beside
  <2> QED BY <1>8, <1>9, <2>1 DEF Sound, Laid
<1>17. Carvable(R)
  <2>1. \A u, b : b \in DOMAIN h.header /\ Below(h, u, b) => Below(R, u, b)
    BY <1>8, <1>14 DEF Below
  <2>2. \A u : Open(R, u) = Open(h, u)
    BY <1>8 DEF Open
  <2> QED BY <1>8, <1>9, <2>1, <2>2 DEF Sound, Carvable
<1>18. \A u \in Threads, d \in 1..NClasses : \A i \in DOMAIN R.lists[u][d] :
         \E j \in DOMAIN h.lists[u][d] :
           /\ Entry(R, u, d, i) = Entry(h, u, d, j)
           /\ j = IF u = t /\ d = c THEN i + 1 ELSE i
  <2> SUFFICES ASSUME NEW u \in Threads, NEW d \in 1..NClasses, NEW i \in DOMAIN R.lists[u][d]
               PROVE  \E j \in DOMAIN h.lists[u][d] :
                        /\ Entry(R, u, d, i) = Entry(h, u, d, j)
                        /\ j = IF u = t /\ d = c THEN i + 1 ELSE i
    OBVIOUS
  <2>1. CASE u = t /\ d = c
    <3>1. i \in 1..(Len(L) - 1) /\ i + 1 \in 1..Len(L)
      BY <1>2, <1>10, <1>11, <2>1
    <3> QED BY <1>2, <1>10, <1>11, <2>1, <3>1 DEF Entry, L
  <2>2. CASE ~(u = t /\ d = c)
    BY <1>10, <2>2 DEF Entry
  <2> QED BY <2>1, <2>2
<1>19. OnTheirs(R, out \cup {x})
  <2> SUFFICES ASSUME NEW u \in Threads, NEW d \in 1..NClasses, NEW i \in DOMAIN R.lists[u][d]
               PROVE  /\ Entry(R, u, d, i) \in DOMAIN R.header \ (out \cup {x})
                      /\ R.header[Entry(R, u, d, i)].cls = d
    BY DEF OnTheirs
  <2>1. PICK j \in DOMAIN h.lists[u][d] :
          /\ Entry(R, u, d, i) = Entry(h, u, d, j)
          /\ j = IF u = t /\ d = c THEN i + 1 ELSE i
    BY <1>18
  <2>2. /\ Entry(h, u, d, j) \in DOMAIN h.header \ out /\ h.header[Entry(h, u, d, j)].cls = d
    BY DEF Sound, Listed, OnTheirs
  <2>3. Entry(h, u, d, j) # x
    <3> SUFFICES ASSUME Entry(h, u, d, j) = x PROVE FALSE
      OBVIOUS
    <3>1. d = c /\ x = Entry(h, t, c, 1) /\ 1 \in DOMAIN h.lists[t][c]
      BY <1>3, <1>4, <2>2 DEF Entry, L
    <3>2. u = t /\ j = 1
      BY <3>1 DEF Sound, Listed, OnOne
    <3>3. i \in 1..(Len(L) - 1)
      BY <1>10, <1>11, <3>1, <3>2
    <3> QED BY <1>2, <2>1, <3>1, <3>2, <3>3
  <2> QED BY <1>9, <1>14, <2>1, <2>2, <2>3
<1>20. OnOne(R)
  <2> SUFFICES ASSUME NEW u \in Threads, NEW v \in Threads, NEW d \in 1..NClasses,
                      NEW i \in DOMAIN R.lists[u][d], NEW j \in DOMAIN R.lists[v][d],
                      Entry(R, u, d, i) = Entry(R, v, d, j)
               PROVE  u = v /\ i = j
    BY DEF OnOne
  <2>1. PICK k \in DOMAIN h.lists[u][d] :
          /\ Entry(R, u, d, i) = Entry(h, u, d, k)
          /\ k = IF u = t /\ d = c THEN i + 1 ELSE i
    BY <1>18
  <2>2. PICK l \in DOMAIN h.lists[v][d] :
          /\ Entry(R, v, d, j) = Entry(h, v, d, l)
          /\ l = IF v = t /\ d = c THEN j + 1 ELSE j
    BY <1>18
  <2>3. u = v /\ k = l
    <3>1. Entry(h, u, d, k) = Entry(h, v, d, l)
      BY <2>1, <2>2
    <3> QED BY <3>1 DEF Sound, Listed, OnOne
  <2>4. CASE u = t /\ d = c
    <3>1. i \in Int /\ j \in Int
      BY <1>2, <1>10, <1>11, <2>3, <2>4
    <3> QED BY <2>1, <2>2, <2>3, <2>4, <3>1
  <2>5. CASE ~(u = t /\ d = c)
    BY <2>1, <2>2, <2>3, <2>5
  <2> QED BY <2>4, <2>5
<1>21. ASSUME NEW b \in DOMAIN R.header \ (out \cup {x}) PROVE ToBeHad(R, b)
  <2>1. b \in DOMAIN h.header \ out /\ b # x /\ R.header[b] = h.header[b] /\ ToBeHad(h, b)
    BY <1>9 DEF Sound, Listed
  <2> DEFINE d == h.header[b].cls
  <2>2. PICK u \in Threads : \E i \in DOMAIN h.lists[u][d] : Entry(h, u, d, i) = b
    BY <2>1 DEF ToBeHad
  <2>3. PICK i \in DOMAIN h.lists[u][d] : Entry(h, u, d, i) = b
    BY <2>2
  <2>4. d \in 1..NClasses /\ R.header[b].magic = "Freed" /\ R.header[b].cls = d
    BY <2>1 DEF ToBeHad
  <2> HIDE DEF d
  <2>5. \E j \in DOMAIN R.lists[u][d] : Entry(R, u, d, j) = b
    <3>1. CASE u = t /\ d = c
      <4>1. i \in 2..Len(L)
        BY <1>2, <1>3, <2>1, <2>3, <3>1 DEF Entry, L
      <4>2. i - 1 \in 1..(Len(L) - 1) /\ Tail(L)[i - 1] = L[i]
        BY <1>2, <1>11, <4>1
      <4> QED BY <1>10, <1>11, <2>3, <3>1, <4>2 DEF Entry, L
    <3>2. CASE ~(u = t /\ d = c)
      BY <1>10, <2>3, <2>4, <3>2 DEF Entry
    <3> QED BY <3>1, <3>2
  <2> QED BY <2>4, <2>5 DEF ToBeHad
<1>22. \A b \in out \cup {x} : b \in DOMAIN R.header /\ R.header[b].magic = "Magic"
  BY <1>4, <1>9, <1>12 DEF Sound, Listed
<1>23. \A b \in out : R.header[b] = h.header[b]
  BY <1>4, <1>9 DEF Sound, Listed
<1>24. Listed(R, out \cup {x})
  BY <1>19, <1>20, <1>21, <1>22 DEF Listed
<1> QED BY <1>4, <1>13, <1>15, <1>16, <1>17, <1>23, <1>24 DEF Gives, Sound, R, x

Carving(h, t, c, a, off) ==
  [at |-> <<a, off>>,
   heap |-> Tally([h EXCEPT !.header = With(@, <<a, off>>, Stamped(c, 0)),
                            !.areas = @ \cup {a},
                            !.slab[t] = <<a, off + 1 + c>>], t, c, 1)]

\* A block carved at off from an area where everything else is below.
LEMMA CarvedAt ==
  ASSUME HeapAssumption, NEW h, NEW out, Sound(h, out), NEW t \in Threads, NEW c \in 1..NClasses,
         NEW a \in Areas, NEW off \in 0..Slab, off + 1 + c <= Slab,
         \A b \in DOMAIN h.header : b[1] = a => h.header[b].cls # Large /\ EndOf(h, b) < off,
         \A u \in Threads \ {t} : Open(h, u) => h.slab[u][1] # a,
         NEW r, r = Carving(h, t, c, a, off)
  PROVE  Gives(h, out, r, c)
<1> DEFINE R == r.heap
           x == r.at
           g == [h EXCEPT !.header = With(@, <<a, off>>, Stamped(c, 0)), !.areas = @ \cup {a},
                          !.slab[t] = <<a, off + 1 + c>>]
<1>1. x = <<a, off>> /\ R = Tally(g, t, c, 1)
  BY DEF Carving
<1>2. /\ DOMAIN g = Fields /\ g.header = With(h.header, <<a, off>>, Stamped(c, 0))
      /\ g.areas = h.areas \cup {a} /\ g.lists = h.lists
      /\ g.slab = [h.slab EXCEPT ![t] = <<a, off + 1 + c>>]
      /\ g.bytes = h.bytes /\ g.count = h.count
  BY DEF Sound, HeapTypes, Fields
<1> HIDE DEF R, x, g
<1>3. /\ DOMAIN R = Fields /\ R.header = g.header /\ R.areas = g.areas /\ R.lists = g.lists
      /\ R.slab = g.slab /\ R.bytes \in [Threads -> Int] /\ R.count \in [Threads -> Int]
  <2>1. g.bytes \in [Threads -> Int] /\ g.count \in [Threads -> Int] /\ c \in Int
    BY <1>2 DEF Sound, HeapTypes
  <2>2. DOMAIN g = Fields /\ R = Tally(g, t, c, 1)
    BY <1>1, <1>2
  <2> QED BY <2>1, <2>2, TallyIs
<1>4. /\ DOMAIN R.header = DOMAIN h.header \cup {x} /\ R.header[x] = Stamped(c, 0)
      /\ \A b \in DOMAIN h.header : b # x => R.header[b] = h.header[b]
  BY <1>1, <1>2, <1>3 DEF With
<1>5. /\ R.header[x] \in Headers /\ R.header[x].cls = c /\ c # Large
      /\ R.header[x].magic = "Magic" /\ Payload(R.header[x]) = c /\ c \in Nat
  BY <1>4 DEF Stamped, Headers, Large, Payload, HeapAssumption
<1>6. x[1] = a /\ x[2] = off /\ EndOf(R, x) = off + c
  BY <1>1, <1>5 DEF EndOf
<1>7. x \notin DOMAIN h.header
  <2> SUFFICES ASSUME x \in DOMAIN h.header PROVE FALSE
    OBVIOUS
  <2> QED BY <1>6, EndIs DEF Sound
<1>8. \A b \in DOMAIN h.header :
        R.header[b] = h.header[b] /\ EndOf(R, b) = EndOf(h, b) /\ b \in DOMAIN R.header /\ b # x
  BY <1>4, <1>7 DEF EndOf
<1>9. HeapTypes(R)
  <2>1. h.lists \in [Threads -> [1..NClasses -> Seq(DOMAIN R.header)]]
    <3>1. DOMAIN h.header \subseteq DOMAIN R.header
      BY <1>4
    <3>2. h.lists \in [Threads -> [1..NClasses -> Seq(DOMAIN h.header)]]
      BY DEF Sound, HeapTypes
    <3> HIDE DEF Sound
    <3> QED BY <3>1, <3>2, ListsWiden
  <2>2. DOMAIN R.header \subseteq Addresses
    BY <1>1, <1>4 DEF Sound, HeapTypes, Addresses, HeapAssumption
  <2>3. R.slab \in [Threads -> (Areas \cup {0}) \X (0..Slab)]
    <3>1. off + 1 + c \in 0..Slab /\ <<a, off + 1 + c>> \in (Areas \cup {0}) \X (0..Slab)
      BY <1>5 DEF HeapAssumption
    <3> QED BY <1>2, <1>3, <3>1 DEF Sound, HeapTypes
  <2>4. \A b \in DOMAIN R.header : R.header[b] \in Headers
    BY <1>4, <1>5, <1>8 DEF Sound, HeapTypes
  <2>5. R.areas \subseteq Areas
    BY <1>2, <1>3 DEF Sound, HeapTypes
  <2> QED BY <1>2, <1>3, <2>1, <2>2, <2>3, <2>4, <2>5 DEF Sound, HeapTypes
<1>10. Laid(R)
  <2>1. \A b \in DOMAIN R.header : b[1] \in R.areas
    BY <1>2, <1>3, <1>4, <1>6 DEF Sound, Laid
  <2>2. \A b, d \in DOMAIN h.header : b # d => Beside(R, b, d)
    BY <1>8 DEF Sound, Laid, Beside
  <2>3. \A b \in DOMAIN h.header : Beside(R, b, x) /\ Beside(R, x, b)
    BY <1>5, <1>6, <1>8 DEF Beside
  <2> QED BY <1>4, <2>1, <2>2, <2>3 DEF Laid
<1>11. /\ R.slab[t][1] = a /\ R.slab[t][2] = off + 1 + c
       /\ \A u \in Threads \ {t} : R.slab[u] = h.slab[u]
  BY <1>2, <1>3 DEF Sound, HeapTypes
<1>12. Carvable(R)
  <2> SUFFICES ASSUME NEW u \in Threads, Open(R, u)
               PROVE  /\ R.slab[u][1] \in R.areas
                      /\ \A b \in DOMAIN R.header : Below(R, u, b)
                      /\ \A v \in Threads \ {u} : Open(R, v) => R.slab[v][1] # R.slab[u][1]
    BY DEF Carvable
  <2>1. \A v \in Threads \ {t} : Open(R, v) = Open(h, v)
    BY <1>11 DEF Open
  <2>2. CASE u = t
    <3>1. \A b \in DOMAIN h.header : EndOf(h, b) < off => EndOf(h, b) < off + 1 + c
      <4> SUFFICES ASSUME NEW b \in DOMAIN h.header PROVE EndOf(h, b) \in Int
        BY <1>5
      <4> QED BY EndIs DEF Sound
    <3>2. \A b \in DOMAIN R.header : Below(R, u, b)
      BY <1>4, <1>5, <1>6, <1>8, <1>11, <2>2, <3>1 DEF Below
    <3> QED BY <1>2, <1>3, <1>11, <2>1, <2>2, <3>2
  <2>3. CASE u # t
    <3>1. Open(h, u) /\ h.slab[u][1] # a /\ R.slab[u] = h.slab[u]
      BY <1>11, <2>1, <2>3
    <3>2. /\ h.slab[u][1] \in h.areas
          /\ \A b \in DOMAIN h.header : Below(h, u, b)
          /\ \A v \in Threads \ {u} : Open(h, v) => h.slab[v][1] # h.slab[u][1]
      BY <3>1 DEF Sound, Carvable
    <3>3. \A b \in DOMAIN R.header : Below(R, u, b)
      BY <1>4, <1>6, <1>8, <3>1, <3>2 DEF Below
    <3>4. \A v \in Threads \ {u} : Open(R, v) => R.slab[v][1] # R.slab[u][1]
      BY <1>11, <2>1, <3>1, <3>2
    <3> QED BY <1>2, <1>3, <3>1, <3>2, <3>3, <3>4
  <2> QED BY <2>2, <2>3
<1>13. Listed(R, out \cup {x})
  <2>1. R.lists = h.lists /\ \A u, d, i : Entry(R, u, d, i) = Entry(h, u, d, i)
    BY <1>2, <1>3 DEF Entry
  <2>2. OnTheirs(R, out \cup {x})
    <3> SUFFICES ASSUME NEW u \in Threads, NEW d \in 1..NClasses, NEW i \in DOMAIN h.lists[u][d]
                 PROVE  /\ Entry(h, u, d, i) \in DOMAIN R.header \ (out \cup {x})
                        /\ R.header[Entry(h, u, d, i)].cls = d
      BY <2>1 DEF OnTheirs
    <3>1. Entry(h, u, d, i) \in DOMAIN h.header \ out /\ h.header[Entry(h, u, d, i)].cls = d
      BY DEF Sound, Listed, OnTheirs
    <3> QED BY <1>8, <3>1
  <2>3. OnOne(R)
    BY <2>1 DEF Sound, Listed, OnOne
  <2>4. \A b \in DOMAIN R.header \ (out \cup {x}) : ToBeHad(R, b)
    <3> SUFFICES ASSUME NEW b \in DOMAIN h.header \ out PROVE ToBeHad(R, b)
      BY <1>4
    <3>1. R.header[b] = h.header[b] /\ ToBeHad(h, b)
      BY <1>8 DEF Sound, Listed
    <3> QED BY <2>1, <3>1 DEF ToBeHad
  <2>5. \A b \in out \cup {x} : b \in DOMAIN R.header /\ R.header[b].magic = "Magic"
    BY <1>4, <1>5, <1>8 DEF Sound, Listed
  <2> QED BY <2>2, <2>3, <2>4, <2>5 DEF Listed
<1>14. x \notin out /\ \A b \in out : R.header[b] = h.header[b]
  BY <1>7, <1>8 DEF Sound, Listed
<1> QED BY <1>5, <1>9, <1>10, <1>12, <1>13, <1>14 DEF Gives, Sound, R, x

\* A block carved from the thread's slab, or from a new one where it is used up.
LEMMA CarvedGives ==
  ASSUME HeapAssumption, NEW h, NEW out, Sound(h, out), NEW t \in Threads,
         NEW c \in 1..NClasses, NEW r \in Carved(h, t, c)
  PROVE  Gives(h, out, r, c)
<1>1. h.slab[t] \in (Areas \cup {0}) \X (0..Slab) /\ c \in Nat /\ Slab \in Nat
  BY DEF Sound, HeapTypes, HeapAssumption
<1>2. CASE h.slab[t][2] + 1 + c <= Slab
  <2>1. r = Carving(h, t, c, h.slab[t][1], h.slab[t][2])
    BY <1>2 DEF Carved, Carving
  <2>2. Open(h, t) /\ h.slab[t][2] \in 0..Slab
    BY <1>1, <1>2 DEF Open
  <2>3. /\ h.slab[t][1] \in Areas
        /\ \A b \in DOMAIN h.header : Below(h, t, b)
        /\ \A u \in Threads \ {t} : Open(h, u) => h.slab[u][1] # h.slab[t][1]
    BY <2>2 DEF Sound, Carvable, HeapTypes
  <2>4. \A b \in DOMAIN h.header :
          b[1] = h.slab[t][1] => h.header[b].cls # Large /\ EndOf(h, b) < h.slab[t][2]
    BY <2>3 DEF Below
  <2> QED BY <1>2, <2>1, <2>2, <2>3, <2>4, CarvedAt
<1>3. CASE ~(h.slab[t][2] + 1 + c <= Slab)
  <2>1. PICK a \in Areas \ h.areas : r = Carving(h, t, c, a, 0)
    BY <1>3 DEF Carved, Carving
  <2>2. \A b \in DOMAIN h.header : b[1] # a
    BY DEF Sound, Laid
  <2>3. \A u \in Threads : Open(h, u) => h.slab[u][1] # a
    BY DEF Sound, Carvable
  <2>4. 0 \in 0..Slab /\ 0 + 1 + c <= Slab
    BY <1>1 DEF HeapAssumption
  <2> QED BY <2>1, <2>2, <2>3, <2>4, CarvedAt
<1> QED BY <1>2, <1>3

\* malloc gives a block as large as was asked for, beside all others, and
\* touches none of those that are out.
LEMMA MallocGives ==
  ASSUME HeapAssumption, NEW h, NEW out, Sound(h, out), NEW t \in Threads,
         NEW size \in Sizes, NEW r \in Malloc(h, t, size)
  PROVE  Gives(h, out, r, size)
<1>1. size \in Nat \ {0}
  BY DEF HeapAssumption
<1>2. CASE size <= NClasses
  <2>1. ClassOf(size) = size /\ size \in 1..NClasses /\ size # Large
    BY <1>1, <1>2 DEF ClassOf, Large, HeapAssumption
  <2>2. IF h.lists[t][size] # << >> THEN r \in Reused(h, t, size) ELSE r \in Carved(h, t, size)
    BY <2>1 DEF Malloc
  <2> QED BY <2>1, <2>2, ReusedGives, CarvedGives
<1>3. CASE ~(size <= NClasses)
  <2>1. ClassOf(size) = Large
    BY <1>3 DEF ClassOf
  <2>2. r \in LargeBlock(h, t, size)
    BY <2>1 DEF Malloc
  <2> QED BY <1>1, <2>2, LargeBlockGives
<1> QED BY <1>2, <1>3

\* A Large block goes back to the system.
LEMMA GoneKeeps ==
  ASSUME HeapAssumption, NEW h, NEW out, Sound(h, out), NEW a \in out, h.header[a].cls = Large
  PROVE  /\ Sound(Gone(h, a), out \ {a}) /\ Gone(h, a).areas = h.areas \ {a[1]}
         /\ \A b \in out \ {a} : Gone(h, a).header[b] = h.header[b]
<1> DEFINE R == Gone(h, a)
<1>1. /\ DOMAIN R = Fields
      /\ R.header = But(h.header, a)
      /\ R.areas = h.areas \ {a[1]} /\ R.lists = h.lists /\ R.slab = h.slab
      /\ R.bytes \in [Threads -> Int] /\ R.count \in [Threads -> Int]
  BY DEF Gone, Sound, HeapTypes, Fields
<1> HIDE DEF R
<1>2. /\ DOMAIN R.header = DOMAIN h.header \ {a}
      /\ \A b \in DOMAIN h.header \ {a} : R.header[b] = h.header[b]
  BY <1>1 DEF But
<1>3. a \in DOMAIN h.header
  BY DEF Sound, Listed
<1>4. \A b \in DOMAIN R.header : b[1] # a[1]
  BY <1>2, <1>3 DEF Sound, Laid, Beside
<1>5. \A b \in DOMAIN R.header :
        /\ b \in DOMAIN h.header /\ b # a
        /\ R.header[b] = h.header[b] /\ EndOf(R, b) = EndOf(h, b)
  BY <1>2 DEF EndOf
<1>6. \A u, d, i : Entry(R, u, d, i) = Entry(h, u, d, i)
  BY <1>1 DEF Entry
<1>7. \A u \in Threads, d \in 1..NClasses : \A i \in DOMAIN h.lists[u][d] :
        /\ Entry(h, u, d, i) \in DOMAIN R.header \ (out \ {a})
        /\ R.header[Entry(h, u, d, i)].cls = d
  <2> SUFFICES ASSUME NEW u \in Threads, NEW d \in 1..NClasses, NEW i \in DOMAIN h.lists[u][d]
               PROVE  /\ Entry(h, u, d, i) \in DOMAIN R.header \ (out \ {a})
                      /\ R.header[Entry(h, u, d, i)].cls = d
    OBVIOUS
  <2>1. Entry(h, u, d, i) \in DOMAIN h.header \ out /\ h.header[Entry(h, u, d, i)].cls = d
    BY DEF Sound, Listed, OnTheirs
  <2> QED BY <1>2, <2>1
<1>8. HeapTypes(R)
  <2>1. R.lists \in [Threads -> [1..NClasses -> Seq(DOMAIN R.header)]]
    <3>1. h.lists \in [Threads -> [1..NClasses -> Seq(DOMAIN h.header)]]
      BY DEF Sound, HeapTypes
    <3>2. \A u \in Threads, d \in 1..NClasses : \A i \in DOMAIN h.lists[u][d] :
            h.lists[u][d][i] \in DOMAIN R.header
      BY <1>7 DEF Entry
    <3> HIDE DEF Sound
    <3>3. h.lists \in [Threads -> [1..NClasses -> Seq(DOMAIN R.header)]]
      BY <3>1, <3>2, ListsNarrow
    <3> QED BY <1>1, <3>3
  <2> QED BY <1>1, <1>2, <1>5, <2>1 DEF Sound, HeapTypes
<1>9. Laid(R)
  BY <1>1, <1>4, <1>5 DEF Sound, Laid, Beside
<1>10. Carvable(R)
  <2> SUFFICES ASSUME NEW u \in Threads, Open(h, u)
               PROVE  /\ h.slab[u][1] \in R.areas
                      /\ \A b \in DOMAIN R.header : Below(R, u, b)
                      /\ \A v \in Threads \ {u} : Open(h, v) => h.slab[v][1] # h.slab[u][1]
    BY <1>1 DEF Carvable, Open
  <2>1. /\ h.slab[u][1] \in h.areas
        /\ \A b \in DOMAIN h.header : Below(h, u, b)
        /\ \A v \in Threads \ {u} : Open(h, v) => h.slab[v][1] # h.slab[u][1]
    BY DEF Sound, Carvable
  <2>2. h.slab[u][1] # a[1]
    BY <1>3, <2>1 DEF Below
  <2>3. \A b \in DOMAIN R.header : Below(R, u, b)
    BY <1>1, <1>5, <2>1 DEF Below
  <2> QED BY <1>1, <2>1, <2>2, <2>3
<1>11. OnTheirs(R, out \ {a})
  BY <1>1, <1>6, <1>7 DEF OnTheirs
<1>12. OnOne(R)
  BY <1>1, <1>6 DEF Sound, Listed, OnOne
<1>13. ASSUME NEW b \in DOMAIN R.header \ (out \ {a}) PROVE ToBeHad(R, b)
  <2>1. b \in DOMAIN h.header \ out /\ R.header[b] = h.header[b] /\ ToBeHad(h, b)
    BY <1>5 DEF Sound, Listed
  <2> QED BY <1>1, <1>6, <2>1 DEF ToBeHad
<1>14. \A b \in out \ {a} : b \in DOMAIN R.header /\ R.header[b].magic = "Magic"
  BY <1>2 DEF Sound, Listed
<1>15. \A b \in out \ {a} : R.header[b] = h.header[b]
  BY <1>2 DEF Sound, Listed
<1> QED BY <1>1, <1>8, <1>9, <1>10, <1>11, <1>12, <1>13, <1>14, <1>15 DEF Listed, Sound, R

\* A block of a class goes to the front of the list of who frees it.
LEMMA ListedAgain ==
  ASSUME HeapAssumption, NEW h, NEW out, Sound(h, out), NEW a \in out, NEW t \in Threads,
         h.header[a].cls # Large
  PROVE  /\ Sound(Free(h, t, a), out \ {a})
         /\ \A b \in out \ {a} : Free(h, t, a).header[b] = h.header[b]
<1> DEFINE c == h.header[a].cls
           L == h.lists[t][c]
           M == <<a>> \o L
           R == [h EXCEPT !.header[a].magic = "Freed", !.lists[t][c] = M]
<1>1. a \in DOMAIN h.header /\ h.header[a] \in Headers
  BY DEF Sound, Listed, HeapTypes
<1>2. c \in 1..NClasses /\ c \in Nat
  BY <1>1 DEF Headers, Large, HeapAssumption
<1>3. Free(h, t, a) = Tally(R, t, -c, -1)
  BY DEF Free
<1>4. /\ DOMAIN R = Fields /\ R.areas = h.areas /\ R.slab = h.slab
      /\ R.bytes \in [Threads -> Int] /\ R.count \in [Threads -> Int]
  BY DEF Sound, HeapTypes, Fields
<1>5. R.header = [h.header EXCEPT ![a].magic = "Freed"]
  BY DEF Sound, HeapTypes, Fields
<1>6. R.lists = [h.lists EXCEPT ![t] = [h.lists[t] EXCEPT ![c] = M]]
  BY DEF Sound, HeapTypes, Fields
<1> HIDE DEF R, M, L, c
<1>7. L \in Seq(DOMAIN h.header) /\ Len(L) \in Nat /\ DOMAIN L = 1..Len(L)
  <2>1. L \in Seq(DOMAIN h.header)
    BY <1>2 DEF Sound, HeapTypes, L
  <2> QED BY <2>1, LenProperties
<1>8. /\ M \in Seq(DOMAIN h.header) /\ DOMAIN M = 1..(Len(L) + 1)
      /\ M[1] = a /\ \A i \in 2..(Len(L) + 1) : M[i] = L[i - 1]
  <2> DEFINE S == DOMAIN h.header
  <2>1. a \in S /\ L \in Seq(S)
    BY <1>1, <1>7
  <2> HIDE DEF S
  <2>2. /\ <<a>> \o L \in Seq(S) /\ DOMAIN (<<a>> \o L) = 1..(Len(L) + 1)
        /\ (<<a>> \o L)[1] = a /\ \A i \in 2..(Len(L) + 1) : (<<a>> \o L)[i] = L[i - 1]
    BY <2>1, FrontIs
  <2> QED BY <2>2 DEF M, S
<1>9. /\ DOMAIN R.header = DOMAIN h.header
      /\ R.header[a] = [h.header[a] EXCEPT !.magic = "Freed"]
      /\ \A b \in DOMAIN h.header : b # a => R.header[b] = h.header[b]
  BY <1>1, <1>5
<1>10. /\ R.lists[t][c] = M
       /\ \A u \in Threads, d \in 1..NClasses : u # t \/ d # c => R.lists[u][d] = h.lists[u][d]
       /\ DOMAIN R.lists = Threads /\ \A u \in Threads : DOMAIN R.lists[u] = 1..NClasses
  <2>1. h.lists \in [Threads -> [1..NClasses -> Seq(DOMAIN h.header)]]
    BY DEF Sound, HeapTypes
  <2> QED BY <1>2, <1>6, <2>1, ZenonT(60)
<1>11. /\ R.header[a] \in Headers /\ R.header[a].cls = c /\ R.header[a].magic = "Freed"
       /\ Payload(R.header[a]) = Payload(h.header[a])
  BY <1>1, <1>9 DEF Headers, Payload, c
<1>12. \A b \in DOMAIN h.header : EndOf(R, b) = EndOf(h, b) /\ R.header[b].cls = h.header[b].cls
  BY <1>9, <1>11 DEF EndOf, c
<1>13. HeapTypes(R)
  <2>1. \A b \in DOMAIN R.header : R.header[b] \in Headers
    BY <1>9, <1>11 DEF Sound, HeapTypes
  <2>2. R.lists \in [Threads -> [1..NClasses -> Seq(DOMAIN R.header)]]
    <3>1. h.lists \in [Threads -> [1..NClasses -> Seq(DOMAIN h.header)]]
      BY DEF Sound, HeapTypes
    <3>2. R.lists = [u \in Threads |-> [d \in 1..NClasses |-> R.lists[u][d]]]
      BY <1>6, <3>1
    <3>3. \A u \in Threads, d \in 1..NClasses : R.lists[u][d] \in Seq(DOMAIN R.header)
      <4> SUFFICES ASSUME NEW u \in Threads, NEW d \in 1..NClasses
                   PROVE  R.lists[u][d] \in Seq(DOMAIN h.header)
        BY <1>9
      <4>1. CASE u = t /\ d = c
        BY <1>8, <1>10, <4>1
      <4>2. CASE ~(u = t /\ d = c)
        <5>1. R.lists[u][d] = h.lists[u][d] /\ h.lists[u] \in [1..NClasses -> Seq(DOMAIN h.header)]
          BY <1>10, <3>1, <4>2
        <5> QED BY <5>1
      <4> QED BY <4>1, <4>2
    <3> QED BY <3>2, <3>3
  <2> QED BY <1>4, <1>9, <2>1, <2>2 DEF Sound, HeapTypes
<1>14. Laid(R)
  <2>1. \A b, d \in DOMAIN h.header : Beside(h, b, d) => Beside(R, b, d)
    BY <1>12 DEF Beside
  <2> QED BY <1>4, <1>9, <2>1 DEF Sound, Laid
<1>15. Carvable(R)
  <2>1. \A u, b : b \in DOMAIN h.header /\ Below(h, u, b) => Below(R, u, b)
    BY <1>4, <1>12 DEF Below
  <2>2. \A u : Open(R, u) = Open(h, u)
    BY <1>4 DEF Open
  <2> QED BY <1>4, <1>9, <2>1, <2>2 DEF Sound, Carvable
<1>16. \A u \in Threads, d \in 1..NClasses : \A i \in DOMAIN R.lists[u][d] :
         \/ u = t /\ d = c /\ i = 1 /\ Entry(R, u, d, i) = a
         \/ \E j \in DOMAIN h.lists[u][d] :
              /\ Entry(R, u, d, i) = Entry(h, u, d, j)
              /\ i = IF u = t /\ d = c THEN j + 1 ELSE j
  <2> SUFFICES ASSUME NEW u \in Threads, NEW d \in 1..NClasses, NEW i \in DOMAIN R.lists[u][d],
                      ~(u = t /\ d = c /\ i = 1 /\ Entry(R, u, d, i) = a)
               PROVE  \E j \in DOMAIN h.lists[u][d] :
                        /\ Entry(R, u, d, i) = Entry(h, u, d, j)
                        /\ i = IF u = t /\ d = c THEN j + 1 ELSE j
    OBVIOUS
  <2>1. CASE u = t /\ d = c
    <3>1. i \in 1..(Len(L) + 1) /\ i # 1 /\ R.lists[u][d] = M
      BY <1>8, <1>10, <2>1 DEF Entry
    <3>2. i - 1 \in 1..Len(L) /\ i \in 2..(Len(L) + 1) /\ i = (i - 1) + 1
      BY <1>7, <3>1
    <3>3. h.lists[u][d] = L
      BY <2>1 DEF L
    <3> QED BY <1>7, <1>8, <2>1, <3>1, <3>2, <3>3 DEF Entry
  <2>2. CASE ~(u = t /\ d = c)
    BY <1>10, <2>2 DEF Entry
  <2> QED BY <2>1, <2>2
<1>17. OnTheirs(R, out \ {a})
  <2> SUFFICES ASSUME NEW u \in Threads, NEW d \in 1..NClasses, NEW i \in DOMAIN R.lists[u][d]
               PROVE  /\ Entry(R, u, d, i) \in DOMAIN R.header \ (out \ {a})
                      /\ R.header[Entry(R, u, d, i)].cls = d
    BY DEF OnTheirs
  <2>1. CASE u = t /\ d = c /\ i = 1 /\ Entry(R, u, d, i) = a
    BY <1>1, <1>9, <1>11, <2>1
  <2>2. CASE \E j \in DOMAIN h.lists[u][d] :
               /\ Entry(R, u, d, i) = Entry(h, u, d, j)
               /\ i = IF u = t /\ d = c THEN j + 1 ELSE j
    <3>1. PICK j \in DOMAIN h.lists[u][d] : Entry(R, u, d, i) = Entry(h, u, d, j)
      BY <2>2
    <3>2. Entry(h, u, d, j) \in DOMAIN h.header \ out /\ h.header[Entry(h, u, d, j)].cls = d
      BY DEF Sound, Listed, OnTheirs
    <3> QED BY <1>9, <1>12, <3>1, <3>2
  <2> QED BY <1>16, <2>1, <2>2
<1>18. OnOne(R)
  <2> SUFFICES ASSUME NEW u \in Threads, NEW v \in Threads, NEW d \in 1..NClasses,
                      NEW i \in DOMAIN R.lists[u][d], NEW j \in DOMAIN R.lists[v][d],
                      Entry(R, u, d, i) = Entry(R, v, d, j)
               PROVE  u = v /\ i = j
    BY DEF OnOne
  <2>1. \A w \in Threads : \A k \in DOMAIN h.lists[w][d] : Entry(h, w, d, k) # a
    BY DEF Sound, Listed, OnTheirs
  <2>2. CASE Entry(R, u, d, i) = a
    <3>1. u = t /\ d = c /\ i = 1
      BY <1>16, <2>1, <2>2
    <3>2. v = t /\ j = 1
      <4>1. Entry(R, v, d, j) = a
        BY <2>2
      <4> QED BY <1>16, <2>1, <4>1
    <3> QED BY <3>1, <3>2
  <2>3. CASE Entry(R, u, d, i) # a
    <3>1. PICK k \in DOMAIN h.lists[u][d] :
            /\ Entry(R, u, d, i) = Entry(h, u, d, k)
            /\ i = IF u = t /\ d = c THEN k + 1 ELSE k
      BY <1>16, <2>3
    <3>2. PICK l \in DOMAIN h.lists[v][d] :
            /\ Entry(R, v, d, j) = Entry(h, v, d, l)
            /\ j = IF v = t /\ d = c THEN l + 1 ELSE l
      BY <1>16, <2>3
    <3>3. u = v /\ k = l
      <4>1. Entry(h, u, d, k) = Entry(h, v, d, l)
        BY <3>1, <3>2
      <4> QED BY <4>1 DEF Sound, Listed, OnOne
    <3> QED BY <3>1, <3>2, <3>3
  <2> QED BY <2>2, <2>3
<1>19. ASSUME NEW b \in DOMAIN R.header \ (out \ {a}) PROVE ToBeHad(R, b)
  <2>1. CASE b = a
    <3>1. R.header[a].magic = "Freed" /\ R.header[a].cls = c
      BY <1>11
    <3>2. 1 \in DOMAIN R.lists[t][c] /\ Entry(R, t, c, 1) = a
      BY <1>7, <1>8, <1>10 DEF Entry
    <3> QED BY <1>2, <2>1, <3>1, <3>2 DEF ToBeHad
  <2>2. CASE b # a
    <3>1. b \in DOMAIN h.header \ out /\ R.header[b] = h.header[b] /\ ToBeHad(h, b)
      BY <1>9, <2>2 DEF Sound, Listed
    <3> DEFINE d == h.header[b].cls
    <3>2. PICK u \in Threads : \E i \in DOMAIN h.lists[u][d] : Entry(h, u, d, i) = b
      BY <3>1 DEF ToBeHad
    <3>3. PICK i \in DOMAIN h.lists[u][d] : Entry(h, u, d, i) = b
      BY <3>2
    <3>4. d \in 1..NClasses /\ R.header[b].magic = "Freed" /\ R.header[b].cls = d
      BY <3>1 DEF ToBeHad
    <3> HIDE DEF d
    <3>5. \E j \in DOMAIN R.lists[u][d] : Entry(R, u, d, j) = b
      <4>1. CASE u = t /\ d = c
        <5>1. i \in 1..Len(L) /\ L[i] = b
          BY <1>7, <3>3, <4>1 DEF Entry, L
        <5>2. i + 1 \in 2..(Len(L) + 1) /\ (i + 1) - 1 = i
          BY <1>7, <5>1
        <5>3. i + 1 \in DOMAIN M /\ M[i + 1] = b
          BY <1>7, <1>8, <5>1, <5>2
        <5> QED BY <1>10, <4>1, <5>3 DEF Entry
      <4>2. CASE ~(u = t /\ d = c)
        BY <1>10, <3>3, <3>4, <4>2 DEF Entry
      <4> QED BY <4>1, <4>2
    <3> QED BY <3>4, <3>5 DEF ToBeHad
  <2> QED BY <2>1, <2>2
<1>20. \A b \in out \ {a} : b \in DOMAIN R.header /\ R.header[b] = h.header[b] /\ R.header[b].magic = "Magic"
  BY <1>9 DEF Sound, Listed
<1>21. Sound(R, out \ {a})
  BY <1>13, <1>14, <1>15, <1>17, <1>18, <1>19, <1>20 DEF Listed, Sound
<1>22. -c \in Int /\ -1 \in Int
  BY <1>2
<1>23. Sound(Tally(R, t, -c, -1), out \ {a}) /\ Tally(R, t, -c, -1).header = R.header
  BY <1>21, <1>22, TallyKeeps
<1> QED BY <1>3, <1>20, <1>23

\* free takes the block, and touches none of the others.
LEMMA FreeKeeps ==
  ASSUME HeapAssumption, NEW h, NEW out, Sound(h, out), NEW a \in out, NEW t \in Threads
  PROVE  /\ Sound(Free(h, t, a), out \ {a})
         /\ \A b \in out \ {a} : Free(h, t, a).header[b] = h.header[b]
<1>1. CASE h.header[a].cls = Large
  <2>1. Free(h, t, a) = Tally(Gone(h, a), t, -h.header[a].pad, -1)
    BY <1>1 DEF Free, Gone
  <2>2. h.header[a] \in Headers
    BY DEF Sound, Listed, HeapTypes
  <2>3. -h.header[a].pad \in Int /\ -1 \in Int
    BY <2>2 DEF Headers
  <2>4. /\ Sound(Gone(h, a), out \ {a})
        /\ \A b \in out \ {a} : Gone(h, a).header[b] = h.header[b]
    BY <1>1, GoneKeeps
  <2>5. /\ Sound(Tally(Gone(h, a), t, -h.header[a].pad, -1), out \ {a})
        /\ Tally(Gone(h, a), t, -h.header[a].pad, -1).header = Gone(h, a).header
    BY <2>3, <2>4, TallyKeeps
  <2> QED BY <2>1, <2>4, <2>5
<1>2. CASE h.header[a].cls # Large
  BY <1>2, ListedAgain
<1> QED BY <1>1, <1>2
-----------------------------------------------------------------------------
(* What the program and the caches hold of it.                             *)

BlocksFit ==
  \A a \in DOMAIN blocks :
    /\ blocks[a] \in [size : Sizes, as : {"plain", "region", "cached"}]
    /\ blocks[a].size <= Payload(heap.header[a])

IsCached(bs, a) == a \in DOMAIN bs /\ bs[a].as = "cached"

CachedOnce(bs, kept) ==
  /\ kept \in [Threads -> Seq([block : Addresses, total : Sizes])]
  /\ \A t \in Threads : Len(kept[t]) <= CacheSlots
  /\ \A t \in Threads : \A i \in DOMAIN kept[t] :
       IsCached(bs, kept[t][i].block) /\ bs[kept[t][i].block].size = kept[t][i].total
  /\ \A t, u \in Threads : \A i \in DOMAIN kept[t], j \in DOMAIN kept[u] :
       kept[t][i].block = kept[u][j].block => t = u /\ i = j
  /\ \A a : IsCached(bs, a) => \E t \in Threads : \E i \in DOMAIN kept[t] : kept[t][i].block = a

HeapInv == /\ Sound(heap, DOMAIN blocks) /\ BlocksFit /\ CachedOnce(blocks, cache)
           /\ resized \in BOOLEAN

\* Nothing is out at the beginning.
LEMMA HeapStarts == HeapAssumption /\ HeapInit => HeapInv
<1> SUFFICES ASSUME HeapAssumption, HeapInit PROVE HeapInv
  OBVIOUS
<1>1. /\ DOMAIN heap = Fields /\ DOMAIN heap.header = {} /\ heap.areas = {}
      /\ heap.lists = [t \in Threads |-> [c \in 1..NClasses |-> << >>]]
      /\ heap.slab = [t \in Threads |-> <<0, Slab>>]
      /\ heap.bytes = [t \in Threads |-> 0] /\ heap.count = [t \in Threads |-> 0]
      /\ DOMAIN blocks = {} /\ cache = [t \in Threads |-> << >>] /\ resized = FALSE
  BY DEF HeapInit, Fields
<1>2. \A S : << >> \in Seq(S) /\ DOMAIN << >> = {} /\ Len(<< >>) = 0
  BY EmptySeq
<1>3. HeapTypes(heap)
  <2>1. heap.lists \in [Threads -> [1..NClasses -> Seq(DOMAIN heap.header)]]
    BY <1>1, <1>2
  <2>2. <<0, Slab>> \in (Areas \cup {0}) \X (0..Slab)
    BY DEF HeapAssumption
  <2> QED BY <1>1, <2>1, <2>2 DEF HeapTypes
<1>4. Laid(heap)
  BY <1>1 DEF Laid
<1>5. Carvable(heap)
  <2>1. \A t \in Threads : ~Open(heap, t)
    BY <1>1 DEF Open, HeapAssumption
  <2> QED BY <2>1 DEF Carvable
<1>6. Listed(heap, DOMAIN blocks)
  <2>1. \A t \in Threads, c \in 1..NClasses : DOMAIN heap.lists[t][c] = {}
    BY <1>1, <1>2
  <2> QED BY <1>1, <2>1 DEF Listed, OnTheirs, OnOne
<1>7. CachedOnce(blocks, cache)
  <2>1. \A t \in Threads : cache[t] = << >>
    BY <1>1
  <2> QED BY <1>1, <1>2, <2>1 DEF CachedOnce, IsCached, HeapAssumption
<1> QED BY <1>1, <1>3, <1>4, <1>5, <1>6, <1>7 DEF HeapInv, Sound, BlocksFit

\* What is noted of a block that goes out.
LEMMA OutIs ==
  ASSUME NEW size \in Sizes, NEW as \in {"plain", "region", "cached"}
  PROVE  /\ Out(size, as) \in [size : Sizes, as : {"plain", "region", "cached"}]
         /\ Out(size, as).size = size /\ Out(size, as).as = as
BY DEF Out

\* What is not cached comes and goes, and the caches do not mind.
LEMMA CachesStay ==
  ASSUME NEW bs, NEW bz, NEW kept, CachedOnce(bs, kept),
         \A a : IsCached(bs, a) => a \in DOMAIN bz /\ bz[a] = bs[a],
         \A a : IsCached(bz, a) => IsCached(bs, a)
  PROVE  CachedOnce(bz, kept)
<1>1. \A a : IsCached(bs, a) => IsCached(bz, a) /\ bz[a].size = bs[a].size
  BY DEF IsCached
<1> QED BY <1>1, ZenonT(60) DEF CachedOnce

\* A block malloc gives goes out beside all others.
LEMMA AllocationKeeps ==
  ASSUME HeapAssumption, HeapInv, NEW t \in Threads, NEW size \in Sizes, NEW as \in {"plain", "region"},
         NEW r \in Malloc(heap, t, size), heap' = r.heap,
         blocks' = With(blocks, r.at, Out(size, as)), cache' = cache, resized' = resized
  PROVE  HeapInv'
<1> DEFINE x == r.at
           o == Out(size, as)
<1>1. Gives(heap, DOMAIN blocks, r, size)
  BY MallocGives DEF HeapInv
<1>2. /\ DOMAIN blocks' = DOMAIN blocks \cup {x} /\ blocks'[x] = o
      /\ \A a \in DOMAIN blocks : a # x => blocks'[a] = blocks[a]
  BY DEF With
<1>3. o \in [size : Sizes, as : {"plain", "region", "cached"}] /\ o.size = size /\ o.as # "cached"
  BY OutIs
<1>4. /\ x \notin DOMAIN blocks /\ Sound(heap', DOMAIN blocks \cup {x})
      /\ size <= Payload(heap'.header[x])
      /\ \A a \in DOMAIN blocks : heap'.header[a] = heap.header[a]
  BY <1>1 DEF Gives
<1> HIDE DEF x, o
<1>5. BlocksFit'
  <2>1. BlocksFit
    BY DEF HeapInv
  <2> QED BY <1>2, <1>3, <1>4, <2>1, ZenonT(60) DEF BlocksFit
<1>6. CachedOnce(blocks', cache')
  <2>1. \A a : IsCached(blocks, a) => a \in DOMAIN blocks' /\ blocks'[a] = blocks[a]
    BY <1>2, <1>4 DEF IsCached
  <2>2. \A a : IsCached(blocks', a) => IsCached(blocks, a)
    BY <1>2, <1>3 DEF IsCached
  <2>3. CachedOnce(blocks, cache)
    BY DEF HeapInv
  <2> QED BY <2>1, <2>2, <2>3, CachesStay
<1> QED BY <1>2, <1>4, <1>5, <1>6 DEF HeapInv

\* A block that is not in a cache is freed.
LEMMA ReleaseKeeps ==
  ASSUME HeapAssumption, HeapInv, NEW t \in Threads, NEW a \in DOMAIN blocks, blocks[a].as # "cached"
  PROVE  heap' = Free(heap, t, a) /\ blocks' = But(blocks, a) /\ UNCHANGED <<cache, resized>> => HeapInv'
<1>a. /\ Sound(Free(heap, t, a), DOMAIN blocks \ {a})
      /\ \A b \in DOMAIN blocks \ {a} : Free(heap, t, a).header[b] = heap.header[b]
  <2>1. PICK h, out : h = heap /\ out = DOMAIN blocks
    OBVIOUS
  <2>2. Sound(h, out) /\ a \in out
    BY <2>1 DEF HeapInv
  <2>3. /\ Sound(Free(h, t, a), out \ {a})
        /\ \A b \in out \ {a} : Free(h, t, a).header[b] = h.header[b]
    BY <2>2, FreeKeeps
  <2> QED BY <2>1, <2>3
<1> SUFFICES ASSUME heap' = Free(heap, t, a), blocks' = But(blocks, a), UNCHANGED <<cache, resized>>
             PROVE  HeapInv'
  OBVIOUS
<1>1. /\ Sound(heap', DOMAIN blocks \ {a})
      /\ \A b \in DOMAIN blocks \ {a} : heap'.header[b] = heap.header[b]
  BY <1>a
<1>2. /\ DOMAIN blocks' = DOMAIN blocks \ {a}
      /\ \A b \in DOMAIN blocks \ {a} : blocks'[b] = blocks[b]
  BY DEF But
<1>3. BlocksFit'
  BY <1>1, <1>2 DEF HeapInv, BlocksFit
<1>4. CachedOnce(blocks', cache')
  <2>1. \A b : IsCached(blocks, b) => b \in DOMAIN blocks' /\ blocks'[b] = blocks[b]
    BY <1>2 DEF IsCached
  <2>2. \A b : IsCached(blocks', b) => IsCached(blocks, b)
    BY <1>2 DEF IsCached
  <2> QED BY <2>1, <2>2, CachesStay DEF HeapInv
<1> QED BY <1>1, <1>2, <1>3, <1>4 DEF HeapInv

\* A Large block that realloc leaves at b.
Moved(a, b, size) ==
  LET out == DOMAIN blocks \ {a}
      x == <<b, 0>>
  IN  /\ x \notin out /\ Sound(heap', out \cup {x}) /\ size <= Payload(heap'.header[x])
      /\ \A d \in out : heap'.header[d] = heap.header[d]
      /\ heap'.header[x] = Stamped(Large, size)
      /\ heap'.bytes = heap.bytes /\ heap'.count = heap.count
      /\ DOMAIN blocks' = out \cup {x} /\ blocks'[x] = Out(size, "plain")
      /\ \A d \in out : blocks'[d] = blocks[d]

\* realloc of a Large block, which may stay where it is or move,
LEMMA LargeMoves ==
  ASSUME HeapAssumption, HeapInv, NEW t \in Threads, NEW a \in DOMAIN blocks, NEW size \in Sizes,
         ReallocLarge(t, a, size)
  PROVE  \E b : Moved(a, b, size)
<1>1. blocks[a].as = "plain" /\ heap.header[a].cls = Large
  BY DEF ReallocLarge
<1>2. PICK b \in (Areas \ heap.areas) \cup {a[1]} :
        /\ heap' = [heap EXCEPT !.header = With(But(@, a), <<b, 0>>, Stamped(Large, size)),
                                !.areas = (@ \ {a[1]}) \cup {b}]
        /\ blocks' = With(But(blocks, a), <<b, 0>>, Out(size, "plain"))
  BY DEF ReallocLarge
<1> DEFINE out == DOMAIN blocks \ {a}
           g == Gone(heap, a)
           x == <<b, 0>>
<1>3. Sound(g, out) /\ g.areas = heap.areas \ {a[1]} /\ \A d \in out : g.header[d] = heap.header[d]
  BY <1>1, GoneKeeps DEF HeapInv
<1>4. a[1] \in Areas
  BY DEF HeapInv, Sound, HeapTypes, Addresses, Listed
<1>5. b \in Areas \ g.areas /\ size \in Nat
  BY <1>3, <1>4 DEF HeapAssumption
<1>6. Gives(g, out, [at |-> x, heap |-> Put(g, b, size)], size)
  <2> HIDE DEF g, out
  <2> QED BY <1>3, <1>5, PutGives
<1>7. DOMAIN heap = Fields
  BY DEF HeapInv, Sound, HeapTypes
<1>8. heap' = Put(g, b, size)
  BY <1>2, <1>7 DEF Put, Gone, Fields
<1>9. /\ x \notin out /\ Sound(heap', out \cup {x}) /\ size <= Payload(heap'.header[x])
      /\ \A d \in out : heap'.header[d] = heap.header[d]
  BY <1>3, <1>6, <1>8 DEF Gives
<1>10. /\ DOMAIN blocks' = out \cup {x} /\ blocks'[x] = Out(size, "plain")
       /\ \A d \in out : blocks'[d] = blocks[d]
  BY <1>2, <1>9 DEF With, But
<1>11. /\ heap'.bytes = heap.bytes /\ heap'.count = heap.count
       /\ heap'.header = With(But(heap.header, a), x, Stamped(Large, size))
  BY <1>2, <1>7 DEF Fields
<1>12. heap'.header[x] = Stamped(Large, size)
  <2> HIDE DEF x
  <2> QED BY <1>11 DEF With
<1> QED BY <1>9, <1>10, <1>11, <1>12 DEF Moved

\* keeps the invariant.
LEMMA ReallocLargeKeeps ==
  ASSUME HeapAssumption, HeapInv, NEW t \in Threads, NEW a \in DOMAIN blocks, NEW size \in Sizes,
         ReallocLarge(t, a, size)
  PROVE  HeapInv'
<1>1. blocks[a].as = "plain" /\ cache' = cache /\ resized' \in BOOLEAN
  BY DEF ReallocLarge
<1>2. PICK b : Moved(a, b, size)
  BY LargeMoves
<1> DEFINE out == DOMAIN blocks \ {a}
           x == <<b, 0>>
<1>8. /\ x \notin out /\ Sound(heap', out \cup {x}) /\ size <= Payload(heap'.header[x])
      /\ \A d \in out : heap'.header[d] = heap.header[d]
  BY <1>2 DEF Moved
<1>9. /\ DOMAIN blocks' = out \cup {x} /\ blocks'[x] = Out(size, "plain")
      /\ \A d \in out : blocks'[d] = blocks[d]
  BY <1>2 DEF Moved
<1>10. BlocksFit'
  <2>1. blocks'[x] \in [size : Sizes, as : {"plain", "region", "cached"}] /\ blocks'[x].size = size
    BY <1>9 DEF Out
  <2> HIDE DEF x
  <2> QED BY <1>8, <1>9, <2>1 DEF HeapInv, BlocksFit
<1>11. CachedOnce(blocks', cache')
  <2>1. \A d : IsCached(blocks, d) => d \in DOMAIN blocks' /\ blocks'[d] = blocks[d]
    BY <1>1, <1>9 DEF IsCached
  <2>2. \A d : IsCached(blocks', d) => IsCached(blocks, d)
    BY <1>9 DEF IsCached, Out
  <2> QED BY <1>1, <2>1, <2>2, CachesStay DEF HeapInv
<1> QED BY <1>1, <1>8, <1>9, <1>10, <1>11 DEF HeapInv

\* realloc: a block large enough stays, another goes over to a new one.
LEMMA ReallocKeeps ==
  ASSUME HeapAssumption, HeapInv, NEW t \in Threads, NEW a \in DOMAIN blocks, NEW size \in Sizes,
         Realloc(t, a, size)
  PROVE  HeapInv'
<1> DEFINE cls == heap.header[a].cls
<1>1. blocks[a].as = "plain" /\ cls # Large /\ cache' = cache /\ resized' = resized
  BY DEF Realloc
<1>2. CASE size <= cls /\ blocks' = [blocks EXCEPT ![a].size = size] /\ UNCHANGED heap
  <2>1. /\ DOMAIN blocks' = DOMAIN blocks
        /\ blocks'[a] = [blocks[a] EXCEPT !.size = size]
        /\ \A b \in DOMAIN blocks : b # a => blocks'[b] = blocks[b]
    BY <1>2
  <2>2. /\ blocks'[a] \in [size : Sizes, as : {"plain", "region", "cached"}]
        /\ blocks'[a].size = size /\ blocks'[a].as = "plain"
    BY <1>1, <2>1 DEF HeapInv, BlocksFit
  <2>3. size <= Payload(heap.header[a])
    BY <1>1, <1>2 DEF Payload
  <2>4. BlocksFit'
    BY <1>2, <2>1, <2>2, <2>3 DEF HeapInv, BlocksFit
  <2>5. \A b : IsCached(blocks, b) => b \in DOMAIN blocks' /\ blocks'[b] = blocks[b]
    BY <1>1, <2>1 DEF IsCached
  <2>6. \A b : IsCached(blocks', b) => IsCached(blocks, b)
    BY <2>1, <2>2 DEF IsCached
  <2>7. CachedOnce(blocks', cache')
    BY <1>1, <2>5, <2>6, CachesStay DEF HeapInv
  <2> QED BY <1>1, <1>2, <2>1, <2>4, <2>7 DEF HeapInv
<1>3. CASE \E r \in Malloc(heap, t, size) :
             /\ heap' = Free(r.heap, t, a)
             /\ blocks' = With(But(blocks, a), r.at, Out(size, "plain"))
  <2>1. PICK r \in Malloc(heap, t, size) :
          /\ heap' = Free(r.heap, t, a)
          /\ blocks' = With(But(blocks, a), r.at, Out(size, "plain"))
    BY <1>3
  <2>2. Gives(heap, DOMAIN blocks, r, size)
    BY MallocGives DEF HeapInv
  <2> DEFINE all == DOMAIN blocks \cup {r.at}
  <2>3. /\ r.at \notin DOMAIN blocks /\ Sound(r.heap, all) /\ a \in all
        /\ size <= Payload(r.heap.header[r.at])
        /\ \A b \in DOMAIN blocks : r.heap.header[b] = heap.header[b]
    BY <2>2 DEF Gives
  <2>4. /\ Sound(heap', all \ {a})
        /\ \A b \in all \ {a} : heap'.header[b] = r.heap.header[b]
    <3> HIDE DEF all
    <3> QED BY <2>1, <2>3, FreeKeeps
  <2>5. /\ DOMAIN blocks' = all \ {a} /\ blocks'[r.at] = Out(size, "plain")
        /\ \A b \in DOMAIN blocks \ {a} : blocks'[b] = blocks[b]
    BY <2>1, <2>3 DEF With, But
  <2>6. blocks'[r.at] \in [size : Sizes, as : {"plain", "region", "cached"}] /\ blocks'[r.at].size = size
    BY <2>5 DEF Out
  <2>7. BlocksFit'
    BY <2>3, <2>4, <2>5, <2>6 DEF HeapInv, BlocksFit
  <2>8. \A b : IsCached(blocks, b) => b \in DOMAIN blocks' /\ blocks'[b] = blocks[b]
    BY <1>1, <2>5 DEF IsCached
  <2>9. \A b : IsCached(blocks', b) => IsCached(blocks, b)
    BY <2>5 DEF IsCached, Out
  <2>10. CachedOnce(blocks', cache')
    BY <1>1, <2>8, <2>9, CachesStay DEF HeapInv
  <2> QED BY <1>1, <2>4, <2>5, <2>7, <2>10 DEF HeapInv
<1> QED BY <1>2, <1>3 DEF Realloc

\* One is taken out, and the last fills its place.
LEMMA LastFills ==
  ASSUME NEW S, NEW s \in Seq(S), NEW i \in 1..Len(s)
  PROVE  LET q == SubSeq([s EXCEPT ![i] = s[Len(s)]], 1, Len(s) - 1)
         IN  /\ q \in Seq(S) /\ Len(q) = Len(s) - 1 /\ DOMAIN q = 1..(Len(s) - 1)
             /\ \A j \in 1..(Len(s) - 1) : q[j] = IF j = i THEN s[Len(s)] ELSE s[j]
<1> DEFINE f == [s EXCEPT ![i] = s[Len(s)]]
           n == Len(s)
           q == SubSeq(f, 1, n - 1)
<1>1. n \in Nat /\ DOMAIN s = 1..n /\ n \in 1..n /\ \A j \in 1..n : s[j] \in S
  BY LenProperties, ElementOfSeq
<1>2. DOMAIN f = 1..n /\ \A j \in 1..n : f[j] \in S /\ f[j] = IF j = i THEN s[n] ELSE s[j]
  BY <1>1
<1>3. f \in [1..n -> S]
  BY <1>2
<1> HIDE DEF f
<1>4. f \in Seq(S)
  BY <1>1, <1>3, SeqDef
<1>5. Len(f) = n
  BY <1>1, <1>2, <1>4, LenProperties
<1>6. q \in Seq(S) /\ Len(q) = n - 1 /\ \A j \in 1..(n - 1) : q[j] = f[1 + j - 1]
  <2>1. 1 \in 1..(Len(f) + 1) /\ n - 1 \in 0..Len(f) /\ 1 <= n
    BY <1>1, <1>5
  <2> HIDE DEF n
  <2> QED BY <1>4, <2>1, <1>1, SubSeqProperties
<1>7. DOMAIN q = 1..(n - 1)
  BY <1>6, LenProperties
<1> HIDE DEF n, q
<1>8. \A j \in 1..(n - 1) : q[j] = IF j = i THEN s[n] ELSE s[j]
  <2> SUFFICES ASSUME NEW j \in 1..(n - 1) PROVE q[j] = IF j = i THEN s[n] ELSE s[j]
    OBVIOUS
  <2>1. j \in 1..n /\ (1 + j) - 1 = j
    BY <1>1
  <2> QED BY <1>2, <1>6, <2>1
<1> QED BY <1>6, <1>7, <1>8 DEF f, n, q

\* A region block leaves the cache of its thread and is out again, once.
LEMMA AcquireCachedKeeps ==
  ASSUME HeapAssumption, HeapInv, NEW t \in Threads, NEW size \in Sizes, AcquireCached(t, size)
  PROVE  HeapInv'
<1>1. PICK i \in Cached(t, size) :
        /\ cache' = [cache EXCEPT ![t] = SubSeq([cache[t] EXCEPT ![i] = cache[t][Len(cache[t])]],
                                               1, Len(cache[t]) - 1)]
        /\ blocks' = [blocks EXCEPT ![cache[t][i].block] = Out(size, "region")]
        /\ UNCHANGED <<heap, resized>>
  BY DEF AcquireCached
<1> DEFINE s == cache[t]
           q == cache'[t]
           a == s[i].block
           S == [block : Addresses, total : Sizes]
<1>2. CachedOnce(blocks, cache)
  BY DEF HeapInv
<1>3. /\ cache \in [Threads -> Seq(S)] /\ Len(s) <= CacheSlots
      /\ s \in Seq(S) /\ Len(s) \in Nat /\ DOMAIN s = 1..Len(s)
  <2>1. cache \in [Threads -> Seq(S)] /\ Len(s) <= CacheSlots
    BY <1>2 DEF CachedOnce
  <2> HIDE DEF S
  <2> QED BY <2>1, LenProperties
<1>4. i \in 1..Len(s) /\ s[i].total = size
  BY <1>1, <1>3 DEF Cached
<1>5. /\ q \in Seq(S) /\ Len(q) = Len(s) - 1 /\ DOMAIN q = 1..(Len(s) - 1)
      /\ \A j \in 1..(Len(s) - 1) : q[j] = IF j = i THEN s[Len(s)] ELSE s[j]
  <2>1. q = SubSeq([s EXCEPT ![i] = s[Len(s)]], 1, Len(s) - 1)
    BY <1>1, <1>3
  <2> HIDE DEF q, s, S
  <2> QED BY <1>3, <1>4, <2>1, LastFills
<1>6. IsCached(blocks, a) /\ blocks[a].size = size
  BY <1>2, <1>3, <1>4 DEF CachedOnce
<1>7. /\ cache' \in [Threads -> Seq(S)]
      /\ \A u \in Threads \ {t} : cache'[u] = cache[u]
  <2>1. cache' = [cache EXCEPT ![t] = q]
    BY <1>1, <1>3
  <2> HIDE DEF q, S
  <2> QED BY <1>3, <1>5, <2>1
<1>8. /\ DOMAIN blocks' = DOMAIN blocks /\ blocks'[a] = Out(size, "region")
      /\ \A b \in DOMAIN blocks : b # a => blocks'[b] = blocks[b]
  BY <1>1, <1>6 DEF IsCached
<1>9. /\ blocks'[a] \in [size : Sizes, as : {"plain", "region", "cached"}]
      /\ blocks'[a].size = size /\ blocks'[a].as # "cached"
  BY <1>8, OutIs
<1>10. BlocksFit'
  <2>1. BlocksFit /\ heap' = heap
    BY <1>1 DEF HeapInv
  <2> HIDE DEF a
  <2> QED BY <1>6, <1>8, <1>9, <2>1 DEF BlocksFit
<1>11. \A b : IsCached(blocks', b) <=> IsCached(blocks, b) /\ b # a
  BY <1>8, <1>9 DEF IsCached
\* Where an entry was.
<1> DEFINE Was(u, j) == IF u = t /\ j = i THEN Len(s) ELSE j
<1>12. \A u \in Threads : \A j \in DOMAIN cache'[u] :
         /\ Was(u, j) \in DOMAIN cache[u] /\ cache'[u][j] = cache[u][Was(u, j)]
         /\ ~(u = t /\ Was(u, j) = i)
  <2> SUFFICES ASSUME NEW u \in Threads, NEW j \in DOMAIN cache'[u]
               PROVE  /\ Was(u, j) \in DOMAIN cache[u] /\ cache'[u][j] = cache[u][Was(u, j)]
                      /\ ~(u = t /\ Was(u, j) = i)
    OBVIOUS
  <2>1. CASE u = t
    <3>1. j \in 1..(Len(s) - 1)
      BY <1>5, <2>1
    <3>2. j \in 1..Len(s) /\ Len(s) \in 1..Len(s) /\ j # Len(s)
      <4> HIDE DEF s
      <4> QED BY <1>3, <3>1
    <3> QED BY <1>3, <1>5, <2>1, <3>1, <3>2
  <2>2. CASE u # t
    BY <1>7, <2>2
  <2> QED BY <2>1, <2>2
<1>13. \A u \in Threads : \A k \in DOMAIN cache[u] :
         ~(u = t /\ k = i) => \E j \in DOMAIN cache'[u] : cache'[u][j] = cache[u][k]
  <2> SUFFICES ASSUME NEW u \in Threads, NEW k \in DOMAIN cache[u], ~(u = t /\ k = i)
               PROVE  \E j \in DOMAIN cache'[u] : cache'[u][j] = cache[u][k]
    OBVIOUS
  <2>1. CASE u = t /\ k = Len(s)
    <3>1. i \in 1..(Len(s) - 1)
      <4>1. i # Len(s)
        BY <2>1
      <4>2. Len(s) \in Nat /\ i \in 1..Len(s)
        BY <1>3, <1>4
      <4> HIDE DEF s
      <4> QED BY <4>1, <4>2
    <3> QED BY <1>5, <2>1, <3>1
  <2>2. CASE u = t /\ k # Len(s)
    <3>1. k \in 1..(Len(s) - 1)
      BY <1>3, <2>2
    <3> QED BY <1>5, <2>2, <3>1
  <2>3. CASE u # t
    BY <1>7, <2>3
  <2> QED BY <2>1, <2>2, <2>3
<1> HIDE DEF s, q, a, S
<1>14. \A u \in Threads : Len(cache'[u]) <= CacheSlots
  <2>1. Len(cache'[t]) = Len(s) - 1 /\ CacheSlots \in Nat
    BY <1>5 DEF q, HeapAssumption
  <2>2. Len(s) - 1 <= CacheSlots
    <3>1. Len(s) \in Nat /\ Len(s) <= CacheSlots /\ CacheSlots \in Nat
      BY <1>3, <2>1
    <3> QED BY <3>1
  <2>3. \A u \in Threads : Len(cache[u]) <= CacheSlots
    BY <1>2 DEF CachedOnce
  <2> QED BY <1>7, <2>1, <2>2, <2>3
<1>15. ASSUME NEW u \in Threads, NEW j \in DOMAIN cache'[u]
       PROVE  /\ IsCached(blocks', cache'[u][j].block)
              /\ blocks'[cache'[u][j].block].size = cache'[u][j].total
  <2>1. /\ Was(u, j) \in DOMAIN cache[u] /\ cache'[u][j] = cache[u][Was(u, j)]
        /\ ~(u = t /\ Was(u, j) = i)
    BY <1>12
  <2> DEFINE k == Was(u, j)
  <2> HIDE DEF k
  <2>2. IsCached(blocks, cache[u][k].block) /\ blocks[cache[u][k].block].size = cache[u][k].total
    BY <1>2, <2>1 DEF CachedOnce, k
  <2>3. cache[u][k].block # a
    <3>1. k \in DOMAIN cache[u] /\ ~(u = t /\ k = i)
      BY <2>1 DEF k
    <3>2. i \in DOMAIN cache[t] /\ a = cache[t][i].block
      BY <1>3, <1>4 DEF s, a
    <3> QED BY <1>2, <3>1, <3>2 DEF CachedOnce
  <2>4. blocks'[cache[u][k].block] = blocks[cache[u][k].block]
    BY <1>8, <2>2, <2>3 DEF IsCached
  <2> QED BY <1>11, <2>1, <2>2, <2>3, <2>4 DEF k
<1>16. ASSUME NEW u \in Threads, NEW v \in Threads, NEW j \in DOMAIN cache'[u], NEW k \in DOMAIN cache'[v],
              cache'[u][j].block = cache'[v][k].block
       PROVE  u = v /\ j = k
  <2>1. u = v /\ Was(u, j) = Was(v, k)
    <3>1. /\ Was(u, j) \in DOMAIN cache[u] /\ cache'[u][j] = cache[u][Was(u, j)]
          /\ Was(v, k) \in DOMAIN cache[v] /\ cache'[v][k] = cache[v][Was(v, k)]
      BY <1>12
    <3> HIDE DEF Was
    <3> QED BY <1>2, <1>16, <3>1 DEF CachedOnce
  <2>2. CASE u = t
    <3>1. j \in 1..(Len(s) - 1) /\ k \in 1..(Len(s) - 1)
      BY <1>5, <2>1, <2>2 DEF q
    <3>2. j # Len(s) /\ k # Len(s)
      BY <1>3, <3>1
    <3> QED BY <2>1, <2>2, <3>2
  <2>3. CASE u # t
    BY <2>1, <2>3
  <2> QED BY <2>2, <2>3
<1>17. ASSUME NEW b, IsCached(blocks', b)
       PROVE  \E u \in Threads : \E j \in DOMAIN cache'[u] : cache'[u][j].block = b
  <2>1. IsCached(blocks, b) /\ b # a
    BY <1>11, <1>17
  <2>2. PICK u \in Threads : \E k \in DOMAIN cache[u] : cache[u][k].block = b
    BY <1>2, <2>1 DEF CachedOnce
  <2>3. PICK k \in DOMAIN cache[u] : cache[u][k].block = b
    BY <2>2
  <2>4. ~(u = t /\ k = i)
    BY <2>1, <2>3 DEF a, s
  <2>5. \E j \in DOMAIN cache'[u] : cache'[u][j] = cache[u][k]
    BY <1>13, <2>4
  <2> QED BY <2>3, <2>5
<1>18. CachedOnce(blocks', cache')
  BY <1>7, <1>14, <1>15, <1>16, <1>17 DEF CachedOnce, S
<1> QED BY <1>1, <1>8, <1>10, <1>18 DEF HeapInv

\* A region block comes into the cache of who releases it, where there is room.
LEMMA ReleaseCachedKeeps ==
  ASSUME HeapAssumption, HeapInv, NEW t \in Threads, NEW a \in DOMAIN blocks, ReleaseCached(t, a)
  PROVE  HeapInv'
<1> DEFINE s == cache[t]
           e == [block |-> a, total |-> blocks[a].size]
           S == [block : Addresses, total : Sizes]
<1>1. /\ blocks[a].as = "region" /\ Len(s) < CacheSlots
      /\ cache' = [cache EXCEPT ![t] = Append(s, e)]
      /\ blocks' = [blocks EXCEPT ![a].as = "cached"]
      /\ heap' = heap /\ resized' = resized
  BY DEF ReleaseCached
<1>2. CachedOnce(blocks, cache) /\ BlocksFit /\ Sound(heap, DOMAIN blocks)
  BY DEF HeapInv
<1>3. cache \in [Threads -> Seq(S)] /\ s \in Seq(S) /\ Len(s) \in Nat /\ DOMAIN s = 1..Len(s)
  <2>1. cache \in [Threads -> Seq(S)]
    BY <1>2 DEF CachedOnce
  <2> HIDE DEF S
  <2> QED BY <2>1, LenProperties
<1>4. e \in S /\ e.block = a /\ e.total = blocks[a].size
  BY <1>2 DEF BlocksFit, Sound, Listed, HeapTypes
<1>5. /\ DOMAIN blocks' = DOMAIN blocks
      /\ blocks'[a] = [blocks[a] EXCEPT !.as = "cached"]
      /\ \A b \in DOMAIN blocks : b # a => blocks'[b] = blocks[b]
  BY <1>1
<1>6. /\ blocks'[a] \in [size : Sizes, as : {"plain", "region", "cached"}]
      /\ blocks'[a].size = blocks[a].size /\ blocks'[a].as = "cached"
  BY <1>2, <1>5 DEF BlocksFit
<1>7. BlocksFit'
  BY <1>1, <1>2, <1>5, <1>6 DEF BlocksFit
<1>8. \A b : IsCached(blocks', b) <=> IsCached(blocks, b) \/ b = a
  BY <1>5, <1>6 DEF IsCached
<1>9. ~IsCached(blocks, a)
  BY <1>1 DEF IsCached
<1> HIDE DEF s, e, S
<1>10. /\ Append(s, e) \in Seq(S) /\ Len(Append(s, e)) = Len(s) + 1
       /\ \A j \in 1..Len(s) : Append(s, e)[j] = s[j]
       /\ Append(s, e)[Len(s) + 1] = e
  BY <1>3, <1>4, AppendProperties
<1>11. DOMAIN Append(s, e) = 1..(Len(s) + 1)
  BY <1>10, LenProperties
<1>12. /\ cache' \in [Threads -> Seq(S)] /\ cache'[t] = Append(s, e)
       /\ \A u \in Threads \ {t} : cache'[u] = cache[u]
  BY <1>1, <1>3, <1>10
<1>13. \A u \in Threads : Len(cache'[u]) <= CacheSlots
  <2>1. Len(Append(s, e)) <= CacheSlots
    BY <1>1, <1>3, <1>10 DEF HeapAssumption
  <2> QED BY <1>2, <1>12, <2>1 DEF CachedOnce
<1>14. \A u \in Threads : \A j \in DOMAIN cache'[u] :
         \/ u = t /\ j = Len(s) + 1 /\ cache'[u][j] = e
         \/ j \in DOMAIN cache[u] /\ cache'[u][j] = cache[u][j]
  <2> SUFFICES ASSUME NEW u \in Threads, NEW j \in DOMAIN cache'[u]
               PROVE  \/ u = t /\ j = Len(s) + 1 /\ cache'[u][j] = e
                      \/ j \in DOMAIN cache[u] /\ cache'[u][j] = cache[u][j]
    OBVIOUS
  <2>1. CASE u = t
    <3>1. j \in 1..(Len(s) + 1)
      BY <1>11, <1>12, <2>1
    <3>2. j = Len(s) + 1 \/ j \in 1..Len(s)
      BY <1>3, <3>1
    <3> QED BY <1>3, <1>10, <1>12, <2>1, <3>2 DEF s
  <2>2. CASE u # t
    BY <1>12, <2>2
  <2> QED BY <2>1, <2>2
<1>15. \A u \in Threads : \A j \in DOMAIN cache[u] :
         j \in DOMAIN cache'[u] /\ cache'[u][j] = cache[u][j]
  <2> SUFFICES ASSUME NEW u \in Threads, NEW j \in DOMAIN cache[u]
               PROVE  j \in DOMAIN cache'[u] /\ cache'[u][j] = cache[u][j]
    OBVIOUS
  <2>1. CASE u = t
    <3>1. j \in 1..Len(s) /\ j \in 1..(Len(s) + 1)
      BY <1>3, <2>1 DEF s
    <3> QED BY <1>10, <1>11, <1>12, <2>1, <3>1 DEF s
  <2>2. CASE u # t
    BY <1>12, <2>2
  <2> QED BY <2>1, <2>2
<1>16. ASSUME NEW u \in Threads, NEW j \in DOMAIN cache[u]
       PROVE  /\ IsCached(blocks, cache[u][j].block)
              /\ blocks[cache[u][j].block].size = cache[u][j].total
              /\ cache[u][j].block # a
              /\ blocks'[cache[u][j].block] = blocks[cache[u][j].block]
  <2>1. /\ IsCached(blocks, cache[u][j].block)
        /\ blocks[cache[u][j].block].size = cache[u][j].total
    BY <1>2 DEF CachedOnce
  <2>2. cache[u][j].block # a
    BY <1>9, <2>1
  <2> QED BY <1>5, <2>1, <2>2 DEF IsCached
<1>17. ASSUME NEW u \in Threads, NEW j \in DOMAIN cache'[u]
       PROVE  /\ IsCached(blocks', cache'[u][j].block)
              /\ blocks'[cache'[u][j].block].size = cache'[u][j].total
  BY <1>4, <1>6, <1>8, <1>14, <1>16
<1>18. ASSUME NEW u \in Threads, NEW v \in Threads, NEW j \in DOMAIN cache'[u], NEW k \in DOMAIN cache'[v],
              cache'[u][j].block = cache'[v][k].block
       PROVE  u = v /\ j = k
  <2>1. CASE cache'[u][j].block = a
    <3>1. u = t /\ j = Len(s) + 1
      BY <1>14, <1>16, <2>1
    <3>2. v = t /\ k = Len(s) + 1
      <4>1. cache'[v][k].block = a
        BY <1>18, <2>1
      <4> QED BY <1>14, <1>16, <4>1
    <3> QED BY <3>1, <3>2
  <2>2. CASE cache'[u][j].block # a
    <3>1. j \in DOMAIN cache[u] /\ cache'[u][j] = cache[u][j]
      BY <1>4, <1>14, <2>2
    <3>2. k \in DOMAIN cache[v] /\ cache'[v][k] = cache[v][k]
      BY <1>4, <1>14, <1>18, <2>2
    <3> QED BY <1>2, <1>18, <3>1, <3>2 DEF CachedOnce
  <2> QED BY <2>1, <2>2
<1>19. ASSUME NEW b, IsCached(blocks', b)
       PROVE  \E u \in Threads : \E j \in DOMAIN cache'[u] : cache'[u][j].block = b
  <2>1. CASE b = a
    <3>1. Len(s) + 1 \in DOMAIN cache'[t] /\ cache'[t][Len(s) + 1].block = a
      BY <1>3, <1>4, <1>10, <1>11, <1>12
    <3> QED BY <2>1, <3>1
  <2>2. CASE b # a
    <3>1. IsCached(blocks, b)
      BY <1>8, <1>19, <2>2
    <3>2. PICK u \in Threads : \E j \in DOMAIN cache[u] : cache[u][j].block = b
      BY <1>2, <3>1 DEF CachedOnce
    <3> QED BY <1>15, <3>2
  <2> QED BY <2>1, <2>2
<1>20. CachedOnce(blocks', cache')
  BY <1>12, <1>13, <1>17, <1>18, <1>19 DEF CachedOnce, S
<1> QED BY <1>1, <1>2, <1>5, <1>7, <1>20 DEF HeapInv

\* Every step of the heap and of the caches.
LEMMA HeapStepKeeps ==
  ASSUME HeapAssumption, HeapInv, [HeapNext]_heapVars
  PROVE  HeapInv'
<1>1. ASSUME NEW t \in Threads, NEW size \in Sizes, New(t, size) PROVE HeapInv'
  BY <1>1, AllocationKeeps DEF New
<1>2. ASSUME NEW t \in Threads, NEW size \in Sizes, AcquireNew(t, size) PROVE HeapInv'
  BY <1>2, AllocationKeeps DEF AcquireNew
<1>3. ASSUME NEW t \in Threads, NEW a \in DOMAIN blocks, Delete(t, a) PROVE HeapInv'
  BY <1>3, ReleaseKeeps DEF Delete
<1>4. ASSUME NEW t \in Threads, NEW a \in DOMAIN blocks, ReleaseFreed(t, a) PROVE HeapInv'
  BY <1>4, ReleaseKeeps DEF ReleaseFreed
<1>5. CASE HeapNext
  BY <1>1, <1>2, <1>3, <1>4, <1>5, AcquireCachedKeeps, ReleaseCachedKeeps, ReallocLargeKeeps, ReallocKeeps
     DEF HeapNext
<1>6. CASE UNCHANGED heapVars
  <2>1. heap' = heap /\ blocks' = blocks /\ cache' = cache /\ resized' = resized
    BY <1>6 DEF heapVars
  <2> QED BY <2>1 DEF HeapInv, BlocksFit
<1> QED BY <1>5, <1>6

\* What the invariant says of the blocks that are out.
LEMMA HeapInvHolds ==
  ASSUME HeapAssumption, HeapInv
  PROVE  HeapTypeOK /\ BlocksApart
<1>1. Sound(heap, DOMAIN blocks) /\ BlocksFit /\ CachedOnce(blocks, cache)
  BY DEF HeapInv
<1>2. HeapTypes(heap) /\ Laid(heap) /\ Listed(heap, DOMAIN blocks)
  BY <1>1 DEF Sound
<1>3. HeapTypeOK
  <2>1. DOMAIN blocks \subseteq DOMAIN heap.header
    BY <1>2 DEF Listed
  <2>2. \A t \in Threads : Len(cache[t]) <= CacheSlots
    BY <1>1 DEF CachedOnce
  <2>3. \A a \in DOMAIN blocks : blocks[a] \in [size : Sizes, as : {"plain", "region", "cached"}]
    BY <1>1 DEF BlocksFit
  <2>4. resized \in BOOLEAN
    BY DEF HeapInv
  <2> QED BY <1>2, <2>1, <2>2, <2>3, <2>4 DEF HeapTypeOK, HeapTypes, Addresses
<1>4. ASSUME NEW a \in DOMAIN heap.header, NEW b \in DOMAIN heap.header, a # b
      PROVE  Extent(a) \cap Extent(b) = {}
  <2> SUFFICES ASSUME NEW x \in Extent(a), x \in Extent(b) PROVE FALSE
    OBVIOUS
  <2>1. PICK g \in a[2]..EndOf(heap, a) : x = <<a[1], g>>
    BY DEF Extent, EndOf
  <2>2. PICK k \in b[2]..EndOf(heap, b) : x = <<b[1], k>>
    BY DEF Extent, EndOf
  <2>3. a[1] = b[1] /\ g = k
    BY <2>1, <2>2
  <2>4. EndOf(heap, a) < b[2] \/ EndOf(heap, b) < a[2]
    BY <1>2, <1>4, <2>3 DEF Laid, Beside
  <2>5. /\ a[2] \in Nat /\ EndOf(heap, a) \in Nat /\ b[2] \in Nat /\ EndOf(heap, b) \in Nat
    BY <1>2, EndIs
  <2> QED BY <2>3, <2>4, <2>5
<1>5. \A a, p : p \in Spots(a) <=>
        \E t \in Threads, c \in 1..NClasses : \E i \in DOMAIN heap.lists[t][c] :
          p = <<t, c, i>> /\ Entry(heap, t, c, i) = a
  <2> SUFFICES ASSUME NEW a, NEW p
               PROVE  p \in Spots(a) <=>
                        \E t \in Threads, c \in 1..NClasses : \E i \in DOMAIN heap.lists[t][c] :
                          p = <<t, c, i>> /\ Entry(heap, t, c, i) = a
    OBVIOUS
  <2> DEFINE On(t, c) == {<<t, c, i>> : i \in {j \in DOMAIN heap.lists[t][c] : heap.lists[t][c][j] = a}}
  <2>1. p \in Spots(a) <=> \E t \in Threads : \E c \in 1..NClasses : p \in On(t, c)
    <3>1. Spots(a) = UNION {UNION {On(t, c) : c \in 1..NClasses} : t \in Threads}
      BY DEF Spots
    <3> HIDE DEF On
    <3> QED BY <3>1
  <2>2. \A t, c : p \in On(t, c) <=> \E i \in DOMAIN heap.lists[t][c] :
                                       p = <<t, c, i>> /\ Entry(heap, t, c, i) = a
    BY DEF Entry
  <2> HIDE DEF On
  <2> QED BY <2>1, <2>2
<1>6. ASSUME NEW a \in DOMAIN blocks
      PROVE  /\ heap.header[a].magic = "Magic" /\ blocks[a].size <= Payload(heap.header[a])
             /\ Spots(a) = {}
  <2>1. heap.header[a].magic = "Magic" /\ blocks[a].size <= Payload(heap.header[a])
    BY <1>1, <1>2 DEF Listed, BlocksFit
  <2>2. \A p : p \notin Spots(a)
    BY <1>2, <1>5 DEF Listed, OnTheirs
  <2> QED BY <2>1, <2>2
<1>7. ASSUME NEW a \in DOMAIN heap.header \ DOMAIN blocks
      PROVE  /\ heap.header[a].magic = "Freed"
             /\ \E p \in Spots(a) : Spots(a) = {p} /\ p[2] = heap.header[a].cls
  <2> DEFINE d == heap.header[a].cls
  <2>1. ToBeHad(heap, a)
    BY <1>2 DEF Listed
  <2>2. PICK t \in Threads : \E i \in DOMAIN heap.lists[t][d] : Entry(heap, t, d, i) = a
    BY <2>1 DEF ToBeHad
  <2>3. PICK i \in DOMAIN heap.lists[t][d] : Entry(heap, t, d, i) = a
    BY <2>2
  <2>4. d \in 1..NClasses /\ heap.header[a].magic = "Freed"
    BY <2>1 DEF ToBeHad
  <2>5. <<t, d, i>> \in Spots(a)
    <3> HIDE DEF d
    <3> QED BY <1>5, <2>3, <2>4
  <2>6. \A p \in Spots(a) : p = <<t, d, i>>
    <3> SUFFICES ASSUME NEW p \in Spots(a) PROVE p = <<t, d, i>>
      OBVIOUS
    <3>1. PICK u \in Threads, c \in 1..NClasses : \E j \in DOMAIN heap.lists[u][c] :
            p = <<u, c, j>> /\ Entry(heap, u, c, j) = a
      BY <1>5
    <3>2. PICK j \in DOMAIN heap.lists[u][c] : p = <<u, c, j>> /\ Entry(heap, u, c, j) = a
      BY <3>1
    <3>3. c = d
      BY <1>2, <3>2 DEF Listed, OnTheirs
    <3>4. u = t /\ j = i
      <4> HIDE DEF d
      <4> QED BY <1>2, <2>3, <2>4, <3>2, <3>3 DEF Listed, OnOne
    <3> QED BY <3>2, <3>3, <3>4
  <2> HIDE DEF d
  <2>7. Spots(a) = {<<t, d, i>>} /\ <<t, d, i>>[2] = d
    BY <2>5, <2>6
  <2> QED BY <2>4, <2>5, <2>7 DEF d
<1>8. \A a, p : p \in Keepers(a) <=>
        \E t \in Threads : \E i \in DOMAIN cache[t] : p = <<t, i>> /\ cache[t][i].block = a
  BY DEF Keepers
<1>9. ASSUME NEW a \in DOMAIN blocks
      PROVE  /\ IF blocks[a].as = "cached" THEN \E k \in Keepers(a) : Keepers(a) = {k} ELSE Keepers(a) = {}
             /\ \A k \in Keepers(a) : cache[k[1]][k[2]].total = blocks[a].size
  <2>1. ASSUME NEW k \in Keepers(a)
        PROVE  IsCached(blocks, a) /\ cache[k[1]][k[2]].total = blocks[a].size
    <3>1. PICK t \in Threads : \E i \in DOMAIN cache[t] : k = <<t, i>> /\ cache[t][i].block = a
      BY <1>8
    <3>2. PICK i \in DOMAIN cache[t] : k = <<t, i>> /\ cache[t][i].block = a
      BY <3>1
    <3>3. IsCached(blocks, a) /\ blocks[a].size = cache[t][i].total
      BY <1>1, <3>2 DEF CachedOnce
    <3> QED BY <3>2, <3>3
  <2>2. CASE blocks[a].as = "cached"
    <3>1. IsCached(blocks, a)
      BY <2>2 DEF IsCached
    <3>2. PICK t \in Threads : \E i \in DOMAIN cache[t] : cache[t][i].block = a
      BY <1>1, <3>1 DEF CachedOnce
    <3>3. PICK i \in DOMAIN cache[t] : cache[t][i].block = a
      BY <3>2
    <3>4. <<t, i>> \in Keepers(a)
      BY <1>8, <3>3
    <3>5. \A k \in Keepers(a) : k = <<t, i>>
      <4> SUFFICES ASSUME NEW k \in Keepers(a) PROVE k = <<t, i>>
        OBVIOUS
      <4>1. PICK u \in Threads : \E j \in DOMAIN cache[u] : k = <<u, j>> /\ cache[u][j].block = a
        BY <1>8
      <4>2. PICK j \in DOMAIN cache[u] : k = <<u, j>> /\ cache[u][j].block = a
        BY <4>1
      <4>3. u = t /\ j = i
        BY <1>1, <3>3, <4>2 DEF CachedOnce
      <4> QED BY <4>2, <4>3
    <3>6. Keepers(a) = {<<t, i>>}
      BY <3>4, <3>5
    <3> QED BY <2>1, <2>2, <3>4, <3>6
  <2>3. CASE blocks[a].as # "cached"
    <3>1. \A k : k \notin Keepers(a)
      BY <2>1, <2>3 DEF IsCached
    <3> QED BY <2>3, <3>1
  <2> QED BY <2>2, <2>3
<1>10. BlocksApart
  BY <1>4, <1>6, <1>7, <1>9 DEF BlocksApart
<1> QED BY <1>3, <1>10

\* The blocks of the heap are apart and as long as was asked for, and each that
\* was freed is on one list or in one cache, in every execution, for any sizes,
\* threads and bounds.
THEOREM BlocksAreApart ==
  ASSUME HeapAssumption
  PROVE  HeapSpec => [](HeapTypeOK /\ BlocksApart)
<1>1. HeapInit => HeapInv
  BY HeapStarts
<1>2. HeapInv /\ [HeapNext]_heapVars => HeapInv'
  BY HeapStepKeeps
<1>3. HeapInv => HeapTypeOK /\ BlocksApart
  BY HeapInvHolds
<1> QED BY <1>1, <1>2, <1>3, PTL DEF HeapSpec
-----------------------------------------------------------------------------
\* A set of numbers that is not empty has a least one.
LEMMA LeastExists ==
  ASSUME NEW T \in SUBSET Nat, T # {}
  PROVE  \E k \in T : \A j \in T : k <= j
<1>1. IsWellFoundedOn(OpToRel(<, Nat), Nat)
  BY NatLessThanWellFounded
<1>2. PICK k \in T : \A j \in T : ~(<<j, k>> \in OpToRel(<, Nat))
  BY <1>1, WFMin
<1>3. \A j \in T : ~(j < k)
  BY <1>2 DEF OpToRel
<1> QED BY <1>3
-----------------------------------------------------------------------------
(* Sums.  One over a finite set takes its elements one by one, in an order *)
(* of its own; that it is all the same in whatever order is what a         *)
(* counterexample with the fewest elements would contradict.               *)

\* What is taken of a set next.
First(s) == CHOOSE x \in s : TRUE

\* The sums over the parts of a set, each by its first element and the rest.
SumsOf(f, S, g) ==
  g = [s \in SUBSET S |-> IF s = {} THEN 0 ELSE f[First(s)] + g[s \ {First(s)}]]

\* Of the sets of which something does not hold one has the fewest elements.
LEMMA SmallestExists ==
  ASSUME NEW C, C # {}, \A s \in C : IsFiniteSet(s)
  PROVE  \E s \in C : \A r \in C : Cardinality(s) <= Cardinality(r)
<1> DEFINE T == {Cardinality(s) : s \in C}
<1>1. T \in SUBSET Nat /\ T # {}
  BY FS_CardinalityType
<1>2. PICK k \in T : \A j \in T : k <= j
  <2> HIDE DEF T
  <2> QED BY <1>1, LeastExists
<1> QED BY <1>2

\* A set without its first element has one less.
LEMMA FirstIs ==
  ASSUME NEW s, IsFiniteSet(s), s # {}
  PROVE  First(s) \in s
BY DEF First

LEMMA OneLess ==
  ASSUME NEW s, IsFiniteSet(s), NEW x \in s
  PROVE  /\ IsFiniteSet(s \ {x}) /\ Cardinality(s) \in Nat
         /\ Cardinality(s \ {x}) = Cardinality(s) - 1 /\ Cardinality(s \ {x}) < Cardinality(s)
<1>1. IsFiniteSet(s \ {x}) /\ Cardinality(s \ {x}) = Cardinality(s) - 1
  BY FS_RemoveElement
<1>2. Cardinality(s) \in Nat
  BY FS_CardinalityType
<1> QED BY <1>1, <1>2

\* Sums of the parts of up to n elements.
Upto(S, n) == {s \in SUBSET S : Cardinality(s) <= n}
PartSums(f, S, n, g) ==
  /\ g \in [Upto(S, n) -> Int]
  /\ \A s \in Upto(S, n) :
       g[s] = IF s = {} THEN 0 ELSE f[First(s)] + g[s \ {First(s)}]

LEMMA PartSumsGoOn ==
  ASSUME NEW S, IsFiniteSet(S), NEW f, \A x \in S : f[x] \in Int, NEW n \in Nat, NEW g,
         PartSums(f, S, n, g)
  PROVE  \E h : PartSums(f, S, n + 1, h)
<1> DEFINE h == [s \in Upto(S, n + 1) |-> IF s = {} THEN 0 ELSE f[First(s)] + g[s \ {First(s)}]]
<1>1. ASSUME NEW s \in Upto(S, n + 1), s # {}
      PROVE  s \ {First(s)} \in Upto(S, n) /\ First(s) \in S
  <2>1. s \subseteq S /\ IsFiniteSet(s) /\ Cardinality(s) <= n + 1 /\ First(s) \in s
    BY <1>1, FS_Subset, FirstIs DEF Upto
  <2>2. Cardinality(s \ {First(s)}) <= n
    BY <2>1, OneLess
  <2> QED BY <2>1, <2>2 DEF Upto
<1>2. ASSUME NEW s \in Upto(S, n) PROVE s \in Upto(S, n + 1) /\ h[s] = g[s]
  <2>1. s \in Upto(S, n + 1)
    BY FS_Subset, FS_CardinalityType DEF Upto
  <2> QED BY <2>1, <1>2 DEF PartSums
<1>3. ASSUME NEW s \in Upto(S, n + 1)
      PROVE  h[s] \in Int /\ h[s] = IF s = {} THEN 0 ELSE f[First(s)] + h[s \ {First(s)}]
  <2>1. CASE s = {}
    BY <2>1
  <2>2. CASE s # {}
    <3>1. h[s] = f[First(s)] + g[s \ {First(s)}]
      BY <2>2
    <3>2. s \ {First(s)} \in Upto(S, n) /\ First(s) \in S
      BY <1>1, <2>2
    <3>3. g[s \ {First(s)}] \in Int /\ h[s \ {First(s)}] = g[s \ {First(s)}]
      BY <1>2, <3>2 DEF PartSums
    <3> HIDE DEF h
    <3> QED BY <2>2, <3>1, <3>2, <3>3
  <2> QED BY <2>1, <2>2
<1>4. h \in [Upto(S, n + 1) -> Int]
  BY <1>3
<1> HIDE DEF h
<1> QED BY <1>3, <1>4 DEF PartSums

LEMMA PartSumsExist ==
  ASSUME NEW S, IsFiniteSet(S), NEW f, \A x \in S : f[x] \in Int, NEW n \in Nat
  PROVE  \E g : PartSums(f, S, n, g)
<1> DEFINE T == {k \in Nat : ~\E g : PartSums(f, S, k, g)}
<1> SUFFICES ASSUME T # {} PROVE FALSE
  OBVIOUS
<1>1. PICK k \in T : \A j \in T : k <= j
  <2>1. T \in SUBSET Nat
    OBVIOUS
  <2> HIDE DEF T
  <2> QED BY <2>1, LeastExists
<1>2. k # 0
  <2>1. Upto(S, 0) = {{}}
    <3>1. \A s \in SUBSET S : IsFiniteSet(s) /\ Cardinality(s) \in Nat /\ (Cardinality(s) = 0 <=> s = {})
      BY FS_Subset, FS_CardinalityType, FS_EmptySet
    <3> QED BY <3>1, FS_EmptySet DEF Upto
  <2>2. PartSums(f, S, 0, [s \in {{}} |-> 0])
    BY <2>1 DEF PartSums
  <2> QED BY <2>2
<1>3. k - 1 \in Nat /\ k - 1 \notin T /\ (k - 1) + 1 = k
  BY <1>1, <1>2
<1>4. PICK g : PartSums(f, S, k - 1, g)
  BY <1>3
<1>5. \E h : PartSums(f, S, k, h)
  <2> HIDE DEF T
  <2>1. \E h : PartSums(f, S, (k - 1) + 1, h)
    BY <1>3, <1>4, PartSumsGoOn
  <2> QED BY <2>1, <1>3
<1> QED BY <1>5

\* There is such a function,
LEMMA SumsExist ==
  ASSUME NEW S, IsFiniteSet(S), NEW f, \A x \in S : f[x] \in Int
  PROVE  \E g : SumsOf(f, S, g)
<1>1. Cardinality(S) \in Nat
  BY FS_CardinalityType
<1>2. PICK g : PartSums(f, S, Cardinality(S), g)
  BY <1>1, PartSumsExist
<1>3. Upto(S, Cardinality(S)) = SUBSET S
  BY FS_Subset DEF Upto
<1> QED BY <1>2, <1>3 DEF SumsOf, PartSums

\* of integers only,
LEMMA SumsAreInts ==
  ASSUME NEW S, IsFiniteSet(S), NEW f, \A x \in S : f[x] \in Int, NEW g, SumsOf(f, S, g),
         NEW s \in SUBSET S
  PROVE  g[s] \in Int
<1> DEFINE C == {r \in SUBSET S : g[r] \notin Int}
<1> SUFFICES ASSUME C # {} PROVE FALSE
  OBVIOUS
<1>1. PICK r \in C : \A q \in C : Cardinality(r) <= Cardinality(q)
  <2>1. \A q \in C : IsFiniteSet(q)
    BY FS_Subset
  <2> HIDE DEF C
  <2> QED BY <2>1, SmallestExists
<1>2. r # {} /\ IsFiniteSet(r) /\ r \subseteq S
  BY <1>1, FS_Subset DEF SumsOf
<1>3. First(r) \in r /\ g[r] = f[First(r)] + g[r \ {First(r)}]
  BY <1>1, <1>2, FirstIs DEF SumsOf
<1>4. r \ {First(r)} \notin C
  <2> HIDE DEF C
  <2>1. IsFiniteSet(r \ {First(r)}) /\ Cardinality(r \ {First(r)}) < Cardinality(r)
        /\ Cardinality(r) \in Nat
    BY <1>2, <1>3, OneLess
  <2>2. Cardinality(r \ {First(r)}) \in Nat
    BY <2>1, FS_CardinalityType
  <2> QED BY <1>1, <2>1, <2>2
<1> QED BY <1>1, <1>2, <1>3, <1>4

\* in which any element may be the first,
LEMMA AnyOrder ==
  ASSUME NEW S, IsFiniteSet(S), NEW f, \A x \in S : f[x] \in Int, NEW g, SumsOf(f, S, g),
         NEW s \in SUBSET S, NEW x \in s
  PROVE  g[s] = f[x] + g[s \ {x}]
<1> DEFINE C == {r \in SUBSET S : \E y \in r : g[r] # f[y] + g[r \ {y}]}
<1> SUFFICES ASSUME C # {} PROVE FALSE
  OBVIOUS
<1>1. PICK r \in C : \A q \in C : Cardinality(r) <= Cardinality(q)
  <2>1. \A q \in C : IsFiniteSet(q)
    BY FS_Subset
  <2> HIDE DEF C
  <2> QED BY <2>1, SmallestExists
<1>2. PICK y \in r : g[r] # f[y] + g[r \ {y}]
  OBVIOUS
<1> DEFINE z == First(r)
<1>3. IsFiniteSet(r) /\ r \subseteq S /\ z \in r /\ g[r] = f[z] + g[r \ {z}] /\ z # y
  <2>1. IsFiniteSet(r) /\ r \subseteq S
    BY FS_Subset
  <2>2. z \in r
    BY <1>2, <2>1, FirstIs
  <2>3. g[r] = f[z] + g[r \ {z}]
    BY <2>1, <2>2 DEF SumsOf
  <2> QED BY <1>2, <2>1, <2>2, <2>3
<1> HIDE DEF z
<1>4. ASSUME NEW w \in r, NEW v \in r \ {w} PROVE g[r \ {w}] = f[v] + g[(r \ {w}) \ {v}]
  <2>1. IsFiniteSet(r \ {w}) /\ Cardinality(r \ {w}) < Cardinality(r) /\ Cardinality(r) \in Nat
    BY <1>3, OneLess
  <2>2. Cardinality(r \ {w}) \in Nat
    BY <2>1, FS_CardinalityType
  <2>3. r \ {w} \notin C
    <3> HIDE DEF C
    <3> QED BY <1>1, <2>1, <2>2
  <2> QED BY <1>3, <2>3
<1>5. g[r \ {z}] = f[y] + g[(r \ {z}) \ {y}] /\ g[r \ {y}] = f[z] + g[(r \ {y}) \ {z}]
  BY <1>2, <1>3, <1>4
<1>6. (r \ {z}) \ {y} = (r \ {y}) \ {z}
  OBVIOUS
<1>7. f[y] \in Int /\ f[z] \in Int /\ g[(r \ {y}) \ {z}] \in Int
  <2>1. (r \ {y}) \ {z} \in SUBSET S
    BY <1>3
  <2> QED BY <1>2, <1>3, <2>1, SumsAreInts
<1> DEFINE u == g[(r \ {y}) \ {z}]
<1>8. g[r] = f[z] + (f[y] + u) /\ f[y] + g[r \ {y}] = f[y] + (f[z] + u)
  BY <1>3, <1>5, <1>6
<1> QED BY <1>2, <1>7, <1>8

\* and the same for every set and function that agree.
LEMMA SameSums ==
  ASSUME NEW S, IsFiniteSet(S), NEW f, NEW g, SumsOf(f, S, g),
         NEW R \in SUBSET S, NEW e, \A x \in R : e[x] = f[x], NEW h, SumsOf(e, R, h)
  PROVE  h[R] = g[R]
<1> DEFINE C == {r \in SUBSET R : h[r] # g[r]}
<1> SUFFICES ASSUME C # {} PROVE FALSE
  OBVIOUS
<1>1. PICK r \in C : \A q \in C : Cardinality(r) <= Cardinality(q)
  <2>1. \A q \in C : IsFiniteSet(q)
    BY FS_Subset
  <2> HIDE DEF C
  <2> QED BY <2>1, SmallestExists
<1>2. r # {} /\ IsFiniteSet(r) /\ r \subseteq R /\ r \subseteq S
  BY <1>1, FS_Subset DEF SumsOf
<1>3. /\ First(r) \in r /\ g[r] = f[First(r)] + g[r \ {First(r)}]
      /\ h[r] = e[First(r)] + h[r \ {First(r)}]
  BY <1>1, <1>2, FirstIs DEF SumsOf
<1>4. r \ {First(r)} \notin C
  <2> HIDE DEF C
  <2>1. IsFiniteSet(r \ {First(r)}) /\ Cardinality(r \ {First(r)}) < Cardinality(r)
        /\ Cardinality(r) \in Nat
    BY <1>2, <1>3, OneLess
  <2>2. Cardinality(r \ {First(r)}) \in Nat
    BY <2>1, FS_CardinalityType
  <2> QED BY <1>1, <2>1, <2>2
<1> QED BY <1>1, <1>2, <1>3, <1>4

\* The total is one of those sums.
LEMMA TotalIs ==
  ASSUME NEW f, IsFiniteSet(DOMAIN f), \A x \in DOMAIN f : f[x] \in Int
  PROVE  \E g : SumsOf(f, DOMAIN f, g) /\ Total(f) = g[DOMAIN f]
<1> DEFINE g == CHOOSE iter : SumsOf(f, DOMAIN f, iter)
<1>1. SumsOf(f, DOMAIN f, g)
  BY SumsExist
<1>2. Total(f) = g[DOMAIN f]
  BY DEF Total, MapThenSumSet, MapThenFoldSet, SumsOf, First
<1> QED BY <1>1, <1>2

\* A total is any of its terms and the total of the others.
LEMMA TotalOf ==
  ASSUME NEW f, IsFiniteSet(DOMAIN f), \A x \in DOMAIN f : f[x] \in Int
  PROVE  /\ Total(f) \in Int /\ (DOMAIN f = {} => Total(f) = 0)
         /\ \A x \in DOMAIN f : Total(f) = f[x] + Total(But(f, x)) /\ Total(But(f, x)) \in Int
<1>1. PICK g : SumsOf(f, DOMAIN f, g) /\ Total(f) = g[DOMAIN f]
  BY TotalIs
<1>2. Total(f) \in Int /\ (DOMAIN f = {} => Total(f) = 0)
  <2>1. g[DOMAIN f] \in Int
    BY <1>1, SumsAreInts
  <2>2. DOMAIN f = {} => g[DOMAIN f] = 0
    BY <1>1 DEF SumsOf
  <2> QED BY <1>1, <2>1, <2>2
<1>3. ASSUME NEW x \in DOMAIN f PROVE Total(f) = f[x] + Total(But(f, x)) /\ Total(But(f, x)) \in Int
  <2> DEFINE e == But(f, x)
             R == DOMAIN f \ {x}
  <2>1. DOMAIN e = R /\ \A y \in R : e[y] = f[y]
    BY DEF But
  <2>2. R \in SUBSET DOMAIN f /\ IsFiniteSet(R)
    BY FS_Subset
  <2> HIDE DEF e, R
  <2>3. PICK h : SumsOf(e, R, h) /\ Total(e) = h[R]
    BY <2>1, <2>2, TotalIs
  <2>4. Total(e) = g[R]
    BY <1>1, <2>1, <2>2, <2>3, SameSums
  <2>5. g[R] \in Int
    BY <1>1, <2>2, SumsAreInts
  <2>6. g[DOMAIN f] = f[x] + g[R]
    BY <1>1, AnyOrder DEF R
  <2> QED BY <1>1, <2>4, <2>5, <2>6 DEF e
<1> QED BY <1>2, <1>3

Plus(f, x, n) == [f EXCEPT ![x] = @ + n]

\* A term of a function of finitely many grows.
LEMMA TotalPlus ==
  ASSUME NEW S, IsFiniteSet(S), NEW f \in [S -> Int], NEW x \in S, NEW n \in Int
  PROVE  Total(f) \in Int /\ Total(Plus(f, x, n)) = Total(f) + n
<1> DEFINE g == Plus(f, x, n)
<1>1. /\ DOMAIN f = S /\ DOMAIN g = S /\ g[x] = f[x] + n /\ f[x] \in Int
      /\ \A y \in S : f[y] \in Int /\ g[y] \in Int
  BY DEF Plus
<1>2. But(g, x) = But(f, x)
  BY DEF But, Plus
<1> HIDE DEF g
<1>3. Total(f) \in Int /\ Total(f) = f[x] + Total(But(f, x)) /\ Total(But(f, x)) \in Int
  BY <1>1, TotalOf
<1>4. Total(g) = g[x] + Total(But(g, x))
  BY <1>1, TotalOf
<1> QED BY <1>1, <1>2, <1>3, <1>4 DEF g
-----------------------------------------------------------------------------
(* What the counters say.                                                  *)

Payloads(h, out) == [a \in out |-> Payload(h.header[a])]
Counted(h, out) == Total(h.count) = Cardinality(out)
Weighed(h, out) == Total(h.bytes) = Total(Payloads(h, out))

\* One block more is its payload more.
LEMMA OneMoreOut ==
  ASSUME NEW h, NEW g, NEW out, IsFiniteSet(out), NEW x, x \notin out, NEW all, all = out \cup {x},
         \A a \in out : g.header[a] = h.header[a] /\ Payload(h.header[a]) \in Int,
         Payload(g.header[x]) \in Int
  PROVE  /\ Total(Payloads(g, all)) = Total(Payloads(h, out)) + Payload(g.header[x])
         /\ Total(Payloads(h, out)) \in Int
<1> DEFINE f == Payloads(g, all)
<1>1. /\ DOMAIN f = out \cup {x} /\ f[x] = Payload(g.header[x])
      /\ \A y \in DOMAIN f : f[y] \in Int
  BY DEF Payloads
<1>2. But(f, x) = Payloads(h, out)
  BY DEF But, Payloads
<1>3. IsFiniteSet(DOMAIN f) /\ x \in DOMAIN f
  BY <1>1, FS_AddElement
<1> HIDE DEF f
<1>4. Total(f) = f[x] + Total(But(f, x)) /\ Total(But(f, x)) \in Int
  BY <1>1, <1>3, TotalOf
<1> QED BY <1>1, <1>2, <1>4 DEF f

\* What counting does to the counters.
LEMMA TallyCounts ==
  ASSUME NEW h, DOMAIN h = Fields, NEW t \in Threads, NEW bytes, NEW n,
         h.bytes \in [Threads -> Int], h.count \in [Threads -> Int]
  PROVE  /\ Tally(h, t, bytes, n).count = Plus(h.count, t, n)
         /\ Tally(h, t, bytes, n).bytes = Plus(h.bytes, t, bytes)
         /\ Tally(h, t, bytes, n).header = h.header
BY DEF Tally, Fields, Plus

\* malloc counts one block, with its payload.
LEMMA MallocCounts ==
  ASSUME HeapAssumption, NEW h, NEW out, Sound(h, out), NEW t \in Threads,
         NEW size \in Sizes, NEW r \in Malloc(h, t, size)
  PROVE  /\ r.heap.count = Plus(h.count, t, 1)
         /\ r.heap.bytes = Plus(h.bytes, t, Payload(r.heap.header[r.at]))
<1>0. /\ size \in Nat \ {0} /\ NClasses \in Nat
      /\ DOMAIN h = Fields /\ h.bytes \in [Threads -> Int] /\ h.count \in [Threads -> Int]
  BY DEF HeapAssumption, Sound, HeapTypes
<1>1. ASSUME NEW g, DOMAIN g = Fields, g.bytes = h.bytes, g.count = h.count, NEW x, NEW n,
             r = [at |-> x, heap |-> Tally(g, t, n, 1)], Payload(g.header[x]) = n
      PROVE  /\ r.heap.count = Plus(h.count, t, 1)
             /\ r.heap.bytes = Plus(h.bytes, t, Payload(r.heap.header[r.at]))
  <2>1. r.heap = Tally(g, t, n, 1) /\ r.at = x
    BY <1>1
  <2>2. /\ Tally(g, t, n, 1).count = Plus(g.count, t, 1)
        /\ Tally(g, t, n, 1).bytes = Plus(g.bytes, t, n)
        /\ Tally(g, t, n, 1).header = g.header
    BY <1>0, <1>1, TallyCounts
  <2> QED BY <1>1, <2>1, <2>2
<1>2. CASE size <= NClasses /\ h.lists[t][size] # << >>
  <2>1. ClassOf(size) = size /\ size \in 1..NClasses /\ size # Large
    BY <1>0, <1>2 DEF ClassOf, Large
  <2> DEFINE x == Head(h.lists[t][size])
             g == [h EXCEPT !.lists[t][size] = Tail(@), !.header[x].magic = "Magic"]
  <2>2. r = [at |-> x, heap |-> Tally(g, t, size, 1)]
    BY <1>2, <2>1 DEF Malloc, Reused
  <2>3. /\ DOMAIN g = Fields /\ g.bytes = h.bytes /\ g.count = h.count
        /\ g.header = [h.header EXCEPT ![x].magic = "Magic"]
    BY <1>0 DEF Fields
  <2>4. x \in DOMAIN h.header /\ h.header[x].cls = size /\ h.header[x] \in Headers
    <3>1. h.lists[t][size] \in Seq(DOMAIN h.header) /\ h.lists[t][size] # << >>
      BY <1>2, <2>1 DEF Sound, HeapTypes
    <3>2. 1 \in DOMAIN h.lists[t][size] /\ x = h.lists[t][size][1]
      BY <3>1, EmptySeq, LenProperties
    <3> HIDE DEF x
    <3> QED BY <2>1, <3>2 DEF Sound, HeapTypes, Listed, OnTheirs, Entry
  <2>5. Payload(g.header[x]) = size
    <3>1. g.header[x] = [h.header[x] EXCEPT !.magic = "Magic"]
      BY <2>3, <2>4
    <3>2. g.header[x].cls = size
      BY <2>4, <3>1 DEF Headers
    <3> QED BY <2>1, <3>2 DEF Payload
  <2> HIDE DEF g, x
  <2> QED BY <1>1, <2>2, <2>3, <2>5
<1>3. CASE size <= NClasses /\ h.lists[t][size] = << >>
  <2>1. ClassOf(size) = size /\ size # Large
    BY <1>0, <1>3 DEF ClassOf, Large
  <2>2. \E a, off : r = Carving(h, t, size, a, off)
    BY <1>3, <2>1 DEF Malloc, Carved, Carving
  <2>3. PICK a, off : r = Carving(h, t, size, a, off)
    BY <2>2
  <2> DEFINE x == <<a, off>>
             g == [h EXCEPT !.header = With(@, x, Stamped(size, 0)), !.areas = @ \cup {a},
                            !.slab[t] = <<a, off + 1 + size>>]
  <2>4. r = [at |-> x, heap |-> Tally(g, t, size, 1)]
    BY <2>3 DEF Carving
  <2>5. /\ DOMAIN g = Fields /\ g.bytes = h.bytes /\ g.count = h.count
        /\ g.header = With(h.header, x, Stamped(size, 0))
    BY <1>0 DEF Fields
  <2> HIDE DEF g, x
  <2>6. Payload(g.header[x]) = size
    <3>1. g.header[x] = Stamped(size, 0)
      BY <2>5 DEF With
    <3> QED BY <2>1, <3>1 DEF Payload, Stamped
  <2> QED BY <1>1, <2>4, <2>5, <2>6
<1>4. CASE ~(size <= NClasses)
  <2>1. PICK a \in Areas \ h.areas : r = [at |-> <<a, 0>>, heap |-> Tally(Put(h, a, size), t, size, 1)]
    BY <1>0, <1>4 DEF Malloc, ClassOf, LargeBlock, Put
  <2> DEFINE x == <<a, 0>>
             g == Put(h, a, size)
  <2>2. /\ DOMAIN g = Fields /\ g.bytes = h.bytes /\ g.count = h.count
        /\ g.header = With(h.header, x, Stamped(Large, size))
    BY <1>0 DEF Fields, Put
  <2>3. r = [at |-> x, heap |-> Tally(g, t, size, 1)]
    BY <2>1
  <2> HIDE DEF g, x
  <2>4. Payload(g.header[x]) = size
    <3>1. g.header[x] = Stamped(Large, size)
      BY <2>2 DEF With
    <3> QED BY <3>1 DEF Payload, Stamped
  <2> QED BY <1>1, <2>2, <2>3, <2>4
<1> QED BY <1>2, <1>3, <1>4

\* free counts one block less, with its payload.
LEMMA FreeCounts ==
  ASSUME HeapAssumption, NEW h, NEW out, Sound(h, out), NEW a \in out, NEW t \in Threads
  PROVE  /\ Free(h, t, a).count = Plus(h.count, t, -1)
         /\ Free(h, t, a).bytes = Plus(h.bytes, t, -Payload(h.header[a]))
<1>0. DOMAIN h = Fields /\ h.bytes \in [Threads -> Int] /\ h.count \in [Threads -> Int]
  BY DEF Sound, HeapTypes
<1> DEFINE p == Payload(h.header[a])
           Same(g) == DOMAIN g = Fields /\ g.bytes = h.bytes /\ g.count = h.count
<1>1. \E g : Same(g) /\ Free(h, t, a) = Tally(g, t, -p, -1)
  <2>1. CASE h.header[a].cls = Large
    <3>1. Free(h, t, a) = Tally(Gone(h, a), t, -p, -1)
      BY <2>1 DEF Free, Gone, Payload
    <3>2. Same(Gone(h, a))
      BY <1>0 DEF Gone, Fields
    <3> HIDE DEF Same, p
    <3> QED BY <3>1, <3>2
  <2>2. CASE h.header[a].cls # Large
    <3> DEFINE g == [h EXCEPT !.header[a].magic = "Freed",
                              !.lists[t][h.header[a].cls] = <<a>> \o @]
    <3>1. Free(h, t, a) = Tally(g, t, -p, -1)
      BY <2>2 DEF Free, Payload
    <3>2. Same(g)
      BY <1>0 DEF Fields
    <3> HIDE DEF Same, p, g
    <3> QED BY <3>1, <3>2
  <2> QED BY <2>1, <2>2
<1>2. PICK g : Same(g) /\ Free(h, t, a) = Tally(g, t, -p, -1)
  BY <1>1
<1> HIDE DEF p
<1>3. /\ Free(h, t, a).count = Plus(h.count, t, -1)
      /\ Free(h, t, a).bytes = Plus(h.bytes, t, -p)
  BY <1>0, <1>2, TallyCounts
<1> QED BY <1>3 DEF p

\* So the counters say what is out, behind malloc
LEMMA MallocTallies ==
  ASSUME HeapAssumption, NEW h, NEW out, Sound(h, out), IsFiniteSet(out), NEW t \in Threads,
         NEW size \in Sizes, NEW r \in Malloc(h, t, size)
  PROVE  /\ IsFiniteSet(out \cup {r.at})
         /\ Counted(h, out) => Counted(r.heap, out \cup {r.at})
         /\ Weighed(h, out) => Weighed(r.heap, out \cup {r.at})
<1>0. Gives(h, out, r, size)
  BY MallocGives
<1> DEFINE x == r.at
           p == Payload(r.heap.header[x])
<1>1. x \notin out /\ \A a \in out : r.heap.header[a] = h.header[a]
  BY <1>0 DEF Gives
<1>2. IsFiniteSet(out \cup {x}) /\ Cardinality(out \cup {x}) = Cardinality(out) + 1
  BY <1>1, FS_AddElement
<1>3. /\ r.heap.count = Plus(h.count, t, 1)
      /\ r.heap.bytes = Plus(h.bytes, t, p)
  BY MallocCounts
<1>4. p \in Int
  <2>1. Sound(r.heap, out \cup {x})
    BY <1>0 DEF Gives
  <2>2. r.heap.header[x] \in Headers
    BY <2>1 DEF Sound, HeapTypes, Listed
  <2> QED BY <2>2, PayloadIs DEF HeapAssumption
<1>5. \A a \in out : Payload(h.header[a]) \in Int
  <2>1. \A a \in out : h.header[a] \in Headers
    BY DEF Sound, HeapTypes, Listed
  <2> QED BY <2>1, PayloadIs DEF HeapAssumption
<1>6. IsFiniteSet(Threads) /\ h.bytes \in [Threads -> Int] /\ h.count \in [Threads -> Int]
  BY DEF HeapAssumption, Sound, HeapTypes
<1> HIDE DEF p, x
<1>7. Total(r.heap.count) = Total(h.count) + 1 /\ Total(r.heap.bytes) = Total(h.bytes) + p
  BY <1>3, <1>4, <1>6, TotalPlus
<1>8. Total(Payloads(r.heap, out \cup {x})) = Total(Payloads(h, out)) + p
  <2>1. Payload(r.heap.header[x]) \in Int
    BY <1>4 DEF p
  <2>2. \A a \in out : r.heap.header[a] = h.header[a] /\ Payload(h.header[a]) \in Int
    BY <1>1, <1>5
  <2> DEFINE g == r.heap
             all == out \cup {x}
  <2>3. all = out \cup {x} /\ x \notin out /\ Payload(g.header[x]) \in Int
    BY <1>1, <2>1
  <2> HIDE DEF g, all
  <2>4. \A a \in out : g.header[a] = h.header[a] /\ Payload(h.header[a]) \in Int
    BY <2>2 DEF g
  <2>5. Total(Payloads(g, all)) = Total(Payloads(h, out)) + Payload(g.header[x])
    BY <2>3, <2>4, OneMoreOut
  <2> QED BY <2>5 DEF p, g, all
<1> QED BY <1>2, <1>7, <1>8 DEF Counted, Weighed, x

\* and behind free.
LEMMA FreeTallies ==
  ASSUME HeapAssumption, NEW h, NEW out, Sound(h, out), IsFiniteSet(out), NEW a \in out,
         NEW t \in Threads
  PROVE  /\ IsFiniteSet(out \ {a})
         /\ Counted(h, out) => Counted(Free(h, t, a), out \ {a})
         /\ Weighed(h, out) => Weighed(Free(h, t, a), out \ {a})
<1> DEFINE g == Free(h, t, a)
           rest == out \ {a}
           p == Payload(h.header[a])
<1>1. Sound(g, rest) /\ \A b \in rest : g.header[b] = h.header[b]
  BY FreeKeeps
<1>2. IsFiniteSet(rest) /\ Cardinality(rest) = Cardinality(out) - 1 /\ Cardinality(out) \in Nat
  BY FS_RemoveElement, FS_CardinalityType
<1>3. g.count = Plus(h.count, t, -1) /\ g.bytes = Plus(h.bytes, t, -p)
  BY FreeCounts
<1>4. \A b \in out : Payload(h.header[b]) \in Int
  <2>1. \A b \in out : h.header[b] \in Headers
    BY DEF Sound, HeapTypes, Listed
  <2> QED BY <2>1, PayloadIs DEF HeapAssumption
<1>5. IsFiniteSet(Threads) /\ h.bytes \in [Threads -> Int] /\ h.count \in [Threads -> Int]
  BY DEF HeapAssumption, Sound, HeapTypes
<1>6. p \in Int /\ -p \in Int /\ -1 \in Int
  BY <1>4
<1>7. rest \cup {a} = out /\ a \notin rest
  OBVIOUS
<1> HIDE DEF g
<1>8. Total(g.count) = Total(h.count) + (-1) /\ Total(g.bytes) = Total(h.bytes) + (-p)
      /\ Total(h.count) \in Int /\ Total(h.bytes) \in Int
  <2> HIDE DEF p
  <2> QED BY <1>3, <1>5, <1>6, TotalPlus
<1>9. Total(Payloads(h, out)) = Total(Payloads(g, rest)) + p /\ Total(Payloads(g, rest)) \in Int
  <2>1. \A b \in rest : h.header[b] = g.header[b] /\ Payload(g.header[b]) \in Int
    BY <1>1, <1>4
  <2>2. /\ Total(Payloads(h, out)) = Total(Payloads(g, rest)) + Payload(h.header[a])
        /\ Total(Payloads(g, rest)) \in Int
    <3>1. Payload(h.header[a]) \in Int
      BY <1>6
    <3> HIDE DEF rest, p
    <3> QED BY <1>2, <1>7, <2>1, <3>1, OneMoreOut
  <2> QED BY <1>7, <2>2
<1> HIDE DEF p, rest
<1>10. Counted(h, out) => Counted(g, rest)
  BY <1>2, <1>8 DEF Counted
<1>11. Weighed(h, out) => Weighed(g, rest)
  BY <1>6, <1>8, <1>9 DEF Weighed
<1> QED BY <1>2, <1>10, <1>11 DEF g, rest

\* One block for another of the same payload.
LEMMA OneForAnother ==
  ASSUME NEW h, NEW g, NEW out, IsFiniteSet(out), NEW x, x \notin out, NEW y, y \notin out,
         NEW all, all = out \cup {x}, NEW now, now = out \cup {y},
         \A a \in out : g.header[a] = h.header[a] /\ Payload(h.header[a]) \in Int,
         Payload(h.header[x]) \in Int, Payload(g.header[y]) = Payload(h.header[x])
  PROVE  /\ Total(Payloads(g, now)) = Total(Payloads(h, all))
         /\ IsFiniteSet(now) /\ Cardinality(now) = Cardinality(all)
<1> DEFINE e == Payloads(h, out)
           f == Payloads(h, all)
           d == Payloads(g, now)
<1>1. /\ DOMAIN f = out \cup {x} /\ f[x] = Payload(h.header[x])
      /\ DOMAIN d = out \cup {y} /\ d[y] = Payload(h.header[x])
  BY DEF Payloads
<1>2. But(f, x) = e /\ But(d, y) = e
  BY DEF But, Payloads
<1>3. /\ IsFiniteSet(DOMAIN f) /\ IsFiniteSet(DOMAIN d) /\ x \in DOMAIN f /\ y \in DOMAIN d
      /\ \A a \in DOMAIN f : f[a] \in Int
      /\ \A a \in DOMAIN d : d[a] \in Int
  <2>1. IsFiniteSet(out \cup {x}) /\ IsFiniteSet(out \cup {y})
    BY FS_AddElement
  <2>2. \A a \in out : f[a] \in Int /\ d[a] \in Int
    BY DEF Payloads
  <2> HIDE DEF e, f, d
  <2> QED BY <1>1, <2>1, <2>2
<1> HIDE DEF e, f, d
<1>4. Total(f) = f[x] + Total(e)
  BY <1>2, <1>3, TotalOf
<1>5. Total(d) = d[y] + Total(e)
  BY <1>2, <1>3, TotalOf
<1>6. IsFiniteSet(now) /\ Cardinality(now) = Cardinality(all)
  BY FS_AddElement
<1> QED BY <1>1, <1>4, <1>5, <1>6 DEF d, f

\* Nothing at all, however often.
LEMMA NothingIs ==
  ASSUME NEW S, IsFiniteSet(S)
  PROVE  Total([x \in S |-> 0]) = 0
<1> DEFINE f == [x \in S |-> 0]
<1>1. DOMAIN f = S /\ \A x \in S : f[x] = 0
  OBVIOUS
<1> HIDE DEF f
<1>2. PICK g : SumsOf(f, S, g) /\ Total(f) = g[S]
  BY <1>1, TotalIs
<1> DEFINE C == {r \in SUBSET S : g[r] # 0}
<1> SUFFICES ASSUME C # {} PROVE FALSE
  BY <1>2 DEF f
<1>3. PICK r \in C : \A q \in C : Cardinality(r) <= Cardinality(q)
  <2>1. \A q \in C : IsFiniteSet(q)
    BY FS_Subset
  <2> HIDE DEF C
  <2> QED BY <2>1, SmallestExists
<1>4. r # {} /\ IsFiniteSet(r) /\ r \subseteq S /\ g[r] # 0
  BY <1>2, <1>3, FS_Subset DEF SumsOf
<1>5. First(r) \in r /\ g[r] = f[First(r)] + g[r \ {First(r)}]
  BY <1>2, <1>4, FirstIs DEF SumsOf
<1>6. r \ {First(r)} \notin C
  <2> HIDE DEF C
  <2>1. /\ IsFiniteSet(r \ {First(r)}) /\ Cardinality(r \ {First(r)}) < Cardinality(r)
        /\ Cardinality(r) \in Nat
    BY <1>4, <1>5, OneLess
  <2>2. Cardinality(r \ {First(r)}) \in Nat
    BY <2>1, FS_CardinalityType
  <2> QED BY <1>3, <2>1, <2>2
<1>7. g[r \ {First(r)}] = 0
  BY <1>4, <1>6
<1> QED BY <1>1, <1>4, <1>5, <1>7

CountInv ==
  /\ IsFiniteSet(DOMAIN blocks) /\ Counted(heap, DOMAIN blocks)
  /\ ~resized => Weighed(heap, DOMAIN blocks)

LEMMA CountInvHolds ==
  ASSUME CountInv
  PROVE  CountsAgree
BY DEF CountInv, CountsAgree, Counted, Weighed, Payloads

LEMMA CountStarts ==
  ASSUME HeapAssumption, HeapInit
  PROVE  CountInv
<1>1. /\ DOMAIN blocks = {} /\ resized = FALSE
      /\ heap.bytes = [t \in Threads |-> 0] /\ heap.count = [t \in Threads |-> 0]
  BY DEF HeapInit
<1>2. Total(heap.bytes) = 0 /\ Total(heap.count) = 0
  BY <1>1, NothingIs DEF HeapAssumption
<1>3. Total(Payloads(heap, {})) = 0
  <2> DEFINE f == Payloads(heap, {})
  <2>1. DOMAIN f = {} /\ IsFiniteSet({})
    BY FS_EmptySet DEF Payloads
  <2> HIDE DEF f
  <2>2. IsFiniteSet(DOMAIN f) /\ \A x \in DOMAIN f : f[x] \in Int
    BY <2>1
  <2>3. Total(f) = 0
    BY <2>1, <2>2, TotalOf
  <2> QED BY <2>3 DEF f
<1>4. IsFiniteSet({}) /\ Cardinality({}) = 0
  BY FS_EmptySet
<1> QED BY <1>1, <1>2, <1>3, <1>4 DEF CountInv, Counted, Weighed

\* A step that touches neither the heap nor what is out.
LEMMA NothingToCount ==
  ASSUME CountInv, heap' = heap, DOMAIN blocks' = DOMAIN blocks, resized' = resized
  PROVE  CountInv'
BY DEF CountInv, Counted, Weighed, Payloads

LEMMA AllocationCounts ==
  ASSUME HeapAssumption, HeapInv, CountInv, NEW t \in Threads, NEW size \in Sizes, NEW o,
         NEW r \in Malloc(heap, t, size), heap' = r.heap, blocks' = With(blocks, r.at, o),
         resized' = resized
  PROVE  CountInv'
<1>1. DOMAIN blocks' = DOMAIN blocks \cup {r.at}
  BY DEF With
<1>2. Sound(heap, DOMAIN blocks) /\ IsFiniteSet(DOMAIN blocks)
  BY DEF HeapInv, CountInv
<1>3. /\ IsFiniteSet(DOMAIN blocks \cup {r.at})
      /\ Counted(heap, DOMAIN blocks) => Counted(r.heap, DOMAIN blocks \cup {r.at})
      /\ Weighed(heap, DOMAIN blocks) => Weighed(r.heap, DOMAIN blocks \cup {r.at})
  BY <1>2, MallocTallies
<1>4. /\ IsFiniteSet(DOMAIN blocks') /\ Counted(heap', DOMAIN blocks')
      /\ ~resized' => Weighed(heap', DOMAIN blocks')
  BY <1>1, <1>3 DEF CountInv
<1> QED BY <1>4 DEF CountInv

LEMMA ReleaseCounts ==
  ASSUME HeapAssumption, HeapInv, CountInv, NEW t \in Threads, NEW a \in DOMAIN blocks,
         heap' = Free(heap, t, a), blocks' = But(blocks, a), resized' = resized
  PROVE  CountInv'
<1>1. DOMAIN blocks' = DOMAIN blocks \ {a}
  BY DEF But
<1>2. Sound(heap, DOMAIN blocks) /\ IsFiniteSet(DOMAIN blocks)
  BY DEF HeapInv, CountInv
<1>3. /\ IsFiniteSet(DOMAIN blocks \ {a})
      /\ Counted(heap, DOMAIN blocks) => Counted(Free(heap, t, a), DOMAIN blocks \ {a})
      /\ Weighed(heap, DOMAIN blocks) => Weighed(Free(heap, t, a), DOMAIN blocks \ {a})
  BY <1>2, FreeTallies
<1>4. /\ IsFiniteSet(DOMAIN blocks') /\ Counted(heap', DOMAIN blocks')
      /\ ~resized' => Weighed(heap', DOMAIN blocks')
  BY <1>1, <1>3 DEF CountInv
<1> QED BY <1>4 DEF CountInv

\* The counters are not told of a Large block that realloc moves; they need
\* not be, while it keeps its size.
LEMMA ReallocLargeCounts ==
  ASSUME HeapAssumption, HeapInv, CountInv, NEW t \in Threads, NEW a \in DOMAIN blocks,
         NEW size \in Sizes, ReallocLarge(t, a, size)
  PROVE  CountInv'
<1>1. ~resized /\ heap.header[a].cls = Large /\ resized' = (size # heap.header[a].pad)
  BY DEF ReallocLarge
<1>2. PICK b : Moved(a, b, size)
  BY LargeMoves
<1> DEFINE out == DOMAIN blocks \ {a}
           x == <<b, 0>>
           h == heap
           g == heap'
           all == DOMAIN blocks
           now == DOMAIN blocks'
<1>3. /\ x \notin out /\ now = out \cup {x} /\ \A d \in out : g.header[d] = h.header[d]
      /\ g.header[x] = Stamped(Large, size) /\ g.bytes = h.bytes /\ g.count = h.count
  BY <1>2 DEF Moved
<1>4. /\ IsFiniteSet(all) /\ IsFiniteSet(out) /\ a \notin out /\ all = out \cup {a}
      /\ \A d \in all : Payload(h.header[d]) \in Int
  <2>1. IsFiniteSet(all) /\ IsFiniteSet(out)
    BY FS_Subset DEF CountInv
  <2>2. \A d \in all : h.header[d] \in Headers
    BY DEF HeapInv, Sound, HeapTypes, Listed
  <2>3. \A d \in all : Payload(h.header[d]) \in Int
    BY <2>2, PayloadIs DEF HeapAssumption
  <2> QED BY <2>1, <2>3
<1>5. Counted(h, all) /\ Weighed(h, all)
  BY <1>1 DEF CountInv
<1>6. Payload(g.header[x]) = size /\ Payload(h.header[a]) = h.header[a].pad /\ size \in Int
  <2>1. size \in Int
    BY DEF HeapAssumption
  <2>2. Payload(h.header[a]) = h.header[a].pad
    BY <1>1 DEF Payload
  <2>3. g.header[x].cls = Large /\ g.header[x].pad = size
    BY <1>3 DEF Stamped
  <2>4. Payload(g.header[x]) = size
    <3> HIDE DEF g, x
    <3> QED BY <2>3 DEF Payload
  <2> QED BY <2>1, <2>2, <2>4
<1> HIDE DEF out, x, h, g, all, now
<1>7. IsFiniteSet(now) /\ Cardinality(now) = Cardinality(all)
  BY <1>3, <1>4, FS_AddElement
<1>8. Counted(g, now)
  BY <1>3, <1>5, <1>7 DEF Counted
<1>9. ~resized' => Weighed(g, now)
  <2> SUFFICES ASSUME ~resized' PROVE Weighed(g, now)
    OBVIOUS
  <2>1. Payload(g.header[x]) = Payload(h.header[a]) /\ Payload(h.header[a]) \in Int /\ a \in all
    BY <1>1, <1>4, <1>6 DEF h
  <2>2. \A d \in out : g.header[d] = h.header[d] /\ Payload(h.header[d]) \in Int
    BY <1>3, <1>4
  <2>3. Total(Payloads(g, now)) = Total(Payloads(h, all))
    BY <1>3, <1>4, <2>1, <2>2, OneForAnother
  <2> QED BY <1>3, <1>5, <2>3 DEF Weighed
<1> QED BY <1>7, <1>8, <1>9 DEF CountInv, g, now

\* A block of a class is counted with its class, so that it may stay; and one
\* that goes over is counted in, and the old one out.
LEMMA ReallocCounts ==
  ASSUME HeapAssumption, HeapInv, CountInv, NEW t \in Threads, NEW a \in DOMAIN blocks,
         NEW size \in Sizes, Realloc(t, a, size)
  PROVE  CountInv'
<1>1. resized' = resized
  BY DEF Realloc
<1>2. CASE blocks' = [blocks EXCEPT ![a].size = size] /\ UNCHANGED heap
  BY <1>1, <1>2, NothingToCount
<1>3. ASSUME NEW r \in Malloc(heap, t, size), heap' = Free(r.heap, t, a),
             blocks' = With(But(blocks, a), r.at, Out(size, "plain"))
      PROVE  CountInv'
  <2>1. Sound(heap, DOMAIN blocks) /\ IsFiniteSet(DOMAIN blocks)
    BY DEF HeapInv, CountInv
  <2> DEFINE h == r.heap
             all == DOMAIN blocks \cup {r.at}
  <2>2. Gives(heap, DOMAIN blocks, r, size)
    BY <2>1, MallocGives
  <2>3. Sound(h, all) /\ r.at \notin DOMAIN blocks /\ a \in all
    BY <2>2 DEF Gives
  <2>4. /\ IsFiniteSet(all)
        /\ Counted(heap, DOMAIN blocks) => Counted(h, all)
        /\ Weighed(heap, DOMAIN blocks) => Weighed(h, all)
    BY <2>1, MallocTallies
  <2>5. /\ IsFiniteSet(all \ {a})
        /\ Counted(h, all) => Counted(Free(h, t, a), all \ {a})
        /\ Weighed(h, all) => Weighed(Free(h, t, a), all \ {a})
    <3> HIDE DEF h, all
    <3> QED BY <2>3, <2>4, FreeTallies
  <2>6. DOMAIN blocks' = all \ {a}
    BY <1>3, <2>3 DEF With, But
  <2>7. /\ IsFiniteSet(DOMAIN blocks') /\ Counted(heap', DOMAIN blocks')
        /\ ~resized' => Weighed(heap', DOMAIN blocks')
    BY <1>1, <1>3, <2>4, <2>5, <2>6 DEF CountInv
  <2> QED BY <2>7 DEF CountInv
<1> QED BY <1>2, <1>3 DEF Realloc

LEMMA CountStepKeeps ==
  ASSUME HeapAssumption, HeapInv, CountInv, [HeapNext]_heapVars
  PROVE  CountInv'
<1>1. ASSUME NEW t \in Threads, NEW size \in Sizes, New(t, size) PROVE CountInv'
  BY <1>1, AllocationCounts DEF New
<1>2. ASSUME NEW t \in Threads, NEW size \in Sizes, AcquireNew(t, size) PROVE CountInv'
  BY <1>2, AllocationCounts DEF AcquireNew
<1>3. ASSUME NEW t \in Threads, NEW a \in DOMAIN blocks, Delete(t, a) PROVE CountInv'
  BY <1>3, ReleaseCounts DEF Delete
<1>4. ASSUME NEW t \in Threads, NEW a \in DOMAIN blocks, ReleaseFreed(t, a) PROVE CountInv'
  BY <1>4, ReleaseCounts DEF ReleaseFreed
<1>5. ASSUME NEW t \in Threads, NEW a \in DOMAIN blocks, ReleaseCached(t, a) PROVE CountInv'
  BY <1>5, NothingToCount DEF ReleaseCached
<1>6. ASSUME NEW t \in Threads, NEW size \in Sizes, AcquireCached(t, size) PROVE CountInv'
  <2>1. heap' = heap /\ resized' = resized /\ DOMAIN blocks' = DOMAIN blocks
    BY <1>6 DEF AcquireCached
  <2> QED BY <2>1, NothingToCount
<1>7. CASE HeapNext
  BY <1>1, <1>2, <1>3, <1>4, <1>5, <1>6, <1>7, ReallocLargeCounts, ReallocCounts DEF HeapNext
<1>8. CASE UNCHANGED heapVars
  BY <1>8, NothingToCount DEF heapVars
<1> QED BY <1>7, <1>8

\* What the threads have counted is, in every execution, as many blocks as are
\* out, and as many bytes until a Large block is resized, whichever thread frees
\* what another asked for.
THEOREM CountersAgree ==
  ASSUME HeapAssumption
  PROVE  HeapSpec => []CountsAgree
<1>1. HeapInit => HeapInv /\ CountInv
  BY HeapStarts, CountStarts
<1>2. HeapInv /\ CountInv /\ [HeapNext]_heapVars => HeapInv' /\ CountInv'
  BY HeapStepKeeps, CountStepKeeps
<1>3. CountInv => CountsAgree
  BY CountInvHolds
<1> QED BY <1>1, <1>2, <1>3, PTL DEF HeapSpec
-----------------------------------------------------------------------------
(* The arenas of a program without an operating system.  Where a block     *)
(* lies says little: a cursor may fall below its arena's base, into memory *)
(* the arena has left, when the block that ends there is given back.  What *)
(* holds is that no byte an arena still has to give is anybody's.          *)

In(b, i) == b.at <= i /\ i < b.at + b.size
Unused(a, i) == a.base + a.used <= i /\ i < a.base + a.capacity
HandedOver(i) == 0 <= i /\ i < SeedAt + seedUsed

ArenaTypes ==
  /\ seed \in Nat /\ seedUsed \in 0..seed
  /\ arena \in [Arenas -> [base : Nat, capacity : Nat, used : Int]]
  /\ DOMAIN mem = 0..(SeedAt + seed - 1)
  /\ issued \subseteq [kind : Arenas, at : Nat, size : Nat \ {0}, id : 1..MaxOut]

NobodysToGive ==
  \A k \in Arenas : \A i \in Int : Unused(arena[k], i) =>
    /\ HandedOver(i)
    /\ \A b \in issued : ~In(b, i)
    /\ \A o \in Arenas \ {k} : ~Unused(arena[o], i)

EachToOne ==
  \A b \in issued : \A i \in Int : In(b, i) =>
    /\ HandedOver(i)
    /\ \A c \in issued : b.id # c.id => ~In(c, i)

OneOfANumber == \A b, c \in issued : b.id = c.id => b = c

Contents(m, held) ==
  \A b \in held : \A i \in 0..(b.size - 1) : m[b.at + i] = <<b.id, i>>

ArenaInv == ArenaTypes /\ NobodysToGive /\ EachToOne /\ OneOfANumber /\ Contents(mem, issued)

\* What the invariant says of the blocks the arenas have out.
LEMMA ArenaInvHolds ==
  ASSUME ArenaAssumption, ArenaInv
  PROVE  ArenaTypeOK /\ BlocksKeepContents
<1>1. ArenaTypeOK
  BY DEF ArenaInv, ArenaTypes, ArenaTypeOK
<1>2. ASSUME NEW b \in issued, NEW i \in 0..(b.size - 1)
      PROVE  b.at + i \in DOMAIN mem /\ mem[b.at + i] = <<b.id, i>>
  <2>1. b.at \in Nat /\ b.size \in Nat /\ SeedAt \in Nat /\ seed \in Nat /\ seedUsed \in Nat /\ seedUsed <= seed
    BY DEF ArenaInv, ArenaTypes, ArenaAssumption, SeedAt
  <2>2. In(b, b.at + i) /\ b.at + i \in Int
    BY <2>1 DEF In
  <2>3. HandedOver(b.at + i)
    BY <2>2 DEF ArenaInv, EachToOne
  <2>4. b.at + i \in DOMAIN mem
    BY <2>1, <2>3 DEF HandedOver, ArenaInv, ArenaTypes
  <2> QED BY <2>4 DEF ArenaInv, Contents
<1> QED BY <1>1, <1>2 DEF BlocksKeepContents

\* The two arrays lie next to each other, and nothing is out.
LEMMA ArenaStarts ==
  ASSUME ArenaAssumption, ArenaInit
  PROVE  ArenaInv
<1>1. Pool \in Nat /\ Meta \in Nat /\ SeedAt = Pool + Meta
  BY DEF ArenaAssumption, SeedAt
<1>2. /\ arena["blocks"] = [base |-> 0, capacity |-> Pool, used |-> 0]
      /\ arena["registry"] = [base |-> Pool, capacity |-> Meta, used |-> 0]
      /\ DOMAIN arena = Arenas
  BY DEF ArenaInit, Arenas
<1>3. ArenaTypes
  BY <1>1 DEF ArenaInit, ArenaTypes, Arenas
<1>4. NobodysToGive
  <2> SUFFICES ASSUME NEW k \in Arenas, NEW i \in Int, Unused(arena[k], i)
               PROVE  /\ HandedOver(i)
                      /\ \A b \in issued : ~In(b, i)
                      /\ \A o \in Arenas \ {k} : ~Unused(arena[o], i)
    BY DEF NobodysToGive
  <2>1. issued = {} /\ seedUsed = 0
    BY DEF ArenaInit
  <2>2. CASE k = "blocks"
    BY <1>1, <1>2, <2>1, <2>2 DEF Arenas, Unused, HandedOver
  <2>3. CASE k = "registry"
    BY <1>1, <1>2, <2>1, <2>3 DEF Arenas, Unused, HandedOver
  <2> QED BY <2>2, <2>3 DEF Arenas
<1> QED BY <1>3, <1>4 DEF ArenaInv, ArenaInit, EachToOne, OneOfANumber, Contents

\* A piece that fits is taken from what the seed has left.
LEMMA GrownIs ==
  ASSUME ArenaAssumption, ArenaTypes, NEW a \in [base : Nat, capacity : Nat, used : Int],
         NEW need \in Nat \ {0}, Pieces(a, need) # {}
  PROVE  /\ Grown(a, need) = [base |-> SeedAt + seedUsed, capacity |-> Piece(a, need), used |-> 0]
         /\ Piece(a, need) \in Nat /\ need <= Piece(a, need) /\ seedUsed + Piece(a, need) <= seed
<1> DEFINE i == Min(Pieces(a, need))
<1>1. Pieces(a, need) \in SUBSET Nat
  BY DEF Pieces
<1>2. \E j \in Pieces(a, need) : \A l \in Pieces(a, need) : j <= l
  BY <1>1, LeastExists
<1>3. i \in Pieces(a, need)
  BY <1>2 DEF Min
<1>4. i \in {1, 2} /\ Fits(Wants(a, need)[i])
  BY <1>3 DEF Pieces
<1>5. /\ Wants(a, need)[1] = IF 2 * need < a.capacity THEN a.capacity ELSE 2 * need
      /\ Wants(a, need)[2] = need
  BY DEF Wants
<1>6. Wants(a, need)[i] \in Nat /\ need <= Wants(a, need)[i]
  BY <1>4, <1>5
<1>7. seed \in Nat /\ seedUsed \in Nat
  BY DEF ArenaTypes
<1> HIDE DEF i
<1> QED BY <1>4, <1>6, <1>7 DEF Piece, Grown, Fits, i

\* What an arena goes on as, and the block it gives.
Stands(a, need) == IF Room(a, need) THEN a ELSE Grown(a, need)
Given(k, a, need, id) ==
  [kind |-> k, at |-> Stands(a, need).base + Stands(a, need).used, size |-> need, id |-> id]

\* Bytes nobody has become a block's: of an arena as it stands, as it stands
\* without the block that was its newest, or as it goes on in the seed.
LEMMA BytesTaken ==
  ASSUME ArenaAssumption, ArenaInv, NEW k \in Arenas,
         NEW a \in [base : Nat, capacity : Nat, used : Int],
         NEW need \in Nat \ {0}, NEW id \in 1..MaxOut,
         \A i \in Int : Unused(a, i) =>
           /\ HandedOver(i)
           /\ \A b \in issued : b.id # id => ~In(b, i)
           /\ \A o \in Arenas \ {k} : ~Unused(arena[o], i),
         Room(a, need) \/ Pieces(a, need) # {},
         arena' = [arena EXCEPT ![k] = [Stands(a, need) EXCEPT !.used = @ + need]],
         seedUsed' = IF Room(a, need) THEN seedUsed ELSE seedUsed + Stands(a, need).capacity,
         issued' = {b \in issued : b.id # id} \cup {Given(k, a, need, id)},
         DOMAIN mem' = DOMAIN mem, seed' = seed
  PROVE  /\ ArenaTypes' /\ NobodysToGive' /\ EachToOne' /\ OneOfANumber'
         /\ Given(k, a, need, id).at \in Nat
         /\ \A b \in issued : \A i \in Int : b.id # id /\ In(b, i) => ~In(Given(k, a, need, id), i)
         /\ \A b \in issued' : \A i \in 0..(b.size - 1) : b.at + i \in DOMAIN mem
<1> DEFINE now == Stands(a, need)
           at == now.base + now.used
           new == Given(k, a, need, id)
           others == {b \in issued : b.id # id}
<1>0. /\ SeedAt \in Nat /\ seed \in Nat /\ seedUsed \in Nat /\ seedUsed <= seed
      /\ arena \in [Arenas -> [base : Nat, capacity : Nat, used : Int]]
      /\ DOMAIN mem = 0..(SeedAt + seed - 1)
      /\ issued \subseteq [kind : Arenas, at : Nat, size : Nat \ {0}, id : 1..MaxOut]
      /\ a.base \in Nat /\ a.capacity \in Nat /\ a.used \in Int
      /\ need \in Nat /\ need > 0
  <2>1. SeedAt \in Nat
    BY DEF ArenaAssumption, SeedAt
  <2>2. seed \in Nat /\ seedUsed \in 0..seed /\ DOMAIN mem = 0..(SeedAt + seed - 1)
    BY DEF ArenaInv, ArenaTypes
  <2>3. /\ arena \in [Arenas -> [base : Nat, capacity : Nat, used : Int]]
        /\ issued \subseteq [kind : Arenas, at : Nat, size : Nat \ {0}, id : 1..MaxOut]
    BY DEF ArenaInv, ArenaTypes
  <2> QED BY <2>1, <2>2, <2>3
<1>1. /\ arena' = [arena EXCEPT ![k] = [now EXCEPT !.used = @ + need]]
      /\ seedUsed' = IF Room(a, need) THEN seedUsed ELSE seedUsed + now.capacity
      /\ issued' = others \cup {new}
      /\ seed' = seed
  OBVIOUS
<1>1a. now = IF Room(a, need) THEN a ELSE Grown(a, need)
  BY DEF Stands
<1>1b. new = [kind |-> k, at |-> at, size |-> need, id |-> id]
  BY DEF Given
<1> HIDE DEF now, new
<1>2. /\ now \in [base : Nat, capacity : Nat, used : Int]
      /\ now.used + need <= now.capacity
      /\ seedUsed' \in Nat /\ seedUsed <= seedUsed' /\ seedUsed' <= seed
  <2>1. CASE Room(a, need)
    BY <1>0, <1>1, <1>1a, <2>1 DEF Room
  <2>2. CASE ~Room(a, need)
    <3>1. /\ now = [base |-> SeedAt + seedUsed, capacity |-> Piece(a, need), used |-> 0]
          /\ Piece(a, need) \in Nat /\ need <= Piece(a, need) /\ seedUsed + Piece(a, need) <= seed
      BY <1>1a, <2>2, GrownIs DEF ArenaInv
    <3>2. now.base = SeedAt + seedUsed /\ now.capacity = Piece(a, need) /\ now.used = 0
      BY <3>1
    <3>3. now \in [base : Nat, capacity : Nat, used : Int]
      BY <1>0, <3>1, SMTT(30)
    <3>4. seedUsed' = seedUsed + Piece(a, need)
      BY <1>1, <2>2, <3>2
    <3> QED BY <1>0, <3>1, <3>2, <3>3, <3>4, SMTT(30)
  <2> QED BY <2>1, <2>2
<1>3. \A i \in Int : Unused(now, i) =>
         /\ 0 <= i /\ i < SeedAt + seedUsed'
         /\ \A b \in others : ~In(b, i)
         /\ \A o \in Arenas \ {k} : ~Unused(arena[o], i)
  <2>1. CASE Room(a, need)
    BY <1>0, <1>1, <1>1a, <2>1 DEF HandedOver
  <2>2. CASE ~Room(a, need)
    <3>1. /\ now.base = SeedAt + seedUsed /\ now.used = 0
          /\ seedUsed' = seedUsed + now.capacity /\ now.capacity \in Nat
      BY <1>0, <1>1, <1>1a, <2>2, GrownIs, SMTT(30) DEF ArenaInv
    <3> SUFFICES ASSUME NEW i \in Int, Unused(now, i)
                 PROVE  /\ 0 <= i /\ i < SeedAt + seedUsed'
                        /\ \A b \in others : ~In(b, i)
                        /\ \A o \in Arenas \ {k} : ~Unused(arena[o], i)
      OBVIOUS
    <3>2. SeedAt + seedUsed <= i /\ i < SeedAt + seedUsed'
      <4>1. /\ seedUsed \in Nat /\ SeedAt \in Nat /\ now.capacity \in Nat
            /\ now.base + now.used = SeedAt + seedUsed
            /\ now.base + now.capacity = SeedAt + seedUsed'
        <5>1. SeedAt \in Nat /\ seedUsed \in Nat
          BY <1>0
        <5> QED BY <3>1, <5>1
      <4> QED BY <4>1 DEF Unused
    <3>3. ~HandedOver(i)
      BY <1>0, <3>2 DEF HandedOver
    <3>4. /\ \A b \in others : ~In(b, i)
          /\ \A o \in Arenas \ {k} : ~Unused(arena[o], i)
      BY <3>3 DEF ArenaInv, EachToOne, NobodysToGive
    <3>5. 0 <= i
      BY <1>0, <3>2
    <3> QED BY <3>2, <3>4, <3>5
  <2> QED BY <2>1, <2>2
<1>2a. /\ now.base \in Nat /\ now.capacity \in Nat /\ now.used \in Int
       /\ now.used + need <= now.capacity /\ need \in Nat /\ need > 0
  BY <1>0, <1>2
<1>2b. /\ SeedAt \in Nat /\ seedUsed \in Nat /\ seedUsed' \in Nat /\ seed \in Nat
       /\ seedUsed <= seedUsed' /\ seedUsed' <= seed
  BY <1>0, <1>2
<1>4. at \in Int /\ \A i \in Int : In(new, i) => Unused(now, i)
  <2>1. new.at = now.base + now.used /\ new.size = need
    BY <1>1b
  <2> QED BY <1>2a, <2>1 DEF In, Unused
<1>5. at \in Nat
  <2>1. In(new, at)
    BY <1>0, <1>1b, <1>4 DEF In
  <2> QED BY <1>3, <1>4, <2>1
<1>6. /\ arena'[k].base = now.base /\ arena'[k].capacity = now.capacity
      /\ arena'[k].used = now.used + need
      /\ \A o \in Arenas \ {k} : arena'[o] = arena[o]
      /\ arena' \in [Arenas -> [base : Nat, capacity : Nat, used : Int]]
  <2> DEFINE stands == [now EXCEPT !.used = @ + need]
  <2>1. /\ stands.base = now.base /\ stands.capacity = now.capacity
        /\ stands.used = now.used + need
    BY <1>2
  <2>2. stands \in [base : Nat, capacity : Nat, used : Int]
    BY <1>2, <1>2a
  <2>3. arena' = [arena EXCEPT ![k] = stands]
    BY <1>1
  <2> HIDE DEF stands
  <2> QED BY <1>0, <2>1, <2>2, <2>3
<1>7. \A i \in Int : Unused(arena'[k], i) => Unused(now, i) /\ ~In(new, i)
  <2>1. new.at = now.base + now.used /\ new.size = need
    BY <1>1b
  <2> QED BY <1>2a, <1>6, <2>1 DEF In, Unused
<1>8. \A i \in Int : HandedOver(i) => 0 <= i /\ i < SeedAt + seedUsed'
  BY <1>2b DEF HandedOver
<1>9. ArenaTypes'
  <2>1. DOMAIN mem' = 0..(SeedAt + seed - 1)
    BY <1>0
  <2>2. new \in [kind : Arenas, at : Nat, size : Nat \ {0}, id : 1..MaxOut]
    BY <1>1b, <1>5
  <2>3. issued' \subseteq [kind : Arenas, at : Nat, size : Nat \ {0}, id : 1..MaxOut]
    BY <1>0, <1>1, <2>2
  <2>4. seed' \in Nat /\ seedUsed' \in 0..seed' /\ seed' = seed
    BY <1>1, <1>2b
  <2> QED BY <1>6, <2>1, <2>3, <2>4 DEF ArenaTypes, SeedAt
<1>10. /\ new.at = at /\ new.size = need /\ new.id = id
       /\ \A b \in issued' : b = new \/ (b \in issued /\ b.id # id)
  BY <1>1, <1>1b
<1>11. NobodysToGive'
  <2> SUFFICES ASSUME NEW o \in Arenas, NEW i \in Int, Unused(arena'[o], i)
               PROVE  /\ 0 <= i /\ i < SeedAt + seedUsed'
                      /\ \A b \in issued' : ~In(b, i)
                      /\ \A q \in Arenas \ {o} : ~Unused(arena'[q], i)
    BY DEF NobodysToGive, HandedOver, SeedAt, In, Unused
  <2>1. CASE o = k
    BY <1>3, <1>6, <1>7, <1>10, <2>1
  <2>2. CASE o # k
    <3>1. Unused(arena[o], i) /\ HandedOver(i)
      BY <1>6, <2>2 DEF ArenaInv, NobodysToGive
    <3>2. \A b \in issued : ~In(b, i)
      BY <3>1 DEF ArenaInv, NobodysToGive
    <3>3. ~Unused(now, i)
      BY <1>3, <2>2, <3>1
    <3>4. ~In(new, i) /\ ~Unused(arena'[k], i)
      BY <1>4, <1>7, <3>3
    <3>5. \A q \in Arenas \ {o, k} : ~Unused(arena'[q], i)
      BY <1>6, <3>1 DEF ArenaInv, NobodysToGive
    <3> QED BY <1>8, <1>10, <3>1, <3>2, <3>4, <3>5
  <2> QED BY <2>1, <2>2
<1>12. EachToOne'
  <2> SUFFICES ASSUME NEW b \in issued', NEW i \in Int, In(b, i)
               PROVE  /\ 0 <= i /\ i < SeedAt + seedUsed'
                      /\ \A c \in issued' : b.id # c.id => ~In(c, i)
    BY DEF EachToOne, HandedOver, SeedAt, In
  <2>1. CASE b = new
    BY <1>3, <1>4, <1>10, <2>1
  <2>2. CASE b # new
    <3>1. b \in issued /\ b.id # id /\ HandedOver(i) /\ \A c \in issued : b.id # c.id => ~In(c, i)
      BY <1>10, <2>2 DEF ArenaInv, EachToOne
    <3>2. ~In(new, i)
      BY <1>3, <1>4, <3>1
    <3> QED BY <1>8, <1>10, <3>1, <3>2
  <2> QED BY <2>1, <2>2
<1>13. OneOfANumber'
  BY <1>10 DEF ArenaInv, OneOfANumber
<1>14. \A b \in issued' : \A i \in 0..(b.size - 1) : b.at + i \in DOMAIN mem
  <2> SUFFICES ASSUME NEW b \in issued', NEW i \in 0..(b.size - 1)
               PROVE  b.at + i \in DOMAIN mem
    OBVIOUS
  <2>0. b.at \in Nat /\ b.size \in Nat
    BY <1>9 DEF ArenaTypes
  <2>1. In(b, b.at + i) /\ b.at + i \in Int
    BY <2>0 DEF In
  <2>2. HandedOver(b.at + i)'
    BY <1>12, <2>1 DEF EachToOne, In, HandedOver, SeedAt
  <2>3. 0 <= b.at + i /\ b.at + i < SeedAt + seedUsed'
    BY <2>2 DEF HandedOver, SeedAt
  <2>4. b.at + i \in 0..(SeedAt + seed - 1)
    BY <1>2b, <2>0, <2>3
  <2> QED BY <1>0, <2>4
<1>15. \A b \in issued : \A i \in Int : b.id # id /\ In(b, i) => ~In(new, i)
  BY <1>3, <1>4
<1> HIDE DEF at
<1> QED BY <1>5, <1>9, <1>10, <1>11, <1>12, <1>13, <1>14, <1>15 DEF new

\* `take` keeps the invariant, whether the arena has room, goes on in the seed
\* or panics.
LEMMA TakeKeeps ==
  ASSUME ArenaAssumption, ArenaInv, NEW k \in Arenas,
         NEW a \in [base : Nat, capacity : Nat, used : Int],
         NEW need \in Nat \ {0}, NEW id \in 1..MaxOut, NEW had \in 0..need,
         \A i \in Int : Unused(a, i) =>
           /\ HandedOver(i)
           /\ \A b \in issued : b.id # id => ~In(b, i)
           /\ \A o \in Arenas \ {k} : ~Unused(arena[o], i),
         had # 0 => /\ Room(a, need)
                    /\ \A i \in 0..(had - 1) : mem[a.base + a.used + i] = <<id, i>>,
         Take(k, a, need, id, had)
  PROVE  ArenaInv'
<1> DEFINE now == Stands(a, need)
           at == now.base + now.used
           new == Given(k, a, need, id)
<1>1. CASE ~(Room(a, need) \/ Pieces(a, need) # {})
  <2>1. UNCHANGED <<seed, seedUsed, arena, issued, mem>>
    BY <1>1 DEF Take
  <2> QED BY <2>1 DEF ArenaInv, ArenaTypes, NobodysToGive, EachToOne, OneOfANumber, Contents,
                       HandedOver, In, Unused
<1>2. CASE Room(a, need) \/ Pieces(a, need) # {}
  <2>1. /\ arena' = [arena EXCEPT ![k] = [now EXCEPT !.used = @ + need]]
        /\ seedUsed' = IF Room(a, need) THEN seedUsed ELSE seedUsed + now.capacity
        /\ issued' = {b \in issued : b.id # id} \cup {new}
        /\ mem' = Written(mem, at, id, had, need)
        /\ seed' = seed
    BY <1>2 DEF Take, Stands, Given
  <2>2. DOMAIN mem' = DOMAIN mem
    BY <2>1 DEF Written
  <2>3. /\ ArenaTypes' /\ NobodysToGive' /\ EachToOne' /\ OneOfANumber'
        /\ new.at \in Nat
        /\ \A b \in issued : \A i \in Int : b.id # id /\ In(b, i) => ~In(new, i)
        /\ \A b \in issued' : \A i \in 0..(b.size - 1) : b.at + i \in DOMAIN mem
    BY <1>2, <2>1, <2>2, BytesTaken
  <2>4. new.at = at /\ new.size = need /\ new.id = id
    BY DEF Given
  <2>5. mem' = Written(mem, at, id, had, need)
    BY <2>1
  <2>6. had # 0 => at = a.base + a.used
    BY DEF Stands
  <2> HIDE DEF at, new
  <2>7. \A x \in DOMAIN mem : mem'[x] = IF x \in (at + had)..(at + need - 1) THEN <<id, x - at>>
                                        ELSE mem[x]
    BY <2>5 DEF Written
  <2>8. at \in Nat /\ need \in Nat /\ had \in Nat /\ had <= need
    BY <2>3, <2>4
  <2>9. Contents(mem, issued)'
    <3> SUFFICES ASSUME NEW b \in issued', NEW i \in 0..(b.size - 1)
                 PROVE  mem'[b.at + i] = <<b.id, i>>
      BY DEF Contents
    <3>1. b.at \in Nat /\ b.size \in Nat /\ i \in Nat /\ i < b.size
      <4>1. b.at \in Nat /\ b.size \in Nat
        BY <2>3 DEF ArenaTypes
      <4> QED BY <4>1
    <3>2. mem'[b.at + i] = IF b.at + i \in (at + had)..(at + need - 1) THEN <<id, (b.at + i) - at>>
                           ELSE mem[b.at + i]
      BY <2>3, <2>7
    <3>3. CASE b = new
      <4>1. b.at = at /\ b.id = id /\ i < need
        BY <2>4, <3>1, <3>3
      <4>2. CASE had <= i
        <5>1. b.at + i \in (at + had)..(at + need - 1) /\ (b.at + i) - at = i
          BY <2>8, <3>1, <4>1, <4>2
        <5> QED BY <3>2, <4>1, <5>1
      <4>3. CASE i < had
        <5>1. had # 0 /\ i \in 0..(had - 1)
          BY <2>8, <3>1, <4>3
        <5>2. mem[at + i] = <<id, i>>
          BY <2>6, <5>1
        <5>3. ~(at + i \in (at + had)..(at + need - 1))
          BY <2>8, <3>1, <4>3
        <5> QED BY <3>2, <4>1, <5>2, <5>3
      <4> QED BY <2>8, <3>1, <4>2, <4>3
    <3>4. CASE b # new
      <4>1. b \in issued /\ b.id # id
        BY <2>1, <3>4
      <4>2. In(b, b.at + i) /\ b.at + i \in Int
        BY <3>1 DEF In
      <4>3. ~In(new, b.at + i)
        BY <2>3, <4>1, <4>2
      <4>4. ~(b.at + i \in (at + had)..(at + need - 1))
        BY <2>4, <2>8, <3>1, <4>3 DEF In
      <4> QED BY <3>2, <4>1, <4>4 DEF ArenaInv, Contents
    <3> QED BY <3>3, <3>4
  <2> QED BY <2>3, <2>9 DEF ArenaInv
<1> QED BY <1>1, <1>2

\* More memory at the end changes nothing of what is there.
LEMMA SeedKeeps ==
  ASSUME ArenaAssumption, ArenaInv, NEW size \in Seeds, Seed(size)
  PROVE  ArenaInv'
<1>1. SeedAt \in Nat /\ size \in Nat /\ seed = 0 /\ seedUsed = 0
  BY DEF ArenaAssumption, SeedAt, Seed, ArenaInv, ArenaTypes
<1>2. /\ seed' = size /\ UNCHANGED <<seedUsed, arena, issued>>
      /\ mem' = [i \in 0..(SeedAt + size - 1) |-> IF i < SeedAt THEN mem[i] ELSE Nobodys]
  BY DEF Seed
<1>3. ArenaTypes'
  BY <1>1, <1>2 DEF ArenaInv, ArenaTypes, SeedAt
<1>4. NobodysToGive' /\ EachToOne' /\ OneOfANumber'
  BY <1>2 DEF ArenaInv, NobodysToGive, EachToOne, OneOfANumber, HandedOver, In, Unused, SeedAt
<1>5. Contents(mem, issued)'
  <2> SUFFICES ASSUME NEW b \in issued, NEW i \in 0..(b.size - 1)
               PROVE  mem'[b.at + i] = <<b.id, i>>
    BY <1>2 DEF Contents
  <2>1. b.at \in Nat /\ b.size \in Nat
    BY DEF ArenaInv, ArenaTypes
  <2>2. In(b, b.at + i) /\ b.at + i \in Int
    BY <2>1 DEF In
  <2>3. 0 <= b.at + i /\ b.at + i < SeedAt
    BY <1>1, <2>2 DEF ArenaInv, EachToOne, HandedOver
  <2>4. b.at + i \in 0..(SeedAt + size - 1)
    BY <1>1, <2>2, <2>3
  <2>5. mem[b.at + i] = <<b.id, i>>
    BY DEF ArenaInv, Contents
  <2> QED BY <1>2, <2>3, <2>4, <2>5
<1> QED BY <1>3, <1>4, <1>5 DEF ArenaInv

\* A new block under the least number that is free.
LEMMA AcquireKeeps ==
  ASSUME ArenaAssumption, ArenaInv, NEW k \in Arenas, NEW size \in Demands, Acquire(k, size)
  PROVE  ArenaInv'
<1> DEFINE id == Min(FreeIds)
           need == IF k = "blocks" THEN size + 1 ELSE size
<1>1. need \in Nat \ {0} /\ MaxOut \in Nat
  BY DEF ArenaAssumption
<1>2. FreeIds \in SUBSET Nat /\ FreeIds \subseteq 1..MaxOut /\ FreeIds # {}
  BY <1>1 DEF FreeIds, Acquire
<1>3. \E j \in FreeIds : \A l \in FreeIds : j <= l
  BY <1>2, LeastExists
<1>4. id \in FreeIds
  BY <1>3 DEF Min
<1>5. arena[k] \in [base : Nat, capacity : Nat, used : Int]
  BY DEF ArenaInv, ArenaTypes
<1>6. id \in 1..MaxOut /\ \A b \in issued : b.id # id
  BY <1>2, <1>4 DEF FreeIds
<1>7. Take(k, arena[k], need, id, 0)
  BY DEF Acquire
<1>8. \A i \in Int : Unused(arena[k], i) =>
         /\ HandedOver(i)
         /\ \A b \in issued : b.id # id => ~In(b, i)
         /\ \A o \in Arenas \ {k} : ~Unused(arena[o], i)
  BY DEF ArenaInv, NobodysToGive
<1> HIDE DEF id, need
<1> QED BY <1>1, <1>5, <1>6, <1>7, <1>8, TakeKeeps

\* The newest block of an arena is what its cursor goes back over.
LEMMA TopIs ==
  ASSUME ArenaInv, NEW b \in issued, IsTop(b), NEW i \in Int
  PROVE  LET a == [arena[b.kind] EXCEPT !.used = @ - b.size]
         IN  /\ a \in [base : Nat, capacity : Nat, used : Int]
             /\ a.base + a.used = b.at
             /\ Unused(a, i) => In(b, i) \/ Unused(arena[b.kind], i)
<1> DEFINE s == arena[b.kind]
           a == [s EXCEPT !.used = @ - b.size]
<1>1. /\ s \in [base : Nat, capacity : Nat, used : Int] /\ b.size \in Nat /\ b.at \in Nat
      /\ s.base + (s.used - b.size) = b.at
  BY DEF ArenaInv, ArenaTypes, IsTop
<1> HIDE DEF s
<1>2. s.base \in Nat /\ s.capacity \in Nat /\ s.used \in Int
  BY <1>1
<1>3. a.base = s.base /\ a.capacity = s.capacity /\ a.used = s.used - b.size
  BY <1>1
<1>4. a \in [base : Nat, capacity : Nat, used : Int]
  BY <1>1, <1>2
<1> HIDE DEF a
<1>5. a.base + a.used = b.at
  BY <1>1, <1>3
<1>6. Unused(a, i) => In(b, i) \/ Unused(s, i)
  BY <1>1, <1>2, <1>3 DEF Unused, In
<1> QED BY <1>4, <1>5, <1>6 DEF a, s

\* The newest block gives its bytes back; another only stops being asked for.
LEMMA GiveBackKeeps ==
  ASSUME ArenaAssumption, ArenaInv, NEW b \in issued, GiveBack(b)
  PROVE  ArenaInv'
<1> DEFINE k == b.kind
           a == [arena[k] EXCEPT !.used = @ - b.size]
<1>1. /\ issued' = issued \ {b} /\ mem' = Kept(mem, issued') /\ seed' = seed /\ seedUsed' = seedUsed
      /\ arena' = IF IsTop(b) THEN [arena EXCEPT ![k] = a] ELSE arena
  BY DEF GiveBack
<1>2. /\ k \in Arenas /\ arena \in [Arenas -> [base : Nat, capacity : Nat, used : Int]]
      /\ \A c \in issued \ {b} : c.id # b.id
  BY DEF ArenaInv, ArenaTypes, OneOfANumber
<1>3. IsTop(b) => a \in [base : Nat, capacity : Nat, used : Int]
  <2>1. 0 \in Int
    OBVIOUS
  <2> QED BY <2>1, TopIs
<1>4. /\ arena' \in [Arenas -> [base : Nat, capacity : Nat, used : Int]]
      /\ \A o \in Arenas : \A i \in Int :
           Unused(arena'[o], i) => Unused(arena[o], i) \/ (o = k /\ In(b, i))
  <2>1. CASE IsTop(b)
    <3>1. \A i \in Int : Unused(a, i) => In(b, i) \/ Unused(arena[k], i)
      BY <2>1, TopIs
    <3> HIDE DEF a
    <3>2. arena' = [arena EXCEPT ![k] = a]
      BY <1>1, <2>1
    <3> HIDE DEF k
    <3> QED BY <1>2, <1>3, <2>1, <3>1, <3>2
  <2>2. CASE ~IsTop(b)
    BY <1>1, <1>2, <2>2
  <2> QED BY <2>1, <2>2
<1>5. ArenaTypes'
  <2>1. DOMAIN mem' = DOMAIN mem
    BY <1>1 DEF Kept
  <2> QED BY <1>1, <1>4, <2>1 DEF ArenaInv, ArenaTypes, SeedAt
<1> HIDE DEF a, k
<1>6. NobodysToGive'
  <2> SUFFICES ASSUME NEW o \in Arenas, NEW i \in Int, Unused(arena'[o], i)
               PROVE  /\ HandedOver(i)
                      /\ \A c \in issued \ {b} : ~In(c, i)
                      /\ \A q \in Arenas \ {o} : ~Unused(arena'[q], i)
    BY <1>1 DEF NobodysToGive, HandedOver, SeedAt, In, Unused
  <2>1. CASE Unused(arena[o], i)
    <3>1. /\ HandedOver(i)
          /\ \A c \in issued : ~In(c, i)
          /\ \A q \in Arenas \ {o} : ~Unused(arena[q], i)
      BY <2>1 DEF ArenaInv, NobodysToGive
    <3> QED BY <1>4, <3>1
  <2>2. CASE o = k /\ In(b, i)
    <3>1. HandedOver(i) /\ \A c \in issued \ {b} : ~In(c, i)
      BY <1>2, <2>2 DEF ArenaInv, EachToOne
    <3>2. \A q \in Arenas : ~Unused(arena[q], i)
      BY <2>2 DEF ArenaInv, NobodysToGive
    <3> QED BY <1>4, <2>2, <3>1, <3>2
  <2> QED BY <1>4, <2>1, <2>2
<1>7. EachToOne' /\ OneOfANumber'
  BY <1>1 DEF ArenaInv, EachToOne, OneOfANumber, HandedOver, SeedAt, In
<1>8. Contents(mem, issued)'
  <2> SUFFICES ASSUME NEW c \in issued', NEW i \in 0..(c.size - 1)
               PROVE  mem'[c.at + i] = <<c.id, i>>
    BY DEF Contents
  <2>1. c \in issued /\ c.at + i \in DOMAIN mem
    BY <1>1, ArenaInvHolds DEF BlocksKeepContents
  <2>2. c.at \in Nat /\ c.size \in Nat
    BY <2>1 DEF ArenaInv, ArenaTypes
  <2>3. c.at + i \in Span(c)
    BY <2>2 DEF Span
  <2>4. \A x \in DOMAIN mem : (\E q \in issued' : x \in Span(q)) => mem'[x] = mem[x]
    BY <1>1 DEF Kept
  <2>5. mem'[c.at + i] = mem[c.at + i]
    BY <2>1, <2>3, <2>4
  <2> QED BY <2>1, <2>5 DEF ArenaInv, Contents
<1> QED BY <1>5, <1>6, <1>7, <1>8 DEF ArenaInv

\* A registry that is its arena's newest block grows where it stands.
LEMMA ResizeTopKeeps ==
  ASSUME ArenaAssumption, MovesTop = FALSE, ArenaInv,
         NEW b \in issued, NEW size \in Demands, ResizeTop(b, size)
  PROVE  ArenaInv'
<1> DEFINE k == b.kind
           a == [arena[k] EXCEPT !.used = @ - b.size]
<1>1. IsTop(b) /\ size > b.size /\ Room(a, size) /\ Take(k, a, size, b.id, b.size)
  BY DEF ResizeTop
<1>2. /\ k \in Arenas /\ b.size \in Nat \ {0} /\ b.id \in 1..MaxOut /\ b.at \in Nat
      /\ \A c \in issued : c.id # b.id => c # b
  BY DEF ArenaInv, ArenaTypes
<1>3. size \in Nat \ {0} /\ b.size \in 0..size
  BY <1>1, <1>2 DEF ArenaAssumption
<1>4. /\ a \in [base : Nat, capacity : Nat, used : Int]
      /\ a.base + a.used = b.at
      /\ \A i \in Int : Unused(a, i) => In(b, i) \/ Unused(arena[k], i)
  <2>1. 0 \in Int
    OBVIOUS
  <2> QED BY <1>1, <2>1, TopIs
<1> HIDE DEF a
<1>5. \A i \in Int : Unused(a, i) =>
         /\ HandedOver(i)
         /\ \A c \in issued : c.id # b.id => ~In(c, i)
         /\ \A o \in Arenas \ {k} : ~Unused(arena[o], i)
  <2> SUFFICES ASSUME NEW i \in Int, Unused(a, i)
               PROVE  /\ HandedOver(i)
                      /\ \A c \in issued : c.id # b.id => ~In(c, i)
                      /\ \A o \in Arenas \ {k} : ~Unused(arena[o], i)
    OBVIOUS
  <2>1. CASE In(b, i)
    BY <2>1 DEF ArenaInv, EachToOne, NobodysToGive
  <2>2. CASE Unused(arena[k], i)
    BY <1>2, <2>2 DEF ArenaInv, NobodysToGive
  <2> QED BY <1>4, <2>1, <2>2
<1>6. \A i \in 0..(b.size - 1) : mem[a.base + a.used + i] = <<b.id, i>>
  <2>1. \A i \in 0..(b.size - 1) : mem[b.at + i] = <<b.id, i>>
    BY DEF ArenaInv, Contents
  <2>2. a.base \in Int /\ a.used \in Int
    BY <1>4
  <2>3. \A i \in 0..(b.size - 1) : a.base + a.used + i = b.at + i
    BY <1>2, <1>4, <2>2
  <2> QED BY <2>1, <2>3
<1> HIDE DEF k
<1> QED BY <1>1, <1>2, <1>3, <1>4, <1>5, <1>6, TakeKeeps

\* A registry that is not the newest is copied into a fresh block.
LEMMA ResizeCopyKeeps ==
  ASSUME ArenaAssumption, ArenaInv, NEW b \in issued, NEW size \in Demands, ResizeCopy(b, size)
  PROVE  ArenaInv'
<1> DEFINE k == b.kind
           a == arena[k]
           now == Stands(a, size)
           at == now.base + now.used
           new == Given(k, a, size, b.id)
           copied == Copied(b, at)
           written == Written(copied, at, b.id, b.size, size)
<1>1. /\ k \in Arenas /\ b.size \in Nat \ {0} /\ b.id \in 1..MaxOut /\ b.at \in Nat
      /\ a \in [base : Nat, capacity : Nat, used : Int]
      /\ b \in [kind : Arenas, at : Nat, size : Nat \ {0}, id : 1..MaxOut]
      /\ \A c \in issued : c.id = b.id => c = b
  BY DEF ArenaInv, ArenaTypes, OneOfANumber
<1>2. size \in Nat \ {0} /\ size > b.size
  BY DEF ArenaAssumption, ResizeCopy
<1>3. /\ Room(a, size) \/ Pieces(a, size) # {}
      /\ arena' = [arena EXCEPT ![k] = [now EXCEPT !.used = @ + size]]
      /\ seedUsed' = IF Room(a, size) THEN seedUsed ELSE seedUsed + now.capacity
      /\ issued' = (issued \ {b}) \cup {[b EXCEPT !.at = at, !.size = size]}
      /\ mem' = Kept(written, issued')
      /\ seed' = seed
  BY DEF ResizeCopy, Stands
<1>4. [b EXCEPT !.at = at, !.size = size] = new
  <2> HIDE DEF at
  <2> DEFINE moved == [b EXCEPT !.at = at, !.size = size]
  <2>1. b = [kind |-> b.kind, at |-> b.at, size |-> b.size, id |-> b.id]
    BY <1>1
  <2>2. /\ DOMAIN moved = DOMAIN b /\ DOMAIN b = {"kind", "at", "size", "id"}
        /\ moved.kind = b.kind /\ moved.at = at /\ moved.size = size /\ moved.id = b.id
    BY <2>1
  <2>3. moved = [x \in DOMAIN moved |-> moved[x]]
    OBVIOUS
  <2> HIDE DEF moved
  <2>4. moved = [kind |-> b.kind, at |-> at, size |-> size, id |-> b.id]
    BY <2>2, <2>3
  <2> QED BY <2>4 DEF Given, at, moved
<1>5. issued \ {b} = {c \in issued : c.id # b.id}
  BY <1>1
<1>6. issued' = {c \in issued : c.id # b.id} \cup {new}
  BY <1>3, <1>4, <1>5
<1> HIDE DEF copied, written
<1>7. DOMAIN copied = DOMAIN mem /\ DOMAIN written = DOMAIN mem /\ DOMAIN mem' = DOMAIN mem
  BY <1>3 DEF copied, written, Copied, Written, Kept
<1>8. \A i \in Int : Unused(a, i) =>
         /\ HandedOver(i)
         /\ \A c \in issued : c.id # b.id => ~In(c, i)
         /\ \A o \in Arenas \ {k} : ~Unused(arena[o], i)
  BY <1>1 DEF ArenaInv, NobodysToGive
<1>9. /\ ArenaTypes' /\ NobodysToGive' /\ EachToOne' /\ OneOfANumber'
      /\ new.at \in Nat
      /\ \A c \in issued : \A i \in Int : c.id # b.id /\ In(c, i) => ~In(new, i)
      /\ \A c \in issued' : \A i \in 0..(c.size - 1) : c.at + i \in DOMAIN mem
  <2> HIDE DEF k, a
  <2>1. now = Stands(a, size) /\ new = Given(k, a, size, b.id)
    BY DEF a, k
  <2>2. a = arena[k]
    BY DEF a
  <2> QED BY <1>1, <1>2, <1>3, <1>6, <1>7, <1>8, <2>1, <2>2, BytesTaken, ZenonT(60)
<1>10. new.at = at /\ new.size = size /\ new.id = b.id
  BY DEF Given
<1>11. new \in issued'
  BY <1>6
<1> HIDE DEF at, new
<1>12. \A x \in DOMAIN mem : copied[x] = IF x \in at..(at + b.size - 1) THEN mem[b.at + (x - at)] ELSE mem[x]
  BY DEF copied, Copied
<1>13. \A x \in DOMAIN mem : written[x] = IF x \in (at + b.size)..(at + size - 1) THEN <<b.id, x - at>>
                                         ELSE copied[x]
  BY <1>7 DEF written, Written
<1>14. at \in Nat /\ size \in Nat /\ b.size \in Nat /\ b.size < size /\ b.at \in Nat
  BY <1>1, <1>2, <1>9, <1>10
<1>15. Contents(mem, issued)'
  <2> SUFFICES ASSUME NEW c \in issued', NEW i \in 0..(c.size - 1)
               PROVE  mem'[c.at + i] = <<c.id, i>>
    BY DEF Contents
  <2>1. c.at \in Nat /\ c.size \in Nat /\ i \in Nat /\ i < c.size
    <3>1. c.at \in Nat /\ c.size \in Nat
      BY <1>9 DEF ArenaTypes
    <3> QED BY <3>1
  <2>2. c.at + i \in DOMAIN mem
    BY <1>9
  <2>3. mem'[c.at + i] = written[c.at + i]
    <3>1. c.at + i \in Span(c)
      BY <2>1 DEF Span
    <3>2. \A x \in DOMAIN mem : (\E q \in issued' : x \in Span(q)) => mem'[x] = written[x]
      BY <1>3, <1>7 DEF Kept
    <3> QED BY <2>2, <3>1, <3>2
  <2>4. /\ written[c.at + i] = IF c.at + i \in (at + b.size)..(at + size - 1)
                               THEN <<b.id, (c.at + i) - at>> ELSE copied[c.at + i]
        /\ copied[c.at + i] = IF c.at + i \in at..(at + b.size - 1)
                              THEN mem[b.at + ((c.at + i) - at)] ELSE mem[c.at + i]
    BY <1>12, <1>13, <2>2
  <2>5. CASE c = new
    <3>1. c.at = at /\ c.id = b.id /\ i < size /\ (at + i) - at = i
      BY <1>10, <1>14, <2>1, <2>5
    <3>2. CASE b.size <= i
      <4>1. at + i \in (at + b.size)..(at + size - 1)
        BY <1>14, <2>1, <3>1, <3>2
      <4> QED BY <2>3, <2>4, <3>1, <4>1
    <3>3. CASE i < b.size
      <4>1. at + i \notin (at + b.size)..(at + size - 1) /\ at + i \in at..(at + b.size - 1)
        BY <1>14, <2>1, <3>3
      <4>2. i \in 0..(b.size - 1)
        BY <1>14, <2>1, <3>3
      <4>3. mem[b.at + i] = <<b.id, i>>
        BY <4>2 DEF ArenaInv, Contents
      <4>4. mem[b.at + ((c.at + i) - at)] = <<b.id, i>>
        BY <3>1, <4>3
      <4> QED BY <2>3, <2>4, <3>1, <4>1, <4>4
    <3> QED BY <1>14, <2>1, <3>2, <3>3
  <2>6. CASE c # new
    <3>1. c \in issued /\ c.id # b.id
      BY <1>6, <2>6
    <3>2. In(c, c.at + i) /\ c.at + i \in Int
      BY <2>1 DEF In
    <3>3. ~In(new, c.at + i)
      BY <1>9, <3>1, <3>2
    <3>4. c.at + i \notin (at + b.size)..(at + size - 1) /\ c.at + i \notin at..(at + b.size - 1)
      BY <1>10, <1>14, <2>1, <3>3 DEF In
    <3>5. mem[c.at + i] = <<c.id, i>>
      BY <3>1 DEF ArenaInv, Contents
    <3> QED BY <2>3, <2>4, <3>4, <3>5
  <2> QED BY <2>5, <2>6
<1> QED BY <1>9, <1>15 DEF ArenaInv

\* Every step of the arenas.
LEMMA ArenaStepKeeps ==
  ASSUME ArenaAssumption, MovesTop = FALSE, ArenaInv, [ArenaNext]_arenaVars
  PROVE  ArenaInv'
<1>1. CASE ArenaNext
  BY <1>1, SeedKeeps, AcquireKeeps, GiveBackKeeps, ResizeTopKeeps, ResizeCopyKeeps DEF ArenaNext, Resize
<1>2. CASE UNCHANGED arenaVars
  BY <1>2 DEF arenaVars, ArenaInv, ArenaTypes, NobodysToGive, EachToOne, OneOfANumber, Contents,
              HandedOver, In, Unused
<1> QED BY <1>1, <1>2

\* No two blocks of the arenas share a byte, and each holds what its owner wrote,
\* in every execution, for any arrays and sizes, when the newest block is resized
\* only where its arena has room.
THEOREM BlocksKeepWhatTheyHold ==
  ASSUME ArenaAssumption, MovesTop = FALSE
  PROVE  ArenaSpec => [](ArenaTypeOK /\ BlocksKeepContents)
<1>1. ArenaInit => ArenaInv
  BY ArenaStarts
<1>2. ArenaInv /\ [ArenaNext]_arenaVars => ArenaInv'
  BY ArenaStepKeeps
<1>3. ArenaInv => ArenaTypeOK /\ BlocksKeepContents
  BY ArenaInvHolds
<1> QED BY <1>1, <1>2, <1>3, PTL DEF ArenaSpec
=============================================================================
