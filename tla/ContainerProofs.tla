--------------------------- MODULE ContainerProofs ---------------------------
(* Theorems about four containers: the channel, for any finite sets of     *)
(* threads, any set of values and any requested capacity; the deque, for   *)
(* any items and however often it grows; the slot map, for any things and  *)
(* any numbers of slots and generations; and the cache of the recently     *)
(* used, for any keys and values and any capacity but none.  What they     *)
(* have in common is that what is taken out is what was put in.            *)
EXTENDS Channel, Deque, SlotMap, LruCache, FiniteSetTheorems, SequenceTheorems,
        WellFoundedInduction, TLAPS

-----------------------------------------------------------------------------
(* The channel.                                                            *)

USE DEF SenderPc, ReceiverPc

LEMMA CapPos == Cap \in Nat /\ Cap >= 1
BY ChannelAssumption DEF Cap

(* The ring's indices stay in the ring and `tail` stays `count` past head. *)
LEMMA WrapStays ==
  ASSUME NEW i \in 0..(Cap - 1)
  PROVE  Wrap(i) \in 0..(Cap - 1)
BY CapPos DEF Wrap

LEMMA RingPut ==
  ASSUME NEW h \in 0..(Cap - 1), NEW n \in 0..Cap
  PROVE  Wrap((h + n) % Cap) = (h + n + 1) % Cap
<1>1. CASE h + n < Cap
  BY <1>1, CapPos DEF Wrap
<1>2. CASE h + n >= Cap
  <2>1. (h + n) % Cap = h + n - Cap
    BY <1>2, CapPos
  <2>. QED
    BY <1>2, <2>1, CapPos DEF Wrap
<1>. QED
  BY <1>1, <1>2, CapPos

LEMMA RingTake ==
  ASSUME NEW h \in 0..(Cap - 1), NEW n \in 1..Cap
  PROVE  (Wrap(h) + (n - 1)) % Cap = (h + n) % Cap
BY CapPos DEF Wrap
-----------------------------------------------------------------------------
(* A wake moves one sleeper and the waker; nobody else.                    *)
LEMMA WakeOneType ==
  ASSUME TypeOK, NEW t \in Threads, NEW place, NEW retry,
         WakeOne(t, place, retry),
         \/ place = "empty" /\ retry = "receive"
         \/ place = "full" /\ retry = "send"
  PROVE  /\ pc' \in [Threads -> SenderPc \cup ReceiverPc]
         /\ \A s \in Senders : /\ pc'[s] \in SenderPc
                               /\ pc'[s] # "idle" => pc[s] # "idle"
         /\ \A r \in Receivers : pc'[r] \in ReceiverPc
BY ChannelAssumption DEF WakeOne, TypeOK, Goto, At, Threads

LEMMA SenderStepType ==
  ASSUME TypeOK, NEW s \in Senders, SenderStep(s)
  PROVE  TypeOK'
<1>. s \in Threads
  BY DEF Threads
<1>1. CASE SendBlocks(s)
  BY <1>1, ChannelAssumption DEF SendBlocks, TypeOK, Goto, Threads
<1>2. CASE SendPuts(s)
  <2>1. count' \in 0..Cap
    BY <1>2, CapPos DEF SendPuts, TypeOK
  <2>2. tail \in 0..(Cap - 1)
    BY CapPos DEF TypeOK
  <2>3. tail' = (head + count') % Cap
    BY <1>2, <2>1, RingPut DEF SendPuts, TypeOK
  <2>. QED
    BY <1>2, <2>1, <2>2, <2>3, ChannelAssumption DEF SendPuts, TypeOK, Goto, Threads
<1>3. CASE SendWakes(s)
  BY <1>3, WakeOneType DEF SendWakes, TypeOK
<1>. QED
  BY <1>1, <1>2, <1>3 DEF SenderStep

LEMMA ReceiverStepType ==
  ASSUME TypeOK, NEW r \in Receivers, ReceiverStep(r)
  PROVE  TypeOK'
<1>. r \in Threads
  BY DEF Threads
<1>1. CASE ReceiveBlocks(r)
  BY <1>1, ChannelAssumption DEF ReceiveBlocks, TypeOK, Goto, Threads
<1>2. CASE TryMisses(r)
  BY <1>2, ChannelAssumption DEF TryMisses, TypeOK, Goto, Threads
<1>3. CASE Takes(r)
  <2>1. count \in 1..Cap /\ count' = count - 1
    BY <1>3, CapPos DEF Takes, TypeOK
  <2>2. tail' = (head' + count') % Cap
    BY <1>3, <2>1, RingTake DEF Takes, TypeOK
  <2>3. head' \in 0..(Cap - 1)
    BY <1>3, WrapStays DEF Takes, TypeOK
  <2>4. got' \in [Receivers -> Values \cup {None}]
    BY <1>3 DEF Takes, TypeOK
  <2>5. pc' = [pc EXCEPT ![r] = "wakeFull"] /\ UNCHANGED <<buf, arg>>
    BY <1>3 DEF Takes, Goto
  <2>6. count' \in 0..Cap
    BY <2>1, CapPos
  <2>. QED
    BY <2>2, <2>3, <2>4, <2>5, <2>6, ChannelAssumption DEF TypeOK, Threads
<1>4. CASE ReceiveWakes(r)
  BY <1>4, WakeOneType DEF ReceiveWakes, TypeOK
<1>. QED
  BY <1>1, <1>2, <1>3, <1>4 DEF ReceiverStep

(* The channel's struct never leaves its shape: the indices stay in the    *)
(* ring, `count` between 0 and `cap`, and `tail` is `count` past `head`.   *)
THEOREM TypeCorrect == Spec => []TypeOK
<1>1. Init => TypeOK
  <2>. SUFFICES ASSUME Init PROVE TypeOK
    OBVIOUS
  <2>1. tail = (head + count) % Cap
    BY CapPos DEF Init
  <2>. QED
    BY <2>1, CapPos DEF Init, TypeOK, Threads
<1>2. TypeOK /\ [Next]_vars => TypeOK'
  <2>. SUFFICES ASSUME TypeOK, [Next]_vars PROVE TypeOK'
    OBVIOUS
  <2>1. ASSUME NEW s \in Senders, SenderStep(s) PROVE TypeOK'
    BY <2>1, SenderStepType
  <2>2. ASSUME NEW s \in Senders, NEW v \in Values, Send(s, v) PROVE TypeOK'
    BY <2>2, ChannelAssumption DEF Send, TypeOK, Goto, Threads
  <2>3. ASSUME NEW r \in Receivers, ReceiverStep(r) PROVE TypeOK'
    BY <2>3, ReceiverStepType
  <2>4. ASSUME NEW r \in Receivers, Receive(r) \/ TryReceive(r) PROVE TypeOK'
    BY <2>4, ChannelAssumption DEF Receive, TryReceive, TypeOK, Goto, Threads
  <2>5. ASSUME NEW t \in Threads, SpuriousWake(t) PROVE TypeOK'
    BY <2>5, ChannelAssumption DEF SpuriousWake, TypeOK, Goto, Threads
  <2>6. CASE UNCHANGED vars
    BY <2>6 DEF vars, TypeOK
  <2>. QED
    BY <2>1, <2>2, <2>3, <2>4, <2>5, <2>6 DEF Next
<1>. QED
  BY <1>1, <1>2, PTL DEF Spec
-----------------------------------------------------------------------------
(* The threads that are awake for a value, and the wakes still owed.       *)
Awake == At("receive") \cup At("try")
Owed == At("wakeEmpty")

LEMMA ThreadsCount ==
  ASSUME NEW S \in SUBSET Threads
  PROVE  IsFiniteSet(S) /\ Cardinality(S) \in Nat
<1>1. IsFiniteSet(Threads)
  BY ChannelAssumption, FS_Union DEF Threads
<1>. QED
  BY <1>1, FS_Subset, FS_CardinalityType

LEMMA PlacesFinite ==
  /\ IsFiniteSet(Awake) /\ Cardinality(Awake) \in Nat
  /\ IsFiniteSet(Owed) /\ Cardinality(Owed) \in Nat
  /\ Cardinality(Awake') \in Nat /\ Cardinality(Owed') \in Nat
<1>1. Awake \in SUBSET Threads /\ Owed \in SUBSET Threads
  BY DEF Awake, Owed, At
<1>2. Awake' \in SUBSET Threads /\ Owed' \in SUBSET Threads
  BY DEF Awake, Owed, At
<1>. QED
  BY <1>1, <1>2, ThreadsCount

(* The only ways the three numbers change: a put owes one wake more, a     *)
(* wake turns one owed into one awake, a take uses one awake.              *)
LEMMA Covers ==
  ASSUME TypeOK, WakesCoverValues,
         At("empty")' \subseteq At("empty"),
         NEW x, NEW y,
         \/ count' = count /\ Awake' = Awake /\ Owed' = Owed
         \/ count' = count /\ Awake' = Awake \cup {x} /\ Owed' = Owed
         \/ /\ count' = count + 1 /\ Awake' = Awake
            /\ x \notin Owed /\ Owed' = Owed \cup {x}
         \/ /\ count' = count /\ Owed' = Owed \ {x}
            /\ y \notin Awake /\ Awake' = Awake \cup {y}
         \/ count' = count - 1 /\ Awake' = Awake \ {x} /\ Owed' = Owed
  PROVE  WakesCoverValues'
<1>. DEFINE a == Cardinality(Awake)
            o == Cardinality(Owed)
            aa == Cardinality(Awake')
            oo == Cardinality(Owed')
<1>1. a \in Nat /\ o \in Nat /\ aa \in Nat /\ oo \in Nat /\ count \in Nat
  BY PlacesFinite, CapPos DEF TypeOK
<1>2. At("empty")' # {} => count <= a + o
  <2>1. At("empty")' # {} => At("empty") # {}
    OBVIOUS
  <2>2. At("empty") # {} => count <= o + a
    BY DEF WakesCoverValues, Awake, Owed
  <2>. QED
    BY <1>1, <2>1, <2>2
<1>3. \A z : /\ Cardinality(Awake \cup {z}) = (IF z \in Awake THEN a ELSE a + 1)
            /\ Cardinality(Owed \cup {z}) = (IF z \in Owed THEN o ELSE o + 1)
            /\ Cardinality(Awake \ {z}) = (IF z \in Awake THEN a - 1 ELSE a)
            /\ Cardinality(Owed \ {z}) = (IF z \in Owed THEN o - 1 ELSE o)
  <2>. TAKE z
  <2>1. Cardinality(Awake \cup {z}) = (IF z \in Awake THEN a ELSE a + 1)
    BY PlacesFinite, FS_AddElement
  <2>2. Cardinality(Owed \cup {z}) = (IF z \in Owed THEN o ELSE o + 1)
    BY PlacesFinite, FS_AddElement
  <2>3. Cardinality(Awake \ {z}) = (IF z \in Awake THEN a - 1 ELSE a)
    BY PlacesFinite, FS_RemoveElement
  <2>4. Cardinality(Owed \ {z}) = (IF z \in Owed THEN o - 1 ELSE o)
    BY PlacesFinite, FS_RemoveElement
  <2>. QED
    BY <2>1, <2>2, <2>3, <2>4
<1>4. \/ count' = count /\ aa >= a /\ oo = o
      \/ count' = count + 1 /\ aa = a /\ oo = o + 1
      \/ count' = count /\ aa = a + 1 /\ oo >= o - 1
      \/ count' = count - 1 /\ aa >= a - 1 /\ oo = o
  BY <1>1, <1>3
<1>5. At("empty")' # {} => count' <= oo + aa
  <2>. HIDE DEF a, o, aa, oo
  <2>. QED
    BY <1>1, <1>2, <1>4
<1>. QED
  BY <1>5 DEF WakesCoverValues, Awake, Owed

LEMMA SenderStepCovers ==
  ASSUME TypeOK, WakesCoverValues, NEW s \in Senders, SenderStep(s)
  PROVE  WakesCoverValues'
<1>. s \in Threads
  BY DEF Threads
<1>. USE ChannelAssumption DEF At, Awake, Owed
<1>1. CASE SendBlocks(s)
  <2>1. count' = count /\ Awake' = Awake /\ Owed' = Owed
    BY <1>1 DEF SendBlocks, TypeOK, Goto, Threads
  <2>2. At("empty")' = At("empty")
    BY <1>1 DEF SendBlocks, TypeOK, Goto, Threads
  <2>. QED
    BY <2>1, <2>2, Covers
<1>2. CASE SendPuts(s)
  <2>1. /\ count' = count + 1 /\ Awake' = Awake
        /\ s \notin Owed /\ Owed' = Owed \cup {s}
    BY <1>2 DEF SendPuts, TypeOK, Goto, Threads
  <2>2. At("empty")' = At("empty")
    BY <1>2 DEF SendPuts, TypeOK, Goto, Threads
  <2>. QED
    BY <2>1, <2>2, Covers
<1>3. CASE SendWakes(s)
  <2>1. CASE At("empty") = {}
    <3>1. At("empty")' = {}
      BY <1>3, <2>1 DEF SendWakes, WakeOne, Goto, TypeOK, Threads
    <3>. QED
      BY <3>1 DEF WakesCoverValues
  <2>2. ASSUME NEW u \in At("empty"),
               pc' = [pc EXCEPT ![s] = "idle", ![u] = "receive"]
        PROVE  WakesCoverValues'
    <3>1. /\ count' = count /\ Owed' = Owed \ {s}
          /\ u \notin Awake /\ Awake' = Awake \cup {u}
      BY <1>3, <2>2 DEF SendWakes, TypeOK, Threads
    <3>2. At("empty")' \subseteq At("empty")
      BY <1>3, <2>2 DEF SendWakes, TypeOK, Threads
    <3>. QED
      BY <3>1, <3>2, Covers
  <2>. QED
    BY <1>3, <2>1, <2>2 DEF SendWakes, WakeOne
<1>. QED
  BY <1>1, <1>2, <1>3 DEF SenderStep

LEMMA NoneLeft ==
  ASSUME count' = 0
  PROVE  WakesCoverValues'
<1>1. \A m, n \in Nat : 0 <= m + n
  OBVIOUS
<1>. QED
  BY <1>1, PlacesFinite DEF WakesCoverValues, Awake, Owed

LEMMA ReceiverStepCovers ==
  ASSUME TypeOK, WakesCoverValues, NEW r \in Receivers, ReceiverStep(r)
  PROVE  WakesCoverValues'
<1>. r \in Threads
  BY DEF Threads
<1>. USE ChannelAssumption DEF At, Awake, Owed
<1>1. CASE ReceiveBlocks(r) \/ TryMisses(r)
  BY <1>1, NoneLeft DEF ReceiveBlocks, TryMisses
<1>2. CASE Takes(r)
  <2>1. count' = count - 1 /\ Awake' = Awake \ {r} /\ Owed' = Owed
    BY <1>2 DEF Takes, TypeOK, Goto, Threads
  <2>2. At("empty")' = At("empty")
    BY <1>2 DEF Takes, TypeOK, Goto, Threads
  <2>. QED
    BY <2>1, <2>2, Covers
<1>3. CASE ReceiveWakes(r)
  <2>1. count' = count /\ Awake' = Awake /\ Owed' = Owed
    BY <1>3 DEF ReceiveWakes, WakeOne, TypeOK, Goto, Threads
  <2>2. At("empty")' = At("empty")
    BY <1>3 DEF ReceiveWakes, WakeOne, TypeOK, Goto, Threads
  <2>. QED
    BY <2>1, <2>2, Covers
<1>. QED
  BY <1>1, <1>2, <1>3 DEF ReceiverStep

(* However many threads share the channel, a value is never left in it     *)
(* with a receiver asleep, nobody awake for it and no wake on its way.     *)
THEOREM ValuesCovered == Spec => []WakesCoverValues
<1>. USE DEF At, Awake, Owed
<1>1. Init => WakesCoverValues
  BY DEF Init, WakesCoverValues
<1>2. TypeOK /\ WakesCoverValues /\ [Next]_vars => WakesCoverValues'
  <2>. SUFFICES ASSUME TypeOK, WakesCoverValues, [Next]_vars
                PROVE  WakesCoverValues'
    OBVIOUS
  <2>1. ASSUME NEW s \in Senders, SenderStep(s) PROVE WakesCoverValues'
    BY <2>1, SenderStepCovers
  <2>2. ASSUME NEW s \in Senders, NEW v \in Values, Send(s, v)
        PROVE  WakesCoverValues'
    <3>1. /\ count' = count /\ Awake' = Awake /\ Owed' = Owed
          /\ At("empty")' = At("empty")
      BY <2>2 DEF Send, TypeOK, Goto, Threads
    <3>. QED
      BY <3>1, Covers
  <2>3. ASSUME NEW r \in Receivers, ReceiverStep(r) PROVE WakesCoverValues'
    BY <2>3, ReceiverStepCovers
  <2>4. ASSUME NEW r \in Receivers, Receive(r) \/ TryReceive(r)
        PROVE  WakesCoverValues'
    <3>1. /\ count' = count /\ Awake' = Awake \cup {r} /\ Owed' = Owed
          /\ At("empty")' = At("empty")
      BY <2>4 DEF Receive, TryReceive, TypeOK, Goto, Threads
    <3>. QED
      BY <3>1, Covers
  <2>5. ASSUME NEW t \in Threads, SpuriousWake(t) PROVE WakesCoverValues'
    <3>1. /\ count' = count /\ Owed' = Owed
          /\ Awake' = Awake \/ Awake' = Awake \cup {t}
          /\ At("empty")' \subseteq At("empty")
      BY <2>5 DEF SpuriousWake, TypeOK, Goto
    <3>. QED
      BY <3>1, Covers
  <2>6. CASE UNCHANGED vars
    BY <2>6 DEF vars, WakesCoverValues
  <2>. QED
    BY <2>1, <2>2, <2>3, <2>4, <2>5, <2>6 DEF Next
<1>. QED
  BY <1>1, <1>2, TypeCorrect, PTL DEF Spec
-----------------------------------------------------------------------------
(* The other side of the channel: the senders awake for a free slot, and   *)
(* the wakes owed to them.                                                 *)
Sending == At("send")
RoomOwed == At("wakeFull")

LEMMA RoomPlacesFinite ==
  /\ IsFiniteSet(Sending) /\ Cardinality(Sending) \in Nat
  /\ IsFiniteSet(RoomOwed) /\ Cardinality(RoomOwed) \in Nat
  /\ Cardinality(Sending') \in Nat /\ Cardinality(RoomOwed') \in Nat
<1>1. Sending \in SUBSET Threads /\ RoomOwed \in SUBSET Threads
  BY DEF Sending, RoomOwed, At
<1>2. Sending' \in SUBSET Threads /\ RoomOwed' \in SUBSET Threads
  BY DEF Sending, RoomOwed, At
<1>. QED
  BY <1>1, <1>2, ThreadsCount

(* A take owes one wake more, a wake turns one owed into one awake, a put  *)
(* uses one awake.                                                         *)
LEMMA RoomCovers ==
  ASSUME TypeOK, WakesCoverRoom,
         At("full")' \subseteq At("full"),
         NEW x, NEW y,
         \/ count' = count /\ Sending' = Sending /\ RoomOwed' = RoomOwed
         \/ count' = count /\ Sending' = Sending \cup {x} /\ RoomOwed' = RoomOwed
         \/ /\ count' = count - 1 /\ Sending' = Sending
            /\ x \notin RoomOwed /\ RoomOwed' = RoomOwed \cup {x}
         \/ /\ count' = count /\ RoomOwed' = RoomOwed \ {x}
            /\ y \notin Sending /\ Sending' = Sending \cup {y}
         \/ count' = count + 1 /\ Sending' = Sending \ {x} /\ RoomOwed' = RoomOwed
  PROVE  WakesCoverRoom'
<1>. DEFINE a == Cardinality(Sending)
            o == Cardinality(RoomOwed)
            aa == Cardinality(Sending')
            oo == Cardinality(RoomOwed')
<1>1. /\ a \in Nat /\ o \in Nat /\ aa \in Nat /\ oo \in Nat
      /\ count \in Nat /\ Cap \in Nat
  BY RoomPlacesFinite, CapPos DEF TypeOK
<1>2. At("full")' # {} => Cap - count <= o + a
  <2>1. At("full")' # {} => At("full") # {}
    OBVIOUS
  <2>2. At("full") # {} => Cap - count <= o + a
    BY DEF WakesCoverRoom, Sending, RoomOwed
  <2>. QED
    BY <2>1, <2>2
<1>3. \A z : /\ Cardinality(Sending \cup {z}) = (IF z \in Sending THEN a ELSE a + 1)
            /\ Cardinality(RoomOwed \cup {z}) = (IF z \in RoomOwed THEN o ELSE o + 1)
            /\ Cardinality(Sending \ {z}) = (IF z \in Sending THEN a - 1 ELSE a)
            /\ Cardinality(RoomOwed \ {z}) = (IF z \in RoomOwed THEN o - 1 ELSE o)
  <2>. TAKE z
  <2>1. Cardinality(Sending \cup {z}) = (IF z \in Sending THEN a ELSE a + 1)
    BY RoomPlacesFinite, FS_AddElement
  <2>2. Cardinality(RoomOwed \cup {z}) = (IF z \in RoomOwed THEN o ELSE o + 1)
    BY RoomPlacesFinite, FS_AddElement
  <2>3. Cardinality(Sending \ {z}) = (IF z \in Sending THEN a - 1 ELSE a)
    BY RoomPlacesFinite, FS_RemoveElement
  <2>4. Cardinality(RoomOwed \ {z}) = (IF z \in RoomOwed THEN o - 1 ELSE o)
    BY RoomPlacesFinite, FS_RemoveElement
  <2>. QED
    BY <2>1, <2>2, <2>3, <2>4
<1>4. \/ count' = count /\ aa >= a /\ oo = o
      \/ count' = count - 1 /\ aa = a /\ oo = o + 1
      \/ count' = count /\ aa = a + 1 /\ oo >= o - 1
      \/ count' = count + 1 /\ aa >= a - 1 /\ oo = o
  BY <1>1, <1>3
<1>5. At("full")' # {} => Cap - count' <= oo + aa
  <2>. HIDE DEF a, o, aa, oo
  <2>. QED
    BY <1>1, <1>2, <1>4
<1>6. Cap' = Cap
  BY DEF Cap
<1>. QED
  BY <1>5, <1>6 DEF WakesCoverRoom, Sending, RoomOwed

LEMMA RoomGone ==
  ASSUME count' = Cap
  PROVE  WakesCoverRoom'
<1>1. \A m, n \in Nat : 0 <= m + n
  OBVIOUS
<1>2. Cap' - count' = 0
  BY CapPos DEF Cap
<1>. QED
  BY <1>1, <1>2, RoomPlacesFinite DEF WakesCoverRoom, Sending, RoomOwed

LEMMA SenderStepCoversRoom ==
  ASSUME TypeOK, WakesCoverRoom, NEW s \in Senders, SenderStep(s)
  PROVE  WakesCoverRoom'
<1>. s \in Threads
  BY DEF Threads
<1>. USE ChannelAssumption DEF At, Sending, RoomOwed
<1>1. CASE SendBlocks(s)
  BY <1>1, RoomGone DEF SendBlocks
<1>2. CASE SendPuts(s)
  <2>1. count' = count + 1 /\ Sending' = Sending \ {s} /\ RoomOwed' = RoomOwed
    BY <1>2 DEF SendPuts, TypeOK, Goto, Threads
  <2>2. At("full")' = At("full")
    BY <1>2 DEF SendPuts, TypeOK, Goto, Threads
  <2>. QED
    BY <2>1, <2>2, RoomCovers
<1>3. CASE SendWakes(s)
  <2>1. count' = count /\ Sending' = Sending /\ RoomOwed' = RoomOwed
    BY <1>3 DEF SendWakes, WakeOne, TypeOK, Goto, Threads
  <2>2. At("full")' = At("full")
    BY <1>3 DEF SendWakes, WakeOne, TypeOK, Goto, Threads
  <2>. QED
    BY <2>1, <2>2, RoomCovers
<1>. QED
  BY <1>1, <1>2, <1>3 DEF SenderStep

LEMMA ReceiverStepCoversRoom ==
  ASSUME TypeOK, WakesCoverRoom, NEW r \in Receivers, ReceiverStep(r)
  PROVE  WakesCoverRoom'
<1>. r \in Threads
  BY DEF Threads
<1>. USE ChannelAssumption DEF At, Sending, RoomOwed
<1>1. CASE ReceiveBlocks(r) \/ TryMisses(r)
  <2>1. count' = count /\ Sending' = Sending /\ RoomOwed' = RoomOwed
    BY <1>1 DEF ReceiveBlocks, TryMisses, TypeOK, Goto, Threads
  <2>2. At("full")' = At("full")
    BY <1>1 DEF ReceiveBlocks, TryMisses, TypeOK, Goto, Threads
  <2>. QED
    BY <2>1, <2>2, RoomCovers
<1>2. CASE Takes(r)
  <2>1. /\ count' = count - 1 /\ Sending' = Sending
        /\ r \notin RoomOwed /\ RoomOwed' = RoomOwed \cup {r}
    BY <1>2 DEF Takes, TypeOK, Goto, Threads
  <2>2. At("full")' = At("full")
    BY <1>2 DEF Takes, TypeOK, Goto, Threads
  <2>. QED
    BY <2>1, <2>2, RoomCovers
<1>3. CASE ReceiveWakes(r)
  <2>1. CASE At("full") = {}
    <3>1. At("full")' = {}
      BY <1>3, <2>1 DEF ReceiveWakes, WakeOne, Goto, TypeOK, Threads
    <3>. QED
      BY <3>1 DEF WakesCoverRoom
  <2>2. ASSUME NEW u \in At("full"),
               pc' = [pc EXCEPT ![r] = "idle", ![u] = "send"]
        PROVE  WakesCoverRoom'
    <3>1. /\ count' = count /\ RoomOwed' = RoomOwed \ {r}
          /\ u \notin Sending /\ Sending' = Sending \cup {u}
      BY <1>3, <2>2 DEF ReceiveWakes, TypeOK, Threads
    <3>2. At("full")' \subseteq At("full")
      BY <1>3, <2>2 DEF ReceiveWakes, TypeOK, Threads
    <3>. QED
      BY <3>1, <3>2, RoomCovers
  <2>. QED
    BY <1>3, <2>1, <2>2 DEF ReceiveWakes, WakeOne
<1>. QED
  BY <1>1, <1>2, <1>3 DEF ReceiverStep

(* Nor is a slot ever left free with a sender asleep, nobody awake for it  *)
(* and no wake on its way.                                                 *)
THEOREM RoomCovered == Spec => []WakesCoverRoom
<1>. USE DEF At, Sending, RoomOwed
<1>1. Init => WakesCoverRoom
  BY DEF Init, WakesCoverRoom
<1>2. TypeOK /\ WakesCoverRoom /\ [Next]_vars => WakesCoverRoom'
  <2>. SUFFICES ASSUME TypeOK, WakesCoverRoom, [Next]_vars
                PROVE  WakesCoverRoom'
    OBVIOUS
  <2>1. ASSUME NEW s \in Senders, SenderStep(s) PROVE WakesCoverRoom'
    BY <2>1, SenderStepCoversRoom
  <2>2. ASSUME NEW s \in Senders, NEW v \in Values, Send(s, v)
        PROVE  WakesCoverRoom'
    <3>1. /\ count' = count /\ Sending' = Sending \cup {s} /\ RoomOwed' = RoomOwed
          /\ At("full")' = At("full")
      BY <2>2 DEF Send, TypeOK, Goto, Threads
    <3>. QED
      BY <3>1, RoomCovers
  <2>3. ASSUME NEW r \in Receivers, ReceiverStep(r) PROVE WakesCoverRoom'
    BY <2>3, ReceiverStepCoversRoom
  <2>4. ASSUME NEW r \in Receivers, Receive(r) \/ TryReceive(r)
        PROVE  WakesCoverRoom'
    <3>1. /\ count' = count /\ Sending' = Sending /\ RoomOwed' = RoomOwed
          /\ At("full")' = At("full")
      BY <2>4 DEF Receive, TryReceive, TypeOK, Goto, Threads
    <3>. QED
      BY <3>1, RoomCovers
  <2>5. ASSUME NEW t \in Threads, SpuriousWake(t) PROVE WakesCoverRoom'
    <3>1. /\ count' = count /\ RoomOwed' = RoomOwed
          /\ Sending' = Sending \/ Sending' = Sending \cup {t}
          /\ At("full")' \subseteq At("full")
      BY <2>5 DEF SpuriousWake, TypeOK, Goto
    <3>. QED
      BY <3>1, RoomCovers
  <2>6. CASE UNCHANGED vars
    BY <2>6 DEF vars, Cap, WakesCoverRoom
  <2>. QED
    BY <2>1, <2>2, <2>3, <2>4, <2>5, <2>6 DEF Next
<1>. QED
  BY <1>1, <1>2, TypeCorrect, PTL DEF Spec

(* The wakes of both sides suffice, whatever the capacity and however many *)
(* threads send, receive and try.                                          *)
THEOREM WakesSuffice == Spec => []WakesCover
<1>1. WakesCoverValues /\ WakesCoverRoom => WakesCover
  BY DEF WakesCover
<1>. QED
  BY <1>1, ValuesCovered, RoomCovered, PTL
-----------------------------------------------------------------------------
(* The refinement: the ring, read from `head`, is the queue.               *)
Queue == [i \in 1..count |-> buf[(head + i - 1) % Cap]]

LEMMA Turn ==
  ASSUME NEW x \in 0..(2 * Cap - 1)
  PROVE  x % Cap = IF x < Cap THEN x ELSE x - Cap
<1>1. CASE x < Cap
  BY <1>1, CapPos
<1>2. CASE x >= Cap
  BY <1>2, CapPos
<1>. QED
  BY <1>1, <1>2, CapPos

\* Two places of the queue are two slots of the ring.
LEMMA SlotsDiffer ==
  ASSUME NEW h \in 0..(Cap - 1), NEW i \in 0..(Cap - 1), NEW j \in 0..(Cap - 1), i # j
  PROVE  (h + i) % Cap # (h + j) % Cap
<1>1. h + i \in 0..(2 * Cap - 1) /\ h + j \in 0..(2 * Cap - 1)
  BY CapPos
<1>. QED
  BY <1>1, Turn, CapPos

LEMMA QueueShape ==
  ASSUME TypeOK
  PROVE  /\ Queue \in Seq(Values \cup {None})
         /\ Len(Queue) = count
         /\ Queue = <<>> <=> count = 0
<1>1. count \in Nat
  BY CapPos DEF TypeOK
<1>2. ASSUME NEW i \in 1..count
      PROVE  buf[(head + i - 1) % Cap] \in Values \cup {None}
  <2>1. (head + i - 1) % Cap \in 0..(Cap - 1)
    BY CapPos DEF TypeOK
  <2>. QED
    BY <2>1 DEF TypeOK
<1>. QED
  BY <1>1, <1>2 DEF Queue

\* A put at `tail` is an append: no slot of the queue is written over.
LEMMA PutAppends ==
  ASSUME TypeOK, NEW s \in Senders, SendPuts(s)
  PROVE  Queue' = Append(Queue, arg[s])
<1>1. /\ count \in 0..(Cap - 1) /\ count' = count + 1
      /\ head \in 0..(Cap - 1) /\ head' = head
      /\ tail = (head + count) % Cap /\ tail \in 0..(Cap - 1)
      /\ buf' = [buf EXCEPT ![tail] = arg[s]]
      /\ buf \in [0..(Cap - 1) -> Values \cup {None}]
  BY CapPos DEF SendPuts, TypeOK
<1>2. Cap' = Cap
  BY DEF Cap
<1>3. Queue' = [i \in 1..(count + 1) |-> buf'[(head + i - 1) % Cap]]
  BY <1>1, <1>2 DEF Queue
<1>4. ASSUME NEW i \in 1..count
      PROVE  buf'[(head + i - 1) % Cap] = Queue[i]
  <2>1. i - 1 \in 0..(Cap - 1) /\ i - 1 # count
    BY <1>1, CapPos
  <2>2. (head + (i - 1)) % Cap # tail
    BY <1>1, <2>1, SlotsDiffer
  <2>3. head + i - 1 = head + (i - 1)
    BY <1>1
  <2>4. (head + i - 1) % Cap \in 0..(Cap - 1)
    BY <1>1, CapPos
  <2>. QED
    BY <1>1, <2>2, <2>3, <2>4 DEF Queue
<1>5. buf'[(head + (count + 1) - 1) % Cap] = arg[s]
  <2>1. head + (count + 1) - 1 = head + count
    BY <1>1
  <2>. QED
    BY <1>1, <2>1
<1>6. Queue \in Seq(Values \cup {None}) /\ Len(Queue) = count
  BY QueueShape
<1>7. Append(Queue, arg[s])
        = [i \in 1..(count + 1) |-> IF i = count + 1 THEN arg[s] ELSE Queue[i]]
  BY <1>1, <1>6
<1>. QED
  BY <1>1, <1>3, <1>4, <1>5, <1>7

\* What is at `head` is the oldest, and what is behind it stays.
LEMMA TakeRemoves ==
  ASSUME TypeOK, NEW r \in Receivers, Takes(r)
  PROVE  /\ Queue # <<>> /\ buf[head] = Head(Queue)
         /\ Queue' = Tail(Queue)
<1>1. /\ count \in 1..Cap /\ count' = count - 1
      /\ head \in 0..(Cap - 1) /\ head' = Wrap(head) /\ buf' = buf
  BY CapPos DEF Takes, TypeOK
<1>2. Cap' = Cap
  BY DEF Cap
<1>3. Queue \in Seq(Values \cup {None}) /\ Len(Queue) = count /\ Queue # <<>>
  BY <1>1, QueueShape
<1>4. buf[head] = Queue[1]
  <2>1. (head + 1 - 1) % Cap = head
    BY <1>1, CapPos
  <2>. QED
    BY <1>1, <2>1 DEF Queue
<1>5. Tail(Queue) = [i \in 1..(count - 1) |-> Queue[i + 1]]
  <2>1. /\ Tail(Queue) \in Seq(Values \cup {None})
        /\ Len(Tail(Queue)) = count - 1
        /\ \A i \in 1..(count - 1) : Tail(Queue)[i] = Queue[i + 1]
    BY <1>3, HeadTailProperties
  <2>2. Tail(Queue) \in [1..(count - 1) -> Values \cup {None}]
    BY <2>1, LenProperties
  <2>. QED
    BY <2>1, <2>2
<1>6. Queue' = [i \in 1..(count - 1) |-> buf[(head' + i - 1) % Cap]]
  BY <1>1, <1>2 DEF Queue
<1>7. ASSUME NEW i \in 1..(count - 1)
      PROVE  buf[(head' + i - 1) % Cap] = Queue[i + 1]
  <2>1. (Wrap(head) + (i - 1)) % Cap = (head + i) % Cap
    BY <1>1, RingTake, CapPos
  <2>2. head' + i - 1 = Wrap(head) + (i - 1) /\ head + (i + 1) - 1 = head + i
    BY <1>1, CapPos DEF Wrap
  <2>3. i + 1 \in 1..count
    BY <1>1, CapPos
  <2>. QED
    BY <2>1, <2>2, <2>3 DEF Queue
<1>. QED
  BY <1>3, <1>4, <1>5, <1>6, <1>7

LEMMA QueueKept ==
  ASSUME UNCHANGED <<buf, count, head, got>>
  PROVE  UNCHANGED <<Queue, got>>
BY DEF Queue, Cap

(* The ring is the FIFO that the guide promises: whatever the threads do,  *)
(* a send that puts is a Put, a receive that takes is a Take of the oldest *)
(* value, an empty-handed one is a Miss of an empty queue, and every other *)
(* step, the sleeps and the wakes, is a stutter.                           *)
THEOREM ChannelIsFifo == Spec => ImplementsFifo
<1>1. Init => Fifo!Init
  <2>. SUFFICES ASSUME Init PROVE Fifo!Init
    OBVIOUS
  <2>1. Queue = <<>>
    BY DEF Init, Queue
  <2>. QED
    BY <2>1 DEF Init, Queue, Fifo!Init
<1>2. TypeOK /\ [Next]_vars => [Fifo!Next]_<<Queue, got>>
  <2>. SUFFICES ASSUME TypeOK, [Next]_vars PROVE Fifo!Next \/ UNCHANGED <<Queue, got>>
    OBVIOUS
  <2>1. ASSUME NEW s \in Senders, SendPuts(s) PROVE Fifo!Next
    <3>1. arg[s] \in Values /\ count < Cap
      BY <2>1, CapPos DEF SendPuts, TypeOK
    <3>2. ASSUME NEW v \in Values, v = arg[s] PROVE Fifo!Put(v)
      BY <2>1, <3>1, <3>2, PutAppends, QueueShape DEF Fifo!Put, Queue, SendPuts
    <3>. QED
      BY <3>1, <3>2 DEF Fifo!Next
  <2>2. ASSUME NEW r \in Receivers, Takes(r) PROVE Fifo!Next
    <3>1. Fifo!Take(r)
      BY <2>2, TakeRemoves DEF Fifo!Take, Queue, Takes
    <3>. QED
      BY <3>1 DEF Fifo!Next
  <2>3. ASSUME NEW r \in Receivers, TryMisses(r) PROVE Fifo!Next
    <3>1. Queue = <<>> /\ UNCHANGED Queue
      BY <2>3, QueueShape DEF TryMisses, Queue, Cap
    <3>2. Fifo!Miss(r)
      BY <2>3, <3>1 DEF Fifo!Miss, Queue, TryMisses
    <3>. QED
      BY <3>2 DEF Fifo!Next
  <2>4. ASSUME NEW s \in Senders, SendBlocks(s) \/ SendWakes(s) \/ \E v \in Values : Send(s, v)
        PROVE  UNCHANGED <<Queue, got>>
    BY <2>4, QueueKept DEF SendBlocks, SendWakes, Send
  <2>5. ASSUME NEW r \in Receivers,
               \/ ReceiveBlocks(r) \/ ReceiveWakes(r)
               \/ Receive(r) \/ TryReceive(r)
        PROVE  UNCHANGED <<Queue, got>>
    BY <2>5, QueueKept DEF ReceiveBlocks, ReceiveWakes, Receive, TryReceive
  <2>6. ASSUME NEW t \in Threads, SpuriousWake(t) PROVE UNCHANGED <<Queue, got>>
    BY <2>6, QueueKept DEF SpuriousWake
  <2>7. CASE UNCHANGED vars
    BY <2>7, QueueKept DEF vars
  <2>. QED
    BY <2>1, <2>2, <2>3, <2>4, <2>5, <2>6, <2>7 DEF Next, SenderStep, ReceiverStep
<1>. QED
  BY <1>1, <1>2, TypeCorrect, PTL DEF Spec, ImplementsFifo, Fifo!Spec, Queue
-----------------------------------------------------------------------------
(* The deque: the array is a circle of n places, read from `head`.         *)

\* The array has n places.
RingOf(n, r) ==
  r \in [data : [0..(n - 1) -> Items \cup {Nothing}], head : 0..(n - 1), count : 0..n]

DequeInv == /\ \E n \in Nat \ {0} : RingOf(n, ring)
            /\ taken \in Items \cup {Nothing}

\* The items of a deque, the first of them first.
Along(r) == [i \in 1..r.count |-> r.data[Place(r, i - 1)]]

\* Once around is enough.
LEMMA Around ==
  ASSUME NEW n \in Nat \ {0}, NEW x \in 0..(2 * n - 1)
  PROVE  x % n = IF x < n THEN x ELSE x - n
<1>1. CASE x < n
  BY <1>1
<1>2. CASE x >= n
  BY <1>2
<1> QED
  BY <1>1, <1>2

\* The place of the i-th after the one at h.
Turned(n, h, i) == IF h + i < n THEN h + i ELSE h + i - n

LEMMA TurnedStays ==
  ASSUME NEW n \in Nat \ {0}, NEW h \in 0..(n - 1), NEW i \in 0..n
  PROVE  Turned(n, h, i) \in 0..(n - 1)
BY DEF Turned

LEMMA TurnedApart ==
  ASSUME NEW n \in Nat \ {0}, NEW h \in 0..(n - 1), NEW i \in 0..(n - 1), NEW j \in 0..(n - 1),
         i # j
  PROVE  Turned(n, h, i) # Turned(n, h, j)
BY DEF Turned

\* One place back and on again.
LEMMA TurnedBack ==
  ASSUME NEW n \in Nat \ {0}, NEW h \in 0..(n - 1)
  PROVE  LET b == Turned(n, h, n - 1)
         IN  Turned(n, b, 0) = b /\ \A i \in 0..(n - 1) : Turned(n, b, i + 1) = Turned(n, h, i)
BY DEF Turned

LEMMA TurnedOn ==
  ASSUME NEW n \in Nat \ {0}, NEW h \in 0..(n - 1), NEW i \in 0..(n - 1)
  PROVE  Turned(n, Turned(n, h, 1), i) = Turned(n, h, i + 1)
BY DEF Turned

\* What lies there from h on.
From(n, d, h, c) == [i \in 1..c |-> d[Turned(n, h, i - 1)]]

\* The places of a ring, and its items.
LEMMA RingIs ==
  ASSUME NEW n \in Nat \ {0}, NEW r, RingOf(n, r)
  PROVE  /\ Length(r) = n
         /\ \A i \in 0..n : Place(r, i) = Turned(n, r.head, i)
         /\ Along(r) = From(n, r.data, r.head, r.count)
         /\ r.data \in [0..(n - 1) -> Items \cup {Nothing}]
         /\ r.head \in 0..(n - 1) /\ r.count \in 0..n
<1>1. /\ r.data \in [0..(n - 1) -> Items \cup {Nothing}]
      /\ r.head \in 0..(n - 1) /\ r.count \in 0..n
  BY DEF RingOf
<1>2. Length(r) = n
  <2>1. Cardinality(0..(n - 1)) = n
    BY FS_Interval
  <2> QED
    BY <1>1, <2>1 DEF Length
<1>3. ASSUME NEW h \in 0..(n - 1), NEW i \in 0..n
      PROVE  (h + i) % n = Turned(n, h, i)
  <2> DEFINE x == h + i
  <2>1. x \in 0..(2 * n - 1)
    OBVIOUS
  <2> HIDE DEF x
  <2>2. x % n = IF x < n THEN x ELSE x - n
    BY <2>1, Around
  <2> QED
    BY <2>2 DEF Turned, x
<1>4. ASSUME NEW i \in 0..n PROVE Place(r, i) = Turned(n, r.head, i)
  <2>1. Place(r, i) = (r.head + i) % n
    BY Zenon, <1>2 DEF Place
  <2> QED
    BY <1>1, <1>3, <2>1
<1>5. ASSUME NEW i \in 1..r.count PROVE Place(r, i - 1) = Turned(n, r.head, i - 1)
  <2>1. i - 1 \in 0..n
    BY <1>1
  <2> QED
    BY <1>4, <2>1
<1>6. Along(r) = From(n, r.data, r.head, r.count)
  BY <1>5 DEF Along, From
<1> QED
  BY <1>1, <1>2, <1>4, <1>6

\* It is a line of items.
LEMMA FromIs ==
  ASSUME NEW n \in Nat \ {0}, NEW d \in [0..(n - 1) -> Items \cup {Nothing}],
         NEW h \in 0..(n - 1), NEW c \in 0..n
  PROVE  /\ From(n, d, h, c) \in Seq(Items \cup {Nothing}) /\ Len(From(n, d, h, c)) = c
         /\ \A i \in 1..c : From(n, d, h, c)[i] = d[Turned(n, h, i - 1)]
<1>1. ASSUME NEW i \in 1..c PROVE d[Turned(n, h, i - 1)] \in Items \cup {Nothing}
  <2>1. i - 1 \in 0..n
    OBVIOUS
  <2> QED
    BY <2>1, TurnedStays
<1> QED
  BY <1>1 DEF From

\* What is put after the last comes last.
LEMMA LastComesLast ==
  ASSUME NEW n \in Nat \ {0}, NEW d \in [0..(n - 1) -> Items \cup {Nothing}],
         NEW h \in 0..(n - 1), NEW c \in 0..(n - 1), NEW x \in Items
  PROVE  From(n, [d EXCEPT ![Turned(n, h, c)] = x], h, c + 1) = Append(From(n, d, h, c), x)
<1> DEFINE p == Turned(n, h, c)
           e == [d EXCEPT ![p] = x]
           s == From(n, d, h, c)
<1>1. p \in 0..(n - 1) /\ c \in 0..n
  BY TurnedStays
<1>2. s \in Seq(Items \cup {Nothing}) /\ Len(s) = c /\ \A i \in 1..c : s[i] = d[Turned(n, h, i - 1)]
  BY <1>1, FromIs
<1>3. ASSUME NEW i \in 1..c PROVE e[Turned(n, h, i - 1)] = s[i]
  <2>1. i - 1 \in 0..(n - 1) /\ i - 1 # c /\ i - 1 \in 0..n
    OBVIOUS
  <2>2. Turned(n, h, i - 1) \in 0..(n - 1) /\ Turned(n, h, i - 1) # p
    BY <2>1, TurnedStays, TurnedApart
  <2> QED
    BY <1>2, <2>2
<1>4. e[Turned(n, h, c + 1 - 1)] = x
  <2>1. c + 1 - 1 = c
    OBVIOUS
  <2> QED
    BY <1>1, <2>1
<1> HIDE DEF e, s
<1>5. /\ Append(s, x) \in [1..(c + 1) -> Items \cup {Nothing}]
      /\ \A i \in 1..c : Append(s, x)[i] = s[i]
      /\ Append(s, x)[c + 1] = x
  <2>1. x \in Items \cup {Nothing}
    OBVIOUS
  <2>2. /\ Append(s, x) \in Seq(Items \cup {Nothing})
        /\ Len(Append(s, x)) = Len(s) + 1
        /\ \A i \in 1..Len(s) : Append(s, x)[i] = s[i]
        /\ Append(s, x)[Len(s) + 1] = x
    BY <1>2, <2>1, AppendProperties
  <2>3. Len(s) = c
    BY <1>2
  <2> QED
    BY <2>2, <2>3, LenProperties
<1>6. ASSUME NEW i \in 1..(c + 1) PROVE e[Turned(n, h, i - 1)] = Append(s, x)[i]
  <2>1. i \in 1..c \/ i = c + 1
    OBVIOUS
  <2> QED
    BY <1>3, <1>4, <1>5, <2>1
<1>7. From(n, e, h, c + 1) = Append(s, x)
  BY <1>5, <1>6 DEF From
<1> QED
  BY <1>7 DEF e, s

\* What is put before the first comes first.
LEMMA FirstComesFirst ==
  ASSUME NEW n \in Nat \ {0}, NEW d \in [0..(n - 1) -> Items \cup {Nothing}],
         NEW h \in 0..(n - 1), NEW c \in 0..(n - 1), NEW x \in Items
  PROVE  LET b == Turned(n, h, n - 1)
         IN  From(n, [d EXCEPT ![b] = x], b, c + 1) = <<x>> \o From(n, d, h, c)
<1> DEFINE b == Turned(n, h, n - 1)
           e == [d EXCEPT ![b] = x]
           s == From(n, d, h, c)
<1>1. b \in 0..(n - 1) /\ c \in 0..n
  BY TurnedStays
<1>2. s \in Seq(Items \cup {Nothing}) /\ Len(s) = c /\ \A i \in 1..c : s[i] = d[Turned(n, h, i - 1)]
  BY <1>1, FromIs
<1>3. ASSUME NEW i \in 2..(c + 1) PROVE e[Turned(n, b, i - 1)] = s[i - 1]
  <2>1. i - 2 \in 0..(n - 1) /\ i - 2 # n - 1 /\ i - 2 \in 0..n /\ n - 1 \in 0..(n - 1)
        /\ i - 2 + 1 = i - 1 /\ i - 1 - 1 = i - 2 /\ i - 1 \in 1..c
    OBVIOUS
  <2>2. Turned(n, h, i - 2) \in 0..(n - 1) /\ Turned(n, h, i - 2) # b
    BY <2>1, TurnedStays, TurnedApart
  <2>3. Turned(n, b, i - 1) = Turned(n, h, i - 2)
    BY <2>1, TurnedBack
  <2> QED
    BY <1>2, <2>1, <2>2, <2>3
<1>4. e[Turned(n, b, 1 - 1)] = x
  <2>1. 1 - 1 = 0
    OBVIOUS
  <2> QED
    BY <1>1, <2>1, TurnedBack
<1> HIDE DEF e, s, b
<1>5. <<x>> \o s = [i \in 1..(c + 1) |-> IF i = 1 THEN x ELSE s[i - 1]]
  BY <1>2
<1>6. ASSUME NEW i \in 1..(c + 1)
      PROVE  e[Turned(n, b, i - 1)] = IF i = 1 THEN x ELSE s[i - 1]
  BY <1>3, <1>4
<1>7. From(n, e, b, c + 1) = <<x>> \o s
  BY <1>5, <1>6 DEF From
<1> QED
  BY <1>7 DEF e, s, b

\* What is first goes first ...
LEMMA FirstIsTaken ==
  ASSUME NEW n \in Nat \ {0}, NEW d \in [0..(n - 1) -> Items \cup {Nothing}],
         NEW h \in 0..(n - 1), NEW c \in 1..n
  PROVE  /\ From(n, d, h, c) # << >> /\ Head(From(n, d, h, c)) = d[h]
         /\ From(n, d, Turned(n, h, 1), c - 1) = Tail(From(n, d, h, c))
<1> DEFINE s == From(n, d, h, c)
<1>1. s \in Seq(Items \cup {Nothing}) /\ Len(s) = c /\ \A i \in 1..c : s[i] = d[Turned(n, h, i - 1)]
  <2>1. c \in 0..n
    OBVIOUS
  <2> QED
    BY <2>1, FromIs
<1> HIDE DEF s
<1>2. s # << >> /\ Head(s) = s[1]
  BY <1>1
<1>3. Turned(n, h, 1 - 1) = h
  BY DEF Turned
<1>4. /\ Tail(s) \in Seq(Items \cup {Nothing}) /\ Len(Tail(s)) = c - 1
      /\ \A i \in 1..(c - 1) : Tail(s)[i] = s[i + 1]
  BY <1>1, <1>2, HeadTailProperties
<1>5. Tail(s) \in [1..(c - 1) -> Items \cup {Nothing}]
  BY <1>4, LenProperties
<1>6. ASSUME NEW i \in 1..(c - 1) PROVE d[Turned(n, Turned(n, h, 1), i - 1)] = Tail(s)[i]
  <2>1. i - 1 \in 0..(n - 1) /\ i - 1 + 1 = i + 1 - 1 /\ i + 1 \in 1..c
    OBVIOUS
  <2> QED
    BY <1>1, <1>4, <2>1, TurnedOn
<1>7. From(n, d, Turned(n, h, 1), c - 1) = Tail(s)
  BY <1>5, <1>6 DEF From
<1> QED
  BY <1>1, <1>2, <1>3, <1>7 DEF s

\* ... and what is last, last.
LEMMA LastIsTaken ==
  ASSUME NEW n \in Nat \ {0}, NEW d \in [0..(n - 1) -> Items \cup {Nothing}],
         NEW h \in 0..(n - 1), NEW c \in 1..n
  PROVE  /\ From(n, d, h, c) # << >> /\ Len(From(n, d, h, c)) = c
         /\ From(n, d, h, c)[c] = d[Turned(n, h, c - 1)]
         /\ From(n, d, h, c - 1) = SubSeq(From(n, d, h, c), 1, c - 1)
<1> DEFINE s == From(n, d, h, c)
<1>1. s \in Seq(Items \cup {Nothing}) /\ Len(s) = c /\ \A i \in 1..c : s[i] = d[Turned(n, h, i - 1)]
  <2>1. c \in 0..n
    OBVIOUS
  <2> QED
    BY <2>1, FromIs
<1> HIDE DEF s
<1>2. SubSeq(s, 1, c - 1) = [i \in 1..(c - 1) |-> s[i]]
  BY <1>1
<1>3. From(n, d, h, c - 1) = SubSeq(s, 1, c - 1)
  BY <1>1, <1>2 DEF From
<1>4. s # << >>
  BY <1>1
<1> QED
  BY <1>1, <1>3, <1>4 DEF s

\* In a larger array the same items lie from the front on.
LEMMA GrownKeeps ==
  ASSUME NEW n \in Nat \ {0}, RingOf(n, ring)
  PROVE  \E m \in Nat \ {0} : /\ RingOf(m, Grown(ring)) /\ ring.count < m
                              /\ Grown(ring).count = ring.count
                              /\ Along(Grown(ring)) = Along(ring)
<1> DEFINE g == Grown(ring)
           c == ring.count
           front == [i \in 0..(2 * n - 1) |-> IF i < c THEN ring.data[Place(ring, i)] ELSE Nothing]
<1>1. /\ Length(ring) = n /\ c \in 0..n
      /\ Along(ring) = From(n, ring.data, ring.head, c)
      /\ \A i \in 0..n : Place(ring, i) = Turned(n, ring.head, i)
      /\ ring.head \in 0..(n - 1) /\ ring.data \in [0..(n - 1) -> Items \cup {Nothing}]
  BY RingIs
<1>2. CASE c < n
  <2>1. g = ring
    BY <1>1, <1>2 DEF Grown
  <2> QED
    BY <1>2, <2>1
<1>3. CASE ~(c < n)
  <2>1. g = [data |-> front, head |-> 0, count |-> c]
    BY <1>1, <1>3 DEF Grown, RingOf
  <2>2. c = n /\ 2 * n \in Nat \ {0} /\ n < 2 * n /\ c \in 0..(2 * n)
    BY <1>1, <1>3
  <2>3. ASSUME NEW i \in 0..(n - 1) PROVE ring.data[Place(ring, i)] \in Items \cup {Nothing}
    <3>0. i \in 0..n
      OBVIOUS
    <3>1. Turned(n, ring.head, i) \in 0..(n - 1)
      BY <1>1, <3>0, TurnedStays
    <3> QED
      BY <1>1, <3>0, <3>1
  <2>4. front \in [0..(2 * n - 1) -> Items \cup {Nothing}]
    BY <2>2, <2>3
  <2>5. \A i \in 0..(2 * n - 1) : i < c => front[i] = ring.data[Place(ring, i)]
    OBVIOUS
  <2> HIDE DEF front, g, c
  <2>6. RingOf(2 * n, g) /\ g.count = c /\ g.head = 0 /\ g.data = front
    BY <2>1, <2>2, <2>4 DEF RingOf
  <2>7. Along(g) = From(2 * n, front, 0, c)
    BY <2>2, <2>6, RingIs
  <2>8. ASSUME NEW i \in 1..c PROVE front[Turned(2 * n, 0, i - 1)] = ring.data[Turned(n, ring.head, i - 1)]
    <3>1. i - 1 \in 0..n /\ i - 1 \in 0..(2 * n - 1) /\ i - 1 < c /\ 0 + (i - 1) = i - 1 /\ i - 1 < 2 * n
      BY <2>2
    <3>2. Turned(2 * n, 0, i - 1) = i - 1
      BY <3>1 DEF Turned
    <3> QED
      BY <1>1, <2>5, <3>1, <3>2
  <2>9. Along(g) = Along(ring)
    BY <1>1, <2>7, <2>8 DEF From
  <2> QED
    BY <2>2, <2>6, <2>9 DEF g, c
<1> QED
  BY <1>2, <1>3

\* A ring after one of its places, and how many it holds, have been written.
LEMMA RingWritten ==
  ASSUME NEW D, NEW H, NEW C, NEW g \in [data : D, head : H, count : C],
         NEW p, NEW x, NEW h \in H, g.count + 1 \in C, [g.data EXCEPT ![p] = x] \in D
  PROVE  /\ [g EXCEPT !.data[p] = x, !.count = @ + 1]
               = [data |-> [g.data EXCEPT ![p] = x], head |-> g.head, count |-> g.count + 1]
         /\ [g EXCEPT !.data[p] = x, !.head = h, !.count = @ + 1]
               = [data |-> [g.data EXCEPT ![p] = x], head |-> h, count |-> g.count + 1]
<1> DEFINE R == [data : D, head : H, count : C]
           e == [g.data EXCEPT ![p] = x]
           u == [g EXCEPT !.data[p] = x, !.count = @ + 1]
           v == [g EXCEPT !.data[p] = x, !.head = h, !.count = @ + 1]
<1>1. ASSUME NEW r \in R PROVE r = [data |-> r.data, head |-> r.head, count |-> r.count]
  BY Zenon
<1>2. u \in R /\ u.data = e /\ u.head = g.head /\ u.count = g.count + 1
  BY Zenon
<1>3. v \in R /\ v.data = e /\ v.head = h /\ v.count = g.count + 1
  BY Zenon
<1>4. QED
  <2> HIDE DEF R, u, v, e
  <2>1. /\ u = [data |-> e, head |-> g.head, count |-> g.count + 1]
        /\ v = [data |-> e, head |-> h, count |-> g.count + 1]
    BY <1>1, <1>2, <1>3
  <2> QED
    BY Zenon, <2>1 DEF e, u, v

\* Where an item is added there is room.
LEMMA Adding ==
  ASSUME DequeInv, NEW x \in Items, AddLast(x) \/ AddFirst(x)
  PROVE  /\ \E m \in Nat \ {0} : RingOf(m, ring')
         /\ Along(ring') \in {Append(Along(ring), x), <<x>> \o Along(ring)}
<1> DEFINE g == Grown(ring)
           h == Place(g, Length(g) - 1)
<1>1. PICK n \in Nat \ {0} : RingOf(n, ring)
  BY DEF DequeInv
<1>2. PICK m \in Nat \ {0} : /\ RingOf(m, g) /\ ring.count < m /\ g.count = ring.count
                            /\ Along(g) = Along(ring)
  BY <1>1, GrownKeeps
<1> HIDE DEF g
<1>3. /\ Length(g) = m /\ \A i \in 0..m : Place(g, i) = Turned(m, g.head, i)
      /\ Along(g) = From(m, g.data, g.head, g.count)
      /\ g.data \in [0..(m - 1) -> Items \cup {Nothing}]
      /\ g.head \in 0..(m - 1) /\ g.count \in 0..(m - 1)
      /\ g = [data |-> g.data, head |-> g.head, count |-> g.count]
  <2>1. ring.count \in 0..n
    BY <1>1, RingIs
  <2>2. g = [data |-> g.data, head |-> g.head, count |-> g.count]
    BY <1>2 DEF RingOf
  <2> QED
    BY <1>2, <2>1, <2>2, RingIs
<1>0. g \in [data : [0..(m - 1) -> Items \cup {Nothing}], head : 0..(m - 1), count : 0..m]
  BY <1>2 DEF RingOf
<1>4. CASE AddLast(x)
  <2> DEFINE p == Turned(m, g.head, g.count)
             e == [g.data EXCEPT ![p] = x]
  <2>1. p \in 0..(m - 1) /\ Place(g, g.count) = p
    <3>1. g.count \in 0..m
      BY <1>3
    <3> QED
      BY <1>3, <3>1, TurnedStays
  <2>2. ring' = [g EXCEPT !.data[p] = x, !.count = @ + 1]
    <3>1. ring' = [g EXCEPT !.data[Place(g, g.count)] = x, !.count = @ + 1]
      BY Zenon, <1>4 DEF AddLast, g
    <3> QED
      BY Zenon, <2>1, <3>1
  <2>3. e \in [0..(m - 1) -> Items \cup {Nothing}] /\ g.count + 1 \in 0..m
    BY <1>3, <2>1
  <2>4. ring' = [data |-> e, head |-> g.head, count |-> g.count + 1]
    BY Zenon, <1>0, <2>2, <2>3, RingWritten
  <2>5. From(m, e, g.head, g.count + 1) = Append(Along(g), x)
    <3>1. g.data \in [0..(m - 1) -> Items \cup {Nothing}] /\ g.head \in 0..(m - 1) /\ g.count \in 0..(m - 1)
      BY <1>3
    <3>2. From(m, e, g.head, g.count + 1) = Append(From(m, g.data, g.head, g.count), x)
      BY Zenon, <3>1, LastComesLast
    <3>3. Along(g) = From(m, g.data, g.head, g.count)
      BY <1>3
    <3> QED
      BY Zenon, <3>2, <3>3
  <2> HIDE DEF e, p
  <2>6. RingOf(m, ring')
    BY <1>3, <2>3, <2>4 DEF RingOf
  <2>7. Along(ring') = From(m, e, g.head, g.count + 1)
    BY <2>4, <2>6, RingIs
  <2> QED
    BY <1>2, <2>5, <2>6, <2>7
<1>5. CASE AddFirst(x)
  <2> DEFINE b == Turned(m, g.head, m - 1)
             e == [g.data EXCEPT ![b] = x]
  <2>1. b \in 0..(m - 1) /\ h = b
    <3>1. m - 1 \in 0..m
      OBVIOUS
    <3> QED
      BY <1>3, <3>1, TurnedStays
  <2>2. ring' = [g EXCEPT !.data[h] = x, !.head = h, !.count = @ + 1]
    BY <1>5 DEF AddFirst, g
  <2> HIDE DEF h
  <2>3. e \in [0..(m - 1) -> Items \cup {Nothing}] /\ g.count + 1 \in 0..m
    BY <1>3, <2>1
  <2>4. ring' = [data |-> e, head |-> b, count |-> g.count + 1]
    <3>1. ring' = [g EXCEPT !.data[b] = x, !.head = b, !.count = @ + 1]
      BY Zenon, <2>1, <2>2
    <3> QED
      BY Zenon, <1>0, <2>1, <2>3, <3>1, RingWritten
  <2>5. From(m, e, b, g.count + 1) = <<x>> \o Along(g)
    <3>1. g.data \in [0..(m - 1) -> Items \cup {Nothing}] /\ g.head \in 0..(m - 1) /\ g.count \in 0..(m - 1)
      BY <1>3
    <3>2. From(m, e, b, g.count + 1) = <<x>> \o From(m, g.data, g.head, g.count)
      BY Zenon, <3>1, FirstComesFirst
    <3>3. Along(g) = From(m, g.data, g.head, g.count)
      BY <1>3
    <3> QED
      BY Zenon, <3>2, <3>3
  <2> HIDE DEF e, b
  <2>6. RingOf(m, ring')
    BY <2>1, <2>3, <2>4 DEF RingOf
  <2>7. Along(ring') = From(m, e, b, g.count + 1)
    BY <2>4, <2>6, RingIs
  <2> QED
    BY <1>2, <2>5, <2>6, <2>7
<1> QED
  BY <1>4, <1>5

\* Where one is removed there is one.
LEMMA Taking ==
  ASSUME DequeInv, RemoveFirst \/ RemoveLast
  PROVE  /\ \E n \in Nat \ {0} : RingOf(n, ring')
         /\ taken' \in Items \cup {Nothing} /\ Along(ring) # << >>
         /\ \/ taken' = Head(Along(ring)) /\ Along(ring') = Tail(Along(ring))
            \/ /\ taken' = Along(ring)[Len(Along(ring))]
               /\ Along(ring') = SubSeq(Along(ring), 1, Len(Along(ring)) - 1)
<1> DEFINE d == ring.data
           h == ring.head
           c == ring.count
<1>1. PICK n \in Nat \ {0} : RingOf(n, ring)
  BY DEF DequeInv
<1>2. /\ Length(ring) = n /\ \A i \in 0..n : Place(ring, i) = Turned(n, h, i)
      /\ Along(ring) = From(n, d, h, c)
      /\ d \in [0..(n - 1) -> Items \cup {Nothing}]
      /\ h \in 0..(n - 1) /\ c \in 1..n
      /\ ring = [data |-> d, head |-> h, count |-> c]
  <2>1. c > 0
    BY DEF RemoveFirst, RemoveLast
  <2>2. ring = [data |-> d, head |-> h, count |-> c]
    BY <1>1 DEF RingOf
  <2> QED
    BY <1>1, <2>1, <2>2, RingIs
<1>3. c - 1 \in 0..n /\ 1 \in 0..n
  BY <1>2
<1>4. CASE RemoveFirst
  <2> DEFINE t == Turned(n, h, 1)
  <2>1. t \in 0..(n - 1) /\ Place(ring, 1) = t
    BY <1>2, <1>3, TurnedStays
  <2>2. ring' = [ring EXCEPT !.head = Place(ring, 1), !.count = @ - 1] /\ taken' = d[h]
    BY <1>4 DEF RemoveFirst
  <2>3. ring' = [data |-> d, head |-> t, count |-> c - 1]
    BY Zenon, <1>2, <2>1, <2>2
  <2>4. /\ Along(ring) # << >> /\ taken' = Head(Along(ring))
        /\ From(n, d, t, c - 1) = Tail(Along(ring))
    BY <1>2, <2>2, FirstIsTaken
  <2>5. taken' \in Items \cup {Nothing}
    BY <1>2, <2>2
  <2> HIDE DEF d, t, c, h
  <2>6. RingOf(n, ring')
    BY <1>2, <1>3, <2>1, <2>3 DEF RingOf
  <2>7. Along(ring') = From(n, d, t, c - 1)
    BY <2>3, <2>6, RingIs
  <2> QED
    BY <2>4, <2>5, <2>6, <2>7
<1>5. CASE RemoveLast
  <2>1. ring' = [ring EXCEPT !.count = @ - 1] /\ taken' = d[Place(ring, c - 1)]
    BY <1>5 DEF RemoveLast
  <2>2. ring' = [data |-> d, head |-> h, count |-> c - 1]
    BY Zenon, <1>2, <2>1
  <2>3. Turned(n, h, c - 1) \in 0..(n - 1) /\ Place(ring, c - 1) = Turned(n, h, c - 1)
    BY <1>2, <1>3, TurnedStays
  <2>4. taken' \in Items \cup {Nothing} /\ taken' = d[Turned(n, h, c - 1)]
    BY <1>2, <2>1, <2>3
  <2>5. /\ Along(ring) # << >> /\ Len(Along(ring)) = c
        /\ taken' = Along(ring)[c]
        /\ From(n, d, h, c - 1) = SubSeq(Along(ring), 1, c - 1)
    BY <1>2, <2>4, LastIsTaken
  <2> HIDE DEF d, c, h
  <2>6. RingOf(n, ring')
    BY <1>2, <1>3, <2>2 DEF RingOf
  <2>7. Along(ring') = From(n, d, h, c - 1)
    BY <2>2, <2>6, RingIs
  <2> QED
    BY <2>4, <2>5, <2>6, <2>7
<1> QED
  BY <1>4, <1>5

\* Each step keeps the ring a ring and is a step of the line.
LEMMA DequeSteps ==
  ASSUME DequeInv, DequeNext
  PROVE  DequeInv' /\ Line!Next
<1> DEFINE line == [i \in 1..ring.count |-> ring.data[Place(ring, i - 1)]]
<1>1. line = Along(ring) /\ line' = Along(ring')
  BY DEF Along, Place, Length
<1>2. ASSUME \E n \in Nat \ {0} : RingOf(n, ring'), taken' \in Items \cup {Nothing} PROVE DequeInv'
  BY <1>2 DEF DequeInv, RingOf
<1>3. taken \in Items \cup {Nothing}
  BY DEF DequeInv
<1>4. ASSUME NEW x \in Items, AddLast(x) \/ AddFirst(x) PROVE DequeInv' /\ Line!Add(x)
  <2>1. taken' = taken
    BY <1>4 DEF AddLast, AddFirst
  <2> QED
    BY <1>1, <1>2, <1>3, <1>4, <2>1, Adding DEF Line!Add
<1>5. CASE RemoveFirst \/ RemoveLast
  <2> QED
    BY <1>1, <1>2, <1>5, Taking DEF Line!Next, Line!RemoveFirst, Line!RemoveLast
<1> QED
  BY <1>4, <1>5 DEF DequeNext, Line!Next

LEMMA DequeBegins ==
  ASSUME DequeAssumption, DequeInit
  PROVE  DequeInv /\ Line!Init
<1>1. RingOf(FirstRoom, ring)
  BY DEF DequeAssumption, DequeInit, RingOf
<1>2. ring.count = 0
  BY DEF DequeInit
<1> QED
  BY <1>1, <1>2 DEF DequeAssumption, DequeInit, DequeInv, Line!Init

(* However the ring has turned and grown, an item is added at an end of    *)
(* one line of items and the removal at an end returns the item that was   *)
(* there.                                                                  *)
THEOREM DequeIsLine == DequeAssumption => (DequeSpec => ImplementsLine)
<1> SUFFICES ASSUME DequeAssumption PROVE DequeSpec => ImplementsLine
  OBVIOUS
<1> DEFINE line == [i \in 1..ring.count |-> ring.data[Place(ring, i - 1)]]
<1>1. DequeInit => DequeInv /\ Line!Init
  BY DequeBegins
<1>2. DequeInv /\ [DequeNext]_dequeVars => DequeInv' /\ [Line!Next]_<<line, taken>>
  <2>1. ASSUME DequeInv, UNCHANGED dequeVars PROVE DequeInv' /\ UNCHANGED <<line, taken>>
    BY <2>1 DEF dequeVars, DequeInv, RingOf, Place, Length
  <2> QED
    BY <2>1, DequeSteps
<1> QED
  BY <1>1, <1>2, PTL DEF DequeSpec, ImplementsLine, Line!Spec

(* The deque holds at most as many items as its array has places, and the *)
(* array and the position of the first stay of their types.              *)
THEOREM DequeTypeCorrect == DequeAssumption => (DequeSpec => []DequeTypeOK)
<1> SUFFICES ASSUME DequeAssumption PROVE DequeSpec => []DequeTypeOK
  OBVIOUS
<1>1. DequeInit => DequeInv
  BY DequeBegins
<1>2. DequeInv /\ [DequeNext]_dequeVars => DequeInv'
  <2>1. ASSUME DequeInv, UNCHANGED dequeVars PROVE DequeInv'
    BY <2>1 DEF dequeVars, DequeInv, RingOf
  <2> QED
    BY <2>1, DequeSteps
<1>3. DequeInv => DequeTypeOK
  <2>1. ASSUME DequeInv, NEW n \in Nat \ {0}, RingOf(n, ring) PROVE DequeTypeOK
    BY <2>1, RingIs DEF DequeInv, DequeTypeOK
  <2> QED
    BY <2>1 DEF DequeInv
<1> QED
  BY <1>1, <1>2, <1>3, PTL DEF DequeSpec
-----------------------------------------------------------------------------
(* The slot map.                                                           *)

Gens == 0..(Generations - 1)
CellOf == [value : Things \cup {Unset}, gen : 0..Generations, occ : BOOLEAN]
MapOf(n) == [cell : [0..(n - 1) -> CellOf], free : Seq(0..(n - 1)), len : Nat]

\* A handle that reaches something, and all of them.
Reaches(m, h) == /\ SlotOf(h) \in DOMAIN m.cell
                 /\ m.cell[SlotOf(h)].occ /\ m.cell[SlotOf(h)].gen = GenOf(h)
Good(m, hd) == {h \in DOMAIN hd : Reaches(m, h)}

FreeOnce(m) == \A i, j \in 1..Len(m.free) : m.free[i] = m.free[j] => i = j
FreeAreVacant(n, m) == \A s \in 0..(n - 1) : ~m.cell[s].occ <=> \E i \in 1..Len(m.free) : m.free[i] = s
\* A handle is of a generation that its slot has had, or has now for it.
HandedBefore(n, m, hd) ==
  \A h \in DOMAIN hd : \E s \in 0..(n - 1), g \in Gens :
    h = Handle(s, g) /\ g <= m.cell[s].gen /\ (g = m.cell[s].gen => m.cell[s].occ)
OccupiedAreHanded(n, m, hd) ==
  \A s \in 0..(n - 1) :
    m.cell[s].occ => /\ m.cell[s].gen < Generations
                     /\ Handle(s, m.cell[s].gen) \in DOMAIN hd
                     /\ hd[Handle(s, m.cell[s].gen)] = m.cell[s].value
AreCounted(n, m, hd) ==
  /\ m.len + Len(m.free) = n
  /\ IsFiniteSet(Good(m, hd)) /\ Cardinality(Good(m, hd)) = m.len

Sound(n, m, hd) ==
  /\ m \in MapOf(n) /\ FreeOnce(m) /\ FreeAreVacant(n, m)
  /\ HandedBefore(n, m, hd) /\ OccupiedAreHanded(n, m, hd) /\ AreCounted(n, m, hd)

SlotsInv == \E n \in FirstSlots..LastSlots : Sound(n, slots, handed)

\* A product with a larger factor.
LEMMA OneTurnMore ==
  ASSUME NEW s \in Nat, NEW q \in Nat, s < q, NEW k \in Nat
  PROVE  s * k + k <= q * k
<1>1. q = s + (q - s) /\ q - s \in Nat \ {0}
  OBVIOUS
<1>2. \A d \in Nat \ {0} : (s + d) * k >= s * k + k
  <2>1. TAKE d \in Nat \ {0}
  <2>2. (s + d) * k = s * k + d * k
    BY SMT
  <2>3. d * k >= k
    BY SMT
  <2> QED
    BY <2>2, <2>3, SMT
<1> QED
  BY <1>1, <1>2

\* A handle says its slot and its generation.
LEMMA HandlesSay ==
  ASSUME SlotAssumption, NEW s \in Nat, NEW g \in Gens
  PROVE  Handle(s, g) \in Nat /\ SlotOf(Handle(s, g)) = s /\ GenOf(Handle(s, g)) = g
<1> DEFINE k == Generations
           h == s * k + g
           q == h \div k
           r == h % k
<1>1. k \in Nat \ {0} /\ g \in 0..(k - 1) /\ s * k \in Nat
  BY SMT DEF SlotAssumption, Gens
<1>2. h \in Nat
  BY <1>1
<1> HIDE DEF k
<1>3. q \in Nat /\ r \in 0..(k - 1) /\ h = k * q + r
  <2> HIDE DEF h
  <2> QED
    BY <1>1, <1>2, SMT
<1> HIDE DEF q, r
<1>4. q * k = k * q /\ k * q \in Nat
  BY <1>1, <1>3, SMT
<1>5. ~(s < q)
  <2>1. ASSUME s < q PROVE s * k + k <= q * k
    BY <1>1, <1>3, <2>1, OneTurnMore
  <2> QED
    BY <1>1, <1>3, <1>4, <2>1
<1>6. ~(q < s)
  <2>1. ASSUME q < s PROVE q * k + k <= s * k
    BY <1>1, <1>3, <2>1, OneTurnMore
  <2> QED
    BY <1>1, <1>3, <1>4, <2>1
<1>7. q = s
  BY <1>3, <1>5, <1>6
<1>8. r = g
  BY <1>1, <1>3, <1>4, <1>7
<1> QED
  BY <1>2, <1>7, <1>8 DEF Handle, SlotOf, GenOf, q, r, k

\* So it reaches the slot it was given for, in the generation it was given in.
LEMMA ReachIs ==
  ASSUME SlotAssumption, NEW n \in Nat, NEW m \in MapOf(n), NEW s \in 0..(n - 1), NEW g \in Gens
  PROVE  Reaches(m, Handle(s, g)) <=> m.cell[s].occ /\ m.cell[s].gen = g
<1>1. SlotOf(Handle(s, g)) = s /\ GenOf(Handle(s, g)) = g
  BY HandlesSay
<1>2. DOMAIN m.cell = 0..(n - 1)
  BY DEF MapOf
<1> QED
  BY <1>1, <1>2 DEF Reaches

LEMMA SlotsBegin ==
  ASSUME SlotAssumption, SlotsInit
  PROVE  SlotsInv
<1> DEFINE n == FirstSlots
<1>1. n \in Nat \ {0} /\ n \in FirstSlots..LastSlots /\ 0 \in 0..Generations
  BY DEF SlotAssumption
<1>2. ToFree(0, n) \in Seq(0..(n - 1)) /\ Len(ToFree(0, n)) = n
      /\ \A i \in 1..n : ToFree(0, n)[i] = i - 1
  BY <1>1 DEF ToFree
<1>3. slots \in MapOf(n)
  BY <1>1, <1>2 DEF SlotsInit, MapOf, CellOf, SlotNumbers
<1>4. FreeOnce(slots)
  BY <1>1, <1>2 DEF SlotsInit, FreeOnce
<1>5. FreeAreVacant(n, slots)
  <2>1. ASSUME NEW s \in 0..(n - 1)
        PROVE  ~slots.cell[s].occ /\ \E i \in 1..Len(slots.free) : slots.free[i] = s
    <3>1. s + 1 \in 1..n /\ s + 1 - 1 = s
      BY <1>1
    <3> QED
      BY <1>2, <3>1 DEF SlotsInit, SlotNumbers
  <2> QED
    BY <2>1 DEF FreeAreVacant
<1>6. HandedBefore(n, slots, handed) /\ OccupiedAreHanded(n, slots, handed)
  BY DEF SlotsInit, HandedBefore, OccupiedAreHanded, SlotNumbers
<1>7. Good(slots, handed) = {}
  BY DEF SlotsInit, Good
<1>8. AreCounted(n, slots, handed)
  <2>1. slots.len = 0 /\ slots.free = ToFree(0, n)
    BY DEF SlotsInit
  <2>2. slots.len + Len(slots.free) = n
    BY <1>1, <1>2, <2>1
  <2>3. IsFiniteSet({}) /\ Cardinality({}) = 0
    BY FS_EmptySet
  <2> QED
    BY <1>7, <2>1, <2>2, <2>3 DEF AreCounted
<1> QED
  BY <1>1, <1>3, <1>4, <1>5, <1>6, <1>8 DEF Sound, SlotsInv

\* A map after its cells and its free slots have been written, and after one cell has.
LEMMA MapWritten ==
  ASSUME NEW D, NEW F, NEW N, NEW m \in [cell : D, free : F, len : N],
         NEW E, NEW d \in E, NEW f \in F, NEW n \in N,
         NEW s, NEW c, [m.cell EXCEPT ![s] = c] \in D
  PROVE  /\ [m EXCEPT !.cell = d, !.free = f] = [cell |-> d, free |-> f, len |-> m.len]
         /\ [m EXCEPT !.free = f, !.len = n, !.cell[s] = c]
               = [cell |-> [m.cell EXCEPT ![s] = c], free |-> f, len |-> n]
         /\ [m EXCEPT !.cell[s] = c, !.free = f, !.len = n]
               = [cell |-> [m.cell EXCEPT ![s] = c], free |-> f, len |-> n]
<1> DEFINE R == [cell : D \cup E, free : F, len : N]
           e == [m.cell EXCEPT ![s] = c]
           u == [m EXCEPT !.cell = d, !.free = f]
           v == [m EXCEPT !.free = f, !.len = n, !.cell[s] = c]
           w == [m EXCEPT !.cell[s] = c, !.free = f, !.len = n]
<1>1. ASSUME NEW r \in R PROVE r = [cell |-> r.cell, free |-> r.free, len |-> r.len]
  BY Zenon
<1>2. u \in R /\ u.cell = d /\ u.free = f /\ u.len = m.len
  BY Zenon
<1>3. v \in R /\ v.cell = e /\ v.free = f /\ v.len = n
  BY Zenon
<1>4. w \in R /\ w.cell = e /\ w.free = f /\ w.len = n
  BY Zenon
<1>5. QED
  <2> HIDE DEF R, u, v, w, e
  <2>1. /\ u = [cell |-> d, free |-> f, len |-> m.len]
        /\ v = [cell |-> e, free |-> f, len |-> n]
        /\ w = [cell |-> e, free |-> f, len |-> n]
    BY <1>1, <1>2, <1>3, <1>4
  <2> QED
    BY Zenon, <2>1 DEF e, u, v, w
\* A cell after it has been filled, and after it has been left.
LEMMA CellWritten ==
  ASSUME NEW c \in CellOf, NEW x \in Things \cup {Unset}
  PROVE  /\ [c EXCEPT !.value = x, !.occ = TRUE] = [value |-> x, gen |-> c.gen, occ |-> TRUE]
         /\ Vacant(c) = [value |-> c.value, gen |-> c.gen + 1, occ |-> FALSE]
<1> DEFINE R == [value : Things \cup {Unset}, gen : (0..Generations) \cup {c.gen + 1}, occ : BOOLEAN]
           u == [c EXCEPT !.value = x, !.occ = TRUE]
           v == [c EXCEPT !.occ = FALSE, !.gen = @ + 1]
<1>1. ASSUME NEW r \in R PROVE r = [value |-> r.value, gen |-> r.gen, occ |-> r.occ]
  BY Zenon
<1>2. u \in R /\ u.value = x /\ u.gen = c.gen /\ u.occ = TRUE
  BY Zenon DEF CellOf
<1>3. v \in R /\ v.value = c.value /\ v.gen = c.gen + 1 /\ v.occ = FALSE
  BY Zenon DEF CellOf
<1>4. QED
  <2> HIDE DEF R, u, v
  <2>1. /\ u = [value |-> x, gen |-> c.gen, occ |-> TRUE]
        /\ v = [value |-> c.value, gen |-> c.gen + 1, occ |-> FALSE]
    BY <1>1, <1>2, <1>3
  <2> QED
    BY Zenon, <2>1 DEF u, v, Vacant

\* A larger map is as sound, and the handles reach what they did.
LEMMA EnlargedKeeps ==
  ASSUME SlotAssumption, NEW n \in Nat \ {0}, NEW m, NEW hd, Sound(n, m, hd), m.free = << >>
  PROVE  /\ Sound(2 * n, Enlarged(m), hd)
         /\ \A h \in DOMAIN hd : Reaches(m, h) <=> Reaches(Enlarged(m), h)
<1> DEFINE e == Enlarged(m)
           new == [value |-> Unset, gen |-> 0, occ |-> FALSE]
           cells == [s \in 0..(2 * n - 1) |-> IF s < n THEN m.cell[s] ELSE new]
           rest == ToFree(n, 2 * n)
<1>1. m \in MapOf(n) /\ DOMAIN m.cell = 0..(n - 1) /\ m.cell \in [0..(n - 1) -> CellOf] /\ m.len \in Nat
  BY DEF Sound, MapOf
<1>2. Cells(m) = n
  <2>1. Cardinality(0..(n - 1)) = n
    BY FS_Interval
  <2> QED
    BY <1>1, <2>1 DEF Cells
<1>3. e = [cell |-> cells, free |-> rest, len |-> m.len]
  <2>1. rest \in Seq(Nat) /\ m \in [cell : [0..(n - 1) -> CellOf], free : Seq(Nat), len : Nat]
    BY <1>1 DEF ToFree, MapOf
  <2>2. e = [m EXCEPT !.cell = cells, !.free = rest]
    BY Zenon, <1>2 DEF Enlarged, SlotNumbers
  <2> HIDE DEF cells, rest, e
  <2> QED
    BY Zenon, <2>1, <2>2, MapWritten
<1>4. /\ rest \in Seq(0..(2 * n - 1)) /\ Len(rest) = n /\ \A i \in 1..n : rest[i] = n + i - 1
  <2>1. 2 * n - n = n
    OBVIOUS
  <2> QED
    BY <2>1 DEF ToFree
<1>5. new \in CellOf
  BY DEF CellOf, SlotAssumption
<1>6. cells \in [0..(2 * n - 1) -> CellOf]
  BY <1>1, <1>5
<1>7. /\ \A s \in 0..(n - 1) : s \in 0..(2 * n - 1) /\ cells[s] = m.cell[s]
      /\ \A s \in 0..(2 * n - 1) : s \notin 0..(n - 1) => cells[s] = new
  OBVIOUS
<1>8. \A s \in 0..(n - 1) : m.cell[s].occ
  BY DEF Sound, FreeAreVacant
<1> HIDE DEF cells, rest, e
<1>9. e \in MapOf(2 * n)
  BY <1>1, <1>3, <1>4, <1>6 DEF MapOf
<1>10. FreeOnce(e)
  BY <1>3, <1>4 DEF FreeOnce
<1>11. FreeAreVacant(2 * n, e)
  <2>1. ASSUME NEW s \in 0..(2 * n - 1)
        PROVE  ~cells[s].occ <=> \E i \in 1..n : rest[i] = s
    <3>1. CASE s \in 0..(n - 1)
      <4>1. ASSUME NEW i \in 1..n PROVE rest[i] # s
        BY <1>4, <3>1
      <4> QED
        BY <1>7, <1>8, <3>1, <4>1
    <3>2. CASE s \notin 0..(n - 1)
      <4>1. s - n + 1 \in 1..n /\ n + (s - n + 1) - 1 = s
        BY <3>2
      <4> QED
        <5>1. rest[s - n + 1] = s
          BY <1>4, <4>1
        <5>2. ~cells[s].occ
          BY <1>7, <3>2
        <5> QED
          BY <4>1, <5>1, <5>2
    <3> QED
      BY <3>1, <3>2
  <2> QED
    BY <1>3, <1>4, <2>1 DEF FreeAreVacant
<1>12. HandedBefore(2 * n, e, hd)
  BY <1>3, <1>7 DEF Sound, HandedBefore
<1>13. OccupiedAreHanded(2 * n, e, hd)
  BY <1>3, <1>7 DEF Sound, OccupiedAreHanded
<1>14. ASSUME NEW h \in DOMAIN hd PROVE Reaches(m, h) <=> Reaches(e, h)
  <2>1. PICK s \in 0..(n - 1), g \in Gens : h = Handle(s, g)
    BY DEF Sound, HandedBefore
  <2>2. s \in 0..(2 * n - 1) /\ n \in Nat /\ 2 * n \in Nat
    OBVIOUS
  <2>3. Reaches(m, h) <=> m.cell[s].occ /\ m.cell[s].gen = g
    BY <1>1, <2>1, <2>2, ReachIs
  <2>4. Reaches(e, h) <=> e.cell[s].occ /\ e.cell[s].gen = g
    BY <1>9, <2>1, <2>2, ReachIs
  <2> QED
    BY <1>3, <1>7, <2>3, <2>4
<1>15. Good(m, hd) = Good(e, hd)
  BY <1>14 DEF Good
<1>16. AreCounted(2 * n, e, hd)
  <2>1. m.len + Len(m.free) = n /\ Len(m.free) = 0
    BY DEF Sound, AreCounted
  <2>2. m.len + n = 2 * n
    BY <1>1, <2>1
  <2> QED
    BY <1>3, <1>4, <1>15, <2>2 DEF Sound, AreCounted
<1> QED
  BY <1>9, <1>10, <1>11, <1>12, <1>13, <1>14, <1>16 DEF Sound, e

\* The free slots but the last.
LEMMA AllButLast ==
  ASSUME NEW S, NEW f \in Seq(S), Len(f) \in Nat \ {0}
  PROVE  /\ SubSeq(f, 1, Len(f) - 1) \in Seq(S) /\ Len(SubSeq(f, 1, Len(f) - 1)) = Len(f) - 1
         /\ \A i \in 1..(Len(f) - 1) : SubSeq(f, 1, Len(f) - 1)[i] = f[i] /\ i \in 1..Len(f)
<1> DEFINE l == Len(f)
           r == SubSeq(f, 1, l - 1)
<1>0. l \in Nat \ {0} /\ \A i \in 1..l : f[i] \in S
  OBVIOUS
<1> HIDE DEF l
<1>1. /\ 1 \in Int /\ l - 1 \in Int /\ (l - 1) - 1 + 1 = l - 1 /\ (1 > l - 1 => l - 1 = 0)
      /\ \A i \in 1..(l - 1) : i \in 1..l /\ f[i] \in S /\ 1 + i - 1 = i
  BY <1>0
<1>2. /\ r \in Seq(S) /\ Len(r) = IF 1 <= l - 1 THEN l - 1 - 1 + 1 ELSE 0
      /\ \A i \in 1..(l - 1 - 1 + 1) : r[i] = f[1 + i - 1]
  BY <1>1, SubSeqProperties
<1> HIDE DEF r
<1>3. r \in Seq(S) /\ Len(r) = l - 1 /\ \A i \in 1..(l - 1) : r[i] = f[i] /\ i \in 1..l
  BY <1>1, <1>2
<1> QED
  BY Zenon, <1>3 DEF l, r

\* A slot that was free is given out.
LEMMA InsertKeeps ==
  ASSUME SlotAssumption, NEW n \in Nat \ {0}, NEW m, NEW hd, Sound(n, m, hd), m.free # << >>,
         NEW x \in Things,
         m.cell[m.free[Len(m.free)]].gen < Generations
  PROVE  LET s == m.free[Len(m.free)]
             h == Handle(s, m.cell[s].gen)
             p == [m EXCEPT !.free = SubSeq(@, 1, Len(@) - 1), !.len = @ + 1,
                            !.cell[s] = [@ EXCEPT !.value = x, !.occ = TRUE]]
             hp == [y \in DOMAIN hd \cup {h} |-> IF y = h THEN x ELSE hd[y]]
         IN  /\ Sound(n, p, hp)
             /\ h \notin DOMAIN hd
             /\ \A y \in DOMAIN hd : Reaches(p, y) <=> Reaches(m, y)
<1> DEFINE l == Len(m.free)
           s == m.free[l]
           g == m.cell[s].gen
           h == Handle(s, g)
           p == [m EXCEPT !.free = SubSeq(@, 1, Len(@) - 1), !.len = @ + 1,
                          !.cell[s] = [@ EXCEPT !.value = x, !.occ = TRUE]]
           hp == [y \in DOMAIN hd \cup {h} |-> IF y = h THEN x ELSE hd[y]]
           filled == [value |-> x, gen |-> g, occ |-> TRUE]
           cells == [m.cell EXCEPT ![s] = filled]
           rest == SubSeq(m.free, 1, l - 1)
<1>1. /\ m \in MapOf(n) /\ m.cell \in [0..(n - 1) -> CellOf] /\ m.len \in Nat
      /\ m.free \in Seq(0..(n - 1)) /\ l \in Nat \ {0}
  BY DEF Sound, MapOf
<1>2. s \in 0..(n - 1) /\ l \in 1..l
  BY <1>1
<1>3. ~m.cell[s].occ
  BY <1>2 DEF Sound, FreeAreVacant
<1>4. g \in Gens
  <2>1. m.cell[s] \in CellOf
    BY <1>1, <1>2
  <2>2. g \in 0..Generations
    BY <2>1 DEF CellOf
  <2> HIDE DEF g
  <2>3. g < Generations
    BY DEF g
  <2> QED
    BY <2>2, <2>3 DEF Gens, SlotAssumption
<1>5. p = [cell |-> cells, free |-> rest, len |-> m.len + 1]
  <2>1. [m.cell[s] EXCEPT !.value = x, !.occ = TRUE] = filled
    <3>1. m.cell[s] \in CellOf /\ x \in Things \cup {Unset}
      BY <1>1, <1>2
    <3> HIDE DEF s
    <3> QED
      BY Zenon, <3>1, CellWritten
  <2>2. rest \in Seq(0..(n - 1)) /\ m.len + 1 \in Nat
    <3>1. m.len + 1 \in Nat
      BY <1>1
    <3> QED
      BY Zenon, <1>1, <3>1, AllButLast
  <2>3. cells \in [0..(n - 1) -> CellOf]
    <3>1. filled \in CellOf
      BY <1>4 DEF CellOf, Gens, SlotAssumption
    <3> HIDE DEF filled
    <3> QED
      BY <1>1, <1>2, <3>1
  <2>4. p = [m EXCEPT !.free = rest, !.len = m.len + 1, !.cell[s] = filled]
    BY Zenon, <2>1
  <2>5. m \in [cell : [0..(n - 1) -> CellOf], free : Seq(0..(n - 1)), len : Nat]
    BY <1>1 DEF MapOf
  <2> HIDE DEF filled, rest, p, s
  <2> QED
    BY Zenon, <2>2, <2>3, <2>4, <2>5, MapWritten
<1>6. /\ rest \in Seq(0..(n - 1)) /\ Len(rest) = l - 1
      /\ \A i \in 1..(l - 1) : rest[i] = m.free[i] /\ i \in 1..l
  BY Zenon, <1>1, AllButLast
<1>7. /\ cells \in [0..(n - 1) -> CellOf] /\ cells[s] = filled
      /\ \A z \in 0..(n - 1) : z # s => cells[z] = m.cell[z]
  <2>1. filled \in CellOf
    BY <1>4 DEF CellOf, Gens, SlotAssumption
  <2> HIDE DEF filled
  <2> QED
    BY <1>1, <1>2, <2>1
<1>8. filled.occ /\ filled.gen = g /\ filled.value = x
  OBVIOUS
<1>9. h \notin DOMAIN hd
  <2> SUFFICES ASSUME h \in DOMAIN hd PROVE FALSE
    OBVIOUS
  <2>1. PICK z \in 0..(n - 1), f \in Gens :
          h = Handle(z, f) /\ (f = m.cell[z].gen => m.cell[z].occ)
    BY DEF Sound, HandedBefore
  <2>2. z = SlotOf(h) /\ f = GenOf(h)
    BY <2>1, HandlesSay
  <2>3. s = SlotOf(h) /\ g = GenOf(h)
    <3>1. s \in Nat
      BY <1>2
    <3> QED
      BY <1>4, <3>1, HandlesSay
  <2> QED
    BY <1>3, <2>1, <2>2, <2>3
<1>10. /\ DOMAIN hp = DOMAIN hd \cup {h} /\ hp[h] = x
       /\ \A y \in DOMAIN hd : y # h /\ hp[y] = hd[y]
  BY <1>9
<1> HIDE DEF p, hp, cells, rest, filled, h, g, s, l
<1>11. p \in MapOf(n)
  BY <1>1, <1>5, <1>6, <1>7 DEF MapOf
<1>12. FreeOnce(p)
  <2>1. \A i, j \in 1..l : m.free[i] = m.free[j] => i = j
    BY DEF Sound, FreeOnce, l
  <2>2. p.free = rest
    BY <1>5
  <2>3. ASSUME NEW i \in 1..(l - 1), NEW j \in 1..(l - 1), rest[i] = rest[j] PROVE i = j
    BY <1>6, <2>1, <2>3
  <2> QED
    BY <1>6, <2>2, <2>3 DEF FreeOnce
<1>13. FreeAreVacant(n, p)
  <2>1. \A i, j \in 1..l : m.free[i] = m.free[j] => i = j
    BY DEF Sound, FreeOnce, l
  <2>2. \A z \in 0..(n - 1) : ~m.cell[z].occ <=> \E i \in 1..l : m.free[i] = z
    BY DEF Sound, FreeAreVacant, l
  <2>3. m.free[l] = s
    BY DEF s
  <2>4. ASSUME NEW z \in 0..(n - 1) PROVE ~cells[z].occ <=> \E i \in 1..(l - 1) : rest[i] = z
    <3>1. CASE z = s
      <4>1. ASSUME NEW i \in 1..(l - 1), rest[i] = s PROVE FALSE
        <5>1. i \in 1..l /\ l \in 1..l /\ i # l
          BY <1>1
        <5> QED
          BY <1>6, <2>1, <2>3, <4>1, <5>1
      <4> QED
        BY <1>7, <1>8, <3>1, <4>1
    <3>2. CASE z # s
      <4>1. ASSUME NEW i \in 1..l, m.free[i] = z PROVE i \in 1..(l - 1)
        BY <1>1, <2>3, <3>2, <4>1
      <4> QED
        BY <1>6, <1>7, <2>2, <3>2, <4>1
    <3> QED
      BY <3>1, <3>2
  <2> QED
    BY <1>5, <1>6, <2>4 DEF FreeAreVacant
<1>14. HandedBefore(n, p, hp)
  <2>1. ASSUME NEW y \in DOMAIN hd
        PROVE  \E z \in 0..(n - 1), f \in Gens :
                 y = Handle(z, f) /\ f <= cells[z].gen /\ (f = cells[z].gen => cells[z].occ)
    <3>1. PICK z \in 0..(n - 1), f \in Gens :
            y = Handle(z, f) /\ f <= m.cell[z].gen /\ (f = m.cell[z].gen => m.cell[z].occ)
      BY DEF Sound, HandedBefore
    <3>2. cells[z].gen = m.cell[z].gen /\ (m.cell[z].occ => cells[z].occ)
      BY <1>3, <1>7, <1>8 DEF g
    <3> QED
      BY <3>1, <3>2
  <2>2. h = Handle(s, g) /\ g <= cells[s].gen /\ cells[s].occ
    BY <1>4, <1>7, <1>8 DEF h, Gens, SlotAssumption
  <2> QED
    BY <1>2, <1>4, <1>5, <1>10, <2>1, <2>2 DEF HandedBefore
<1>15. OccupiedAreHanded(n, p, hp)
  <2>1. ASSUME NEW z \in 0..(n - 1), cells[z].occ
        PROVE  /\ cells[z].gen < Generations
               /\ Handle(z, cells[z].gen) \in DOMAIN hp
               /\ hp[Handle(z, cells[z].gen)] = cells[z].value
    <3>1. CASE z = s
      BY <1>4, <1>7, <1>8, <1>10, <3>1 DEF h, Gens, SlotAssumption
    <3>2. CASE z # s
      BY <1>7, <1>10, <2>1, <3>2 DEF Sound, OccupiedAreHanded
    <3> QED
      BY <3>1, <3>2
  <2> QED
    BY <1>5, <2>1 DEF OccupiedAreHanded
<1>16. ASSUME NEW y \in DOMAIN hd PROVE Reaches(p, y) <=> Reaches(m, y)
  <2>1. PICK z \in 0..(n - 1), f \in Gens :
          y = Handle(z, f) /\ (f = m.cell[z].gen => m.cell[z].occ)
    BY DEF Sound, HandedBefore
  <2>2. Reaches(m, y) <=> m.cell[z].occ /\ m.cell[z].gen = f
    BY <1>1, <2>1, ReachIs
  <2>3. Reaches(p, y) <=> p.cell[z].occ /\ p.cell[z].gen = f
    BY <1>11, <2>1, ReachIs
  <2>4. p.cell[z].gen = m.cell[z].gen /\ (z # s => p.cell[z].occ = m.cell[z].occ)
    BY <1>5, <1>7, <1>8 DEF g
  <2> QED
    BY <1>3, <2>1, <2>2, <2>3, <2>4 DEF g
<1>17. Reaches(p, h)
  <2>1. p.cell[s].occ /\ p.cell[s].gen = g
    BY <1>5, <1>7, <1>8
  <2> QED
    BY <1>2, <1>4, <1>11, <2>1, ReachIs DEF h
<1>18. Good(p, hp) = Good(m, hd) \cup {h} /\ h \notin Good(m, hd)
  BY <1>9, <1>10, <1>16, <1>17 DEF Good
<1>19. AreCounted(n, p, hp)
  <2>1. /\ IsFiniteSet(Good(m, hd)) /\ Cardinality(Good(m, hd)) = m.len
        /\ m.len + l = n
    BY DEF Sound, AreCounted, l
  <2>2. IsFiniteSet(Good(p, hp)) /\ Cardinality(Good(p, hp)) = m.len + 1
    BY <1>18, <2>1, FS_AddElement
  <2>3. p.len + Len(p.free) = n
    <3>1. p.len = m.len + 1 /\ Len(p.free) = l - 1
      BY <1>5, <1>6
    <3> QED
      BY <1>1, <2>1, <3>1
  <2> QED
    BY <1>5, <2>2, <2>3 DEF AreCounted
<1>20. Sound(n, p, hp)
  BY <1>11, <1>12, <1>13, <1>14, <1>15, <1>19 DEF Sound
<1> QED
  BY <1>9, <1>16, <1>20 DEF p, hp, h, g, s, l

\* One that is given back is of a generation that nobody has a handle of.
LEMMA RemoveKeeps ==
  ASSUME SlotAssumption, NEW n \in Nat \ {0}, NEW m, NEW hd, Sound(n, m, hd),
         NEW h \in DOMAIN hd, Reaches(m, h)
  PROVE  LET p == [m EXCEPT !.cell[SlotOf(h)] = Vacant(@), !.free = Append(@, SlotOf(h)),
                            !.len = @ - 1]
         IN  /\ Sound(n, p, hd)
             /\ \A y \in DOMAIN hd : Reaches(p, y) => Reaches(m, y)
<1> DEFINE s == SlotOf(h)
           g == m.cell[s].gen
           l == Len(m.free)
           p == [m EXCEPT !.cell[SlotOf(h)] = Vacant(@), !.free = Append(@, SlotOf(h)),
                          !.len = @ - 1]
           left == [value |-> m.cell[s].value, gen |-> g + 1, occ |-> FALSE]
           cells == [m.cell EXCEPT ![s] = left]
           more == Append(m.free, s)
<1>1. /\ m \in MapOf(n) /\ m.cell \in [0..(n - 1) -> CellOf] /\ m.len \in Nat
      /\ m.free \in Seq(0..(n - 1)) /\ l \in Nat
  BY DEF Sound, MapOf
<1>2. PICK z \in 0..(n - 1), f \in Gens : h = Handle(z, f)
  BY DEF Sound, HandedBefore
<1>3. s \in 0..(n - 1) /\ GenOf(h) \in Gens /\ h = Handle(s, GenOf(h))
  BY <1>2, HandlesSay
<1>4. m.cell[s].occ /\ g = GenOf(h)
  BY DEF Reaches
<1>5. p = [cell |-> cells, free |-> more, len |-> m.len - 1]
  <2>1. Vacant(m.cell[s]) = left
    <3>1. m.cell[s] \in CellOf /\ Unset \in Things \cup {Unset}
      BY <1>1, <1>3
    <3> QED
      BY Zenon, <3>1, CellWritten
  <2>2. more \in Seq(0..(n - 1)) /\ m.len - 1 \in Int
    BY <1>1, <1>3
  <2>3. cells \in [0..(n - 1) -> CellOf]
    <3>1. left \in CellOf
      BY <1>1, <1>3, <1>4 DEF CellOf, Gens, SlotAssumption
    <3> HIDE DEF left
    <3> QED
      BY <1>1, <1>3, <3>1
  <2>4. m \in [cell : [0..(n - 1) -> CellOf], free : Seq(0..(n - 1)), len : Int]
    BY <1>1 DEF MapOf
  <2>5. p = [m EXCEPT !.cell[s] = left, !.free = more, !.len = m.len - 1]
    BY Zenon, <2>1
  <2> HIDE DEF left, more, p
  <2> QED
    BY Zenon, <2>2, <2>3, <2>4, <2>5, MapWritten
<1>6. /\ cells \in [0..(n - 1) -> CellOf] /\ cells[s] = left
      /\ \A y \in 0..(n - 1) : y # s => cells[y] = m.cell[y]
  <2>1. left \in CellOf
    BY <1>1, <1>3, <1>4 DEF CellOf, Gens, SlotAssumption
  <2> HIDE DEF left
  <2> QED
    BY <1>1, <1>3, <2>1
<1>7. ~left.occ /\ left.gen = g + 1 /\ g \in Nat
  BY <1>3, <1>4 DEF Gens, SlotAssumption
<1>8. /\ more \in Seq(0..(n - 1)) /\ Len(more) = l + 1
      /\ more[l + 1] = s /\ \A i \in 1..l : more[i] = m.free[i]
  BY <1>1, <1>3, AppendProperties
<1>9. /\ \A i, j \in 1..l : m.free[i] = m.free[j] => i = j
      /\ \A y \in 0..(n - 1) : ~m.cell[y].occ <=> \E i \in 1..l : m.free[i] = y
  BY DEF Sound, FreeOnce, FreeAreVacant
<1> HIDE DEF p, cells, more, left, g, s, l
<1>10. p \in MapOf(n)
  <2>1. /\ IsFiniteSet(Good(m, hd)) /\ Cardinality(Good(m, hd)) = m.len /\ h \in Good(m, hd)
    BY DEF Sound, AreCounted, Good
  <2>2. m.len # 0
    BY <2>1, FS_EmptySet
  <2>3. m.len - 1 \in Nat
    BY <1>1, <2>2
  <2> QED
    BY <1>5, <1>6, <1>8, <2>3 DEF MapOf
<1>11. FreeOnce(p)
  <2>1. ASSUME NEW i \in 1..(l + 1), NEW j \in 1..(l + 1), more[i] = more[j] PROVE i = j
    <3>1. ASSUME NEW k \in 1..l PROVE more[k] # s
      BY <1>3, <1>4, <1>8, <1>9
    <3>2. (i \in 1..l \/ i = l + 1) /\ (j \in 1..l \/ j = l + 1)
      BY <1>1
    <3> QED
      BY <1>8, <1>9, <2>1, <3>1, <3>2
  <2> QED
    BY <1>5, <1>8, <2>1 DEF FreeOnce
<1>12. FreeAreVacant(n, p)
  <2>1. ASSUME NEW y \in 0..(n - 1) PROVE ~cells[y].occ <=> \E i \in 1..(l + 1) : more[i] = y
    <3>1. CASE y = s
      <4>1. l + 1 \in 1..(l + 1)
        BY <1>1
      <4> QED
        BY <1>6, <1>7, <1>8, <3>1, <4>1
    <3>2. CASE y # s
      <4>1. ASSUME NEW i \in 1..(l + 1), more[i] = y PROVE i \in 1..l
        BY <1>1, <1>8, <3>2, <4>1
      <4>2. \A i \in 1..l : i \in 1..(l + 1)
        BY <1>1
      <4> QED
        <5>1. ~m.cell[y].occ <=> \E i \in 1..l : m.free[i] = y
          BY <1>9
        <5>2. (\E i \in 1..l : m.free[i] = y) <=> \E i \in 1..(l + 1) : more[i] = y
          BY <1>8, <4>1, <4>2
        <5> QED
          BY <1>6, <3>2, <5>1, <5>2
    <3> QED
      BY <3>1, <3>2
  <2> QED
    BY <1>5, <1>8, <2>1 DEF FreeAreVacant
<1>13. HandedBefore(n, p, hd)
  <2>1. ASSUME NEW y \in DOMAIN hd
        PROVE  \E u \in 0..(n - 1), e \in Gens :
                 y = Handle(u, e) /\ e <= cells[u].gen /\ (e = cells[u].gen => cells[u].occ)
    <3>1. PICK u \in 0..(n - 1), e \in Gens :
            y = Handle(u, e) /\ e <= m.cell[u].gen /\ (e = m.cell[u].gen => m.cell[u].occ)
      BY DEF Sound, HandedBefore
    <3>2. CASE u = s
      <4>1. e <= g /\ e \in Nat
        BY <3>1, <3>2 DEF g, Gens, SlotAssumption
      <4>2. e < g + 1
        BY <1>7, <4>1
      <4>3. cells[u].gen = g + 1
        BY <1>6, <1>7, <3>2
      <4>4. e <= cells[u].gen /\ e # cells[u].gen
        BY <1>7, <4>1, <4>2, <4>3
      <4> QED
        BY <3>1, <4>4
    <3>3. CASE u # s
      BY <1>6, <3>1, <3>3
    <3> QED
      BY <3>2, <3>3
  <2> QED
    BY <1>5, <2>1 DEF HandedBefore
<1>14. OccupiedAreHanded(n, p, hd)
  <2>1. ASSUME NEW y \in 0..(n - 1), cells[y].occ PROVE cells[y] = m.cell[y] /\ m.cell[y].occ
    BY <1>6, <1>7, <2>1
  <2> QED
    BY <1>5, <2>1 DEF Sound, OccupiedAreHanded
<1>15. ASSUME NEW y \in DOMAIN hd PROVE Reaches(p, y) <=> Reaches(m, y) /\ y # h
  <2>1. PICK u \in 0..(n - 1), e \in Gens : y = Handle(u, e) /\ e <= m.cell[u].gen
    BY DEF Sound, HandedBefore
  <2>2. Reaches(m, y) <=> m.cell[u].occ /\ m.cell[u].gen = e
    BY <1>1, <2>1, ReachIs
  <2>3. Reaches(p, y) <=> cells[u].occ /\ cells[u].gen = e
    BY <1>5, <1>10, <2>1, ReachIs
  <2>4. CASE u = s
    <3>1. ~cells[u].occ
      BY <1>6, <1>7, <2>4
    <3>2. Reaches(m, y) => y = h
      BY <1>3, <1>4, <2>1, <2>2, <2>4 DEF g
    <3> QED
      BY <2>3, <3>1, <3>2
  <2>5. CASE u # s
    <3>1. y # h
      <4>1. u \in Nat /\ SlotOf(y) = u
        <5>1. u \in Nat
          OBVIOUS
        <5> QED
          BY <2>1, <5>1, HandlesSay
      <4> QED
        BY <2>5, <4>1 DEF s
    <3> QED
      BY <1>6, <2>2, <2>3, <2>5, <3>1
  <2> QED
    BY <2>4, <2>5
<1>16. Good(p, hd) = Good(m, hd) \ {h} /\ h \in Good(m, hd)
  BY <1>15 DEF Good
<1>17. AreCounted(n, p, hd)
  <2>1. /\ IsFiniteSet(Good(m, hd)) /\ Cardinality(Good(m, hd)) = m.len
        /\ m.len + l = n
    BY DEF Sound, AreCounted, l
  <2>2. IsFiniteSet(Good(p, hd)) /\ Cardinality(Good(p, hd)) = m.len - 1
    BY <1>16, <2>1, FS_RemoveElement
  <2>3. p.len + Len(p.free) = n
    <3>1. p.len = m.len - 1 /\ Len(p.free) = l + 1
      BY <1>5, <1>8
    <3> QED
      BY <1>1, <2>1, <3>1
  <2> QED
    BY <1>5, <2>2, <2>3 DEF AreCounted
<1>18. Sound(n, p, hd)
  BY <1>10, <1>11, <1>12, <1>13, <1>14, <1>17 DEF Sound
<1> QED
  BY <1>15, <1>18 DEF p

\* What Reaches says of a handle that was handed out is what the map answers.
LEMMA ReachesIsContains ==
  ASSUME SlotAssumption, SlotsInv, NEW h \in DOMAIN handed
  PROVE  ContainsHandle(h) <=> Reaches(slots, h)
<1>1. PICK n \in FirstSlots..LastSlots : Sound(n, slots, handed)
  BY DEF SlotsInv
<1>2. n \in Nat
  BY DEF SlotAssumption
<1>3. Cells(slots) = n /\ DOMAIN slots.cell = 0..(n - 1)
  <2>1. Cardinality(0..(n - 1)) = n
    BY <1>2, FS_Interval
  <2> QED
    BY <1>1, <2>1 DEF Cells, Sound, MapOf
<1>4. PICK s \in 0..(n - 1), g \in Gens : h = Handle(s, g)
  BY <1>1 DEF Sound, HandedBefore
<1>5. SlotOf(h) = s
  BY <1>2, <1>4, HandlesSay
<1> QED
  BY <1>2, <1>3, <1>4, <1>5 DEF ContainsHandle, Reaches

\* Each step keeps the map sound, and lets no handle reach anything again.
LEMMA SlotsGoOn ==
  ASSUME SlotAssumption, SlotsInv, SlotsNext
  PROVE  /\ SlotsInv'
         /\ \A h \in DOMAIN handed :
              /\ h \in DOMAIN handed'
              /\ ~Reaches(slots, h) => ~Reaches(slots', h) /\ handed'[h] = handed[h]
<1>1. PICK n \in FirstSlots..LastSlots : Sound(n, slots, handed)
  BY DEF SlotsInv
<1>2. /\ n \in Nat \ {0} /\ 2 * n \in Nat \ {0} /\ n <= 2 * n /\ FirstSlots <= n
      /\ FirstSlots \in Nat /\ LastSlots \in Nat
  BY DEF SlotAssumption
<1>3. Cells(slots) = n
  <2>1. Cardinality(0..(n - 1)) = n
    BY <1>2, FS_Interval
  <2> QED
    BY <1>1, <2>1 DEF Cells, Sound, MapOf
<1>4. ASSUME NEW x \in Things, Insert(x)
      PROVE  /\ SlotsInv'
             /\ \A h \in DOMAIN handed :
                  /\ h \in DOMAIN handed' /\ handed'[h] = handed[h]
                  /\ Reaches(slots', h) <=> Reaches(slots, h)
  <2> DEFINE m == IF slots.free = << >> THEN Enlarged(slots) ELSE slots
             s == m.free[Len(m.free)]
             h == Handle(s, m.cell[s].gen)
             p == [m EXCEPT !.free = SubSeq(@, 1, Len(@) - 1), !.len = @ + 1,
                            !.cell[s] = [@ EXCEPT !.value = x, !.occ = TRUE]]
             hp == [y \in DOMAIN handed \cup {h} |-> IF y = h THEN x ELSE handed[y]]
  <2>1. PICK k \in FirstSlots..LastSlots :
          /\ k \in Nat \ {0} /\ Sound(k, m, handed) /\ m.free # << >>
          /\ \A y \in DOMAIN handed : Reaches(m, y) <=> Reaches(slots, y)
    <3>1. CASE slots.free = << >>
      <4>1. 2 * n \in FirstSlots..LastSlots
        BY <1>2, <1>3, <1>4, <3>1 DEF Insert
      <4>2. /\ Sound(2 * n, m, handed)
            /\ \A y \in DOMAIN handed : Reaches(m, y) <=> Reaches(slots, y)
        BY <1>1, <1>2, <3>1, EnlargedKeeps
      <4>3. m.free = ToFree(n, 2 * n)
        BY <1>3, <3>1 DEF Enlarged
      <4>4. m.free # << >>
        <5>1. Len(ToFree(n, 2 * n)) = n
          BY <1>2 DEF ToFree
        <5> QED
          BY <1>2, <4>3, <5>1
      <4> QED
        BY <1>2, <4>1, <4>2, <4>4
    <3>2. CASE slots.free # << >>
      BY <1>1, <1>2, <3>2
    <3> QED
      BY <3>1, <3>2
  <2>2. m.cell[s].gen < Generations /\ slots' = p /\ handed' = hp
    BY Zenon, <1>4 DEF Insert
  <2> HIDE DEF m
  <2>3. /\ Sound(k, p, hp) /\ h \notin DOMAIN handed
        /\ \A y \in DOMAIN handed : Reaches(p, y) <=> Reaches(m, y)
    <3>1. /\ k \in Nat \ {0} /\ Sound(k, m, handed) /\ m.free # << >>
          /\ m.cell[m.free[Len(m.free)]].gen < Generations
      BY Zenon, <2>1, <2>2
    <3>2. \A hd : Sound(k, m, hd) =>
            LET hq == [y \in DOMAIN hd \cup {h} |-> IF y = h THEN x ELSE hd[y]]
            IN  /\ Sound(k, p, hq)
                /\ h \notin DOMAIN hd
                /\ \A y \in DOMAIN hd : Reaches(p, y) <=> Reaches(m, y)
      BY <3>1, InsertKeeps
    <3> HIDE DEF p, h
    <3> QED
      BY Zenon, <3>1, <3>2
  <2>4. SlotsInv'
    BY <2>2, <2>3 DEF SlotsInv, Sound
  <2> HIDE DEF p, h
  <2>5. \A y \in DOMAIN handed : y \in DOMAIN handed' /\ handed'[y] = handed[y]
    BY <2>2, <2>3
  <2> QED
    BY <2>1, <2>2, <2>3, <2>4, <2>5
<1>5. ASSUME NEW h \in DOMAIN handed, Remove(h)
      PROVE  /\ SlotsInv' /\ handed' = handed
             /\ \A y \in DOMAIN handed : Reaches(slots', y) => Reaches(slots, y)
  <2> DEFINE p == [slots EXCEPT !.cell[SlotOf(h)] = Vacant(@), !.free = Append(@, SlotOf(h)),
                                !.len = @ - 1]
  <2>1. slots' = p /\ handed' = handed
    BY Zenon, <1>5 DEF Remove
  <2>2. Reaches(slots, h)
    BY <1>5, ReachesIsContains DEF Remove, Removes
  <2>3. Sound(n, p, handed) /\ \A y \in DOMAIN handed : Reaches(p, y) => Reaches(slots, y)
    BY Zenon, <1>1, <1>2, <2>2, RemoveKeeps
  <2> HIDE DEF p
  <2> QED
    BY <2>1, <2>3 DEF SlotsInv
<1> QED
  BY <1>4, <1>5 DEF SlotsNext

LEMMA SlotsInvariant == SlotAssumption => (SlotsSpec => []SlotsInv)
<1> SUFFICES ASSUME SlotAssumption PROVE SlotsSpec => []SlotsInv
  OBVIOUS
<1>1. SlotsInit => SlotsInv
  BY SlotsBegin
<1>2. SlotsInv /\ [SlotsNext]_slotVars => SlotsInv'
  <2>1. ASSUME SlotsInv, UNCHANGED slotVars PROVE SlotsInv'
    BY <2>1 DEF slotVars, SlotsInv
  <2> QED
    BY <2>1, SlotsGoOn
<1> QED
  BY <1>1, <1>2, PTL DEF SlotsSpec

(* Whatever is inserted and removed, in whatever order, with whatever      *)
(* handles, old ones too: as many of the handles ever handed out reach     *)
(* something as there are things in the map, each what was inserted for    *)
(* it, and a free slot is on the list of the free ones once.               *)
THEOREM HandlesReach == SlotAssumption => (SlotsSpec => [](SlotsTypeOK /\ HandlesReachTheirOwn))
<1> SUFFICES ASSUME SlotAssumption PROVE SlotsSpec => [](SlotsTypeOK /\ HandlesReachTheirOwn)
  OBVIOUS
<1>1. ASSUME SlotsInv PROVE SlotsTypeOK /\ HandlesReachTheirOwn
  <2> DEFINE good == {h \in DOMAIN handed : ContainsHandle(h)}
             free == {slots.free[i] : i \in DOMAIN slots.free}
             l == Len(slots.free)
  <2>1. PICK n \in FirstSlots..LastSlots : Sound(n, slots, handed)
    BY <1>1 DEF SlotsInv
  <2>2. /\ n \in Nat /\ slots.free \in Seq(0..(n - 1)) /\ slots.len \in Nat /\ l \in Nat
        /\ DOMAIN slots.cell = 0..(n - 1) /\ DOMAIN slots.free = 1..l
    BY <2>1 DEF SlotAssumption, Sound, MapOf
  <2>3. Cells(slots) = n
    <3>0. n \in Nat
      BY <2>2
    <3>1. Cardinality(0..(n - 1)) = n
      BY <3>0, FS_Interval
    <3> QED
      BY <2>2, <3>1 DEF Cells
  <2>4. good = Good(slots, handed)
    BY <1>1, ReachesIsContains DEF Good
  <2>5. slots.len + l = n /\ Cardinality(good) = slots.len
    BY <2>1, <2>4 DEF Sound, AreCounted
  <2>6. SlotsTypeOK
    BY <2>2, <2>3, <2>5 DEF SlotsTypeOK
  <2>7. ASSUME NEW h \in good PROVE slots.cell[SlotOf(h)].value = handed[h]
    <3>1. PICK s \in 0..(n - 1), g \in Gens : h = Handle(s, g)
      BY <2>1 DEF Sound, HandedBefore
    <3>2. SlotOf(h) = s /\ GenOf(h) = g
      BY <2>2, <3>1, HandlesSay
    <3>3. slots.cell[s].occ /\ slots.cell[s].gen = g
      BY <3>2 DEF ContainsHandle
    <3> QED
      BY <2>1, <3>1, <3>2, <3>3 DEF Sound, OccupiedAreHanded
  <2>8. free = {s \in DOMAIN slots.cell : ~slots.cell[s].occ}
    <3>1. \A i \in 1..l : slots.free[i] \in 0..(n - 1)
      BY <2>2
    <3>2. \A y \in 0..(n - 1) : ~slots.cell[y].occ <=> \E i \in 1..l : slots.free[i] = y
      BY <2>1 DEF Sound, FreeAreVacant
    <3>3. free = {slots.free[i] : i \in 1..l}
      BY <2>2
    <3>4. ASSUME NEW y PROVE (y \in free) <=> (y \in 0..(n - 1) /\ ~slots.cell[y].occ)
      <4>1. y \in free <=> \E i \in 1..l : slots.free[i] = y
        BY <3>3
      <4> HIDE DEF free
      <4> QED
        BY Zenon, <3>1, <3>2, <4>1
    <3> QED
      BY Zenon, <2>2, <3>4
  <2>9. Cardinality(free) = l
    <3> DEFINE f == [i \in 1..l |-> slots.free[i]]
    <3>1. f \in Bijection(1..l, free)
      <4>1. \A i, j \in 1..l : slots.free[i] = slots.free[j] => i = j
        BY <2>1 DEF Sound, FreeOnce
      <4>2. f \in Injection(1..l, free) /\ f \in Surjection(1..l, free)
        BY <2>2, <4>1 DEF Injection, IsInjective, Surjection
      <4> QED
        BY <4>2 DEF Bijection
    <3>2. ExistsBijection(1..l, free)
      BY <3>1 DEF ExistsBijection
    <3>3. l \in Nat
      BY <2>2
    <3> HIDE DEF l, free
    <3>4. IsFiniteSet(1..l) /\ Cardinality(1..l) = l
      BY <3>3, FS_Interval
    <3> QED
      BY <3>2, <3>4, FS_Bijection
  <2> QED
    BY <2>5, <2>6, <2>7, <2>8, <2>9 DEF HandlesReachTheirOwn
<1> QED
  BY <1>1, SlotsInvariant, PTL

(* A handle that has gone stale reaches nothing again, whatever is         *)
(* inserted in its slot, nor is it handed out for another thing.           *)
THEOREM StaleForGood == SlotAssumption => (SlotsSpec => HandlesStayStale)
<1> SUFFICES ASSUME SlotAssumption PROVE SlotsSpec => HandlesStayStale
  OBVIOUS
<1> DEFINE Stays == \A h \in DOMAIN handed :
                      ~ContainsHandle(h) => ~ContainsHandle(h)' /\ handed'[h] = handed[h]
           Answers == \A h \in DOMAIN handed : ContainsHandle(h) <=> Reaches(slots, h)
<1>1. SlotsInv => Answers
  BY ReachesIsContains
<1>2. SlotsInv /\ Answers /\ Answers' /\ [SlotsNext]_slotVars => [Stays]_slotVars
  <2> SUFFICES ASSUME SlotsInv, Answers, Answers', SlotsNext, NEW h \in DOMAIN handed,
                      ~ContainsHandle(h)
               PROVE  ~ContainsHandle(h)' /\ handed'[h] = handed[h]
    OBVIOUS
  <2>1. ~Reaches(slots, h)
    OBVIOUS
  <2>2. h \in DOMAIN handed' /\ ~Reaches(slots', h) /\ handed'[h] = handed[h]
    BY <2>1, SlotsGoOn
  <2> QED
    BY <2>2
<1> QED
  BY <1>1, <1>2, SlotsInvariant, PTL DEF SlotsSpec, HandlesStayStale

-----------------------------------------------------------------------------
(* The cache.                                                              *)

Links == [Slots -> Slots \cup {Nil}]
LookUps == UNION {[D -> Slots] : D \in SUBSET Keys}
CacheOf == [size : 0..Room, head : Slots \cup {Nil}, tail : Slots \cup {Nil}, slotByKey : LookUps,
            key : [Slots -> Keys \cup {0}], val : [Slots -> Stored \cup {0}],
            prev : Links, next : Links]

\* The slots of q are the list that these ends and links make, both ways.
ListOf(n, q, hd, tl, nx, pv) ==
  /\ q \in [1..n -> Slots]
  /\ \A i, j \in 1..n : q[i] = q[j] => i = j
  /\ hd = IF n = 0 THEN Nil ELSE q[1]
  /\ tl = IF n = 0 THEN Nil ELSE q[n]
  /\ \A i \in 1..n : /\ nx[q[i]] = IF i = n THEN Nil ELSE q[i + 1]
                     /\ pv[q[i]] = IF i = 1 THEN Nil ELSE q[i - 1]
ListedAs(n, q, c) == ListOf(n, q, c.head, c.tail, c.next, c.prev)

\* All but the j-th, and all behind a new first.
Omitted(n, q, j) == [i \in 1..(n - 1) |-> q[IF i < j THEN i ELSE i + 1]]
Headed(n, q, s) == [i \in 1..(n + 1) |-> IF i = 1 THEN s ELSE q[i - 1]]

\* The slots below n are those of the list, and each is found by its key.
Covered(n, q) == /\ \A i \in 1..n : q[i] \in 0..(n - 1)
                 /\ \A s \in 0..(n - 1) : \E i \in 1..n : q[i] = s
Keyed(c) == /\ DOMAIN c.slotByKey = {c.key[s] : s \in 0..(c.size - 1)}
            /\ \A s \in 0..(c.size - 1) : c.key[s] \in Keys /\ c.slotByKey[c.key[s]] = s
Holds(c, q) == c \in CacheOf /\ ListedAs(c.size, q, c) /\ Covered(c.size, q) /\ Keyed(c)
CacheInv == \E q : Holds(cache, q)

LEMMA SlotsAre == CacheAssumption => /\ Room \in Nat \ {0} /\ Slots = 0..(Room - 1) /\ 0 \in Slots
                                     /\ Nil \notin Slots /\ Nil = -1
BY DEF CacheAssumption, Slots, Nil

\* What unlinking a slot of the list leaves of the ends and links.
LEMMA OmittedIsListed ==
  ASSUME CacheAssumption, NEW n \in Nat \ {0}, NEW q, NEW hd, NEW tl, NEW nx \in Links, NEW pv \in Links,
         ListOf(n, q, hd, tl, nx, pv), NEW j \in 1..n
  PROVE  LET p == pv[q[j]]
             s == nx[q[j]]
         IN  ListOf(n - 1, Omitted(n, q, j), IF p # Nil THEN hd ELSE s, IF s # Nil THEN tl ELSE p,
                    IF p # Nil THEN [nx EXCEPT ![p] = s] ELSE nx,
                    IF s # Nil THEN [pv EXCEPT ![s] = p] ELSE pv)
<1> DEFINE p == pv[q[j]]
           s == nx[q[j]]
           r == Omitted(n, q, j)
           to == IF p # Nil THEN [nx EXCEPT ![p] = s] ELSE nx
           back == IF s # Nil THEN [pv EXCEPT ![s] = p] ELSE pv
           Kept(i) == IF i < j THEN i ELSE i + 1
<1>1. /\ q \in [1..n -> Slots] /\ \A i, k \in 1..n : q[i] = q[k] => i = k
      /\ hd = q[1] /\ tl = q[n]
      /\ \A i \in 1..n : /\ nx[q[i]] = IF i = n THEN Nil ELSE q[i + 1]
                         /\ pv[q[i]] = IF i = 1 THEN Nil ELSE q[i - 1]
  BY DEF ListOf
<1>2. /\ p = IF j = 1 THEN Nil ELSE q[j - 1]
      /\ s = IF j = n THEN Nil ELSE q[j + 1]
      /\ \A i \in 1..n : q[i] # Nil /\ q[i] \in Slots
  BY <1>1, SlotsAre
<1>3. /\ r \in [1..(n - 1) -> Slots]
      /\ \A i \in 1..(n - 1) : Kept(i) \in 1..n /\ Kept(i) # j /\ r[i] = q[Kept(i)]
  BY <1>1 DEF Omitted
<1> HIDE DEF r
<1>4. \A i, k \in 1..(n - 1) : r[i] = r[k] => i = k
  <2> SUFFICES ASSUME NEW i \in 1..(n - 1), NEW k \in 1..(n - 1), r[i] = r[k] PROVE i = k
    OBVIOUS
  <2>1. q[Kept(i)] = q[Kept(k)] /\ Kept(i) \in 1..n /\ Kept(k) \in 1..n
    BY <1>3
  <2>2. Kept(i) = Kept(k)
    <3> HIDE DEF Kept
    <3> QED
      BY <1>1, <2>1
  <2> QED
    BY <2>2
<1>5. /\ (IF p # Nil THEN hd ELSE s) = IF n - 1 = 0 THEN Nil ELSE r[1]
      /\ (IF s # Nil THEN tl ELSE p) = IF n - 1 = 0 THEN Nil ELSE r[n - 1]
  <2> HIDE DEF p, s
  <2>1. CASE n = 1
    BY <1>2, <2>1
  <2>2. CASE n # 1
    <3>1. 1 \in 1..(n - 1) /\ n - 1 \in 1..(n - 1) /\ n - 1 # 0
      BY <2>2
    <3>2. r[1] = q[IF 1 < j THEN 1 ELSE 2] /\ r[n - 1] = q[IF n - 1 < j THEN n - 1 ELSE n]
      BY <1>3, <3>1
    <3>3. (IF p # Nil THEN hd ELSE s) = r[1]
      BY <1>1, <1>2, <3>1, <3>2
    <3>4. (IF s # Nil THEN tl ELSE p) = r[n - 1]
      BY <1>1, <1>2, <3>1, <3>2
    <3> QED
      BY <3>1, <3>3, <3>4
  <2> QED
    BY <2>1, <2>2
<1>6. ASSUME NEW i \in 1..(n - 1)
      PROVE  to[r[i]] = IF i = n - 1 THEN Nil ELSE r[i + 1]
  <2> HIDE DEF p, s
  <2>1. to[r[i]] = IF p # Nil /\ r[i] = p THEN s ELSE nx[r[i]]
    BY <1>3 DEF Links
  <2>2. r[i] = q[Kept(i)] /\ Kept(i) \in 1..n /\ nx[q[Kept(i)]] = IF Kept(i) = n THEN Nil ELSE q[Kept(i) + 1]
    BY <1>1, <1>3
  <2>3. (p # Nil /\ r[i] = p) <=> Kept(i) = j - 1
    <3>1. CASE j = 1
      BY <1>2, <2>2, <3>1
    <3>2. CASE j # 1
      BY <1>1, <1>2, <2>2, <3>2
    <3> QED
      BY <3>1, <3>2
  <2>4. i # n - 1 => i + 1 \in 1..(n - 1) /\ r[i + 1] = q[Kept(i + 1)]
    BY <1>3
  <2> HIDE DEF to
  <2>5. CASE i < j - 1
    BY <2>1, <2>2, <2>3, <2>4, <2>5
  <2>6. CASE i = j - 1
    BY <1>2, <2>1, <2>2, <2>3, <2>4, <2>6
  <2>7. CASE i > j - 1
    BY <2>1, <2>2, <2>3, <2>4, <2>7
  <2> QED
    BY <2>5, <2>6, <2>7
<1>7. ASSUME NEW i \in 1..(n - 1)
      PROVE  back[r[i]] = IF i = 1 THEN Nil ELSE r[i - 1]
  <2> HIDE DEF p, s
  <2>1. back[r[i]] = IF s # Nil /\ r[i] = s THEN p ELSE pv[r[i]]
    BY <1>3 DEF Links
  <2>2. r[i] = q[Kept(i)] /\ Kept(i) \in 1..n /\ pv[q[Kept(i)]] = IF Kept(i) = 1 THEN Nil ELSE q[Kept(i) - 1]
    BY <1>1, <1>3
  <2>3. (s # Nil /\ r[i] = s) <=> Kept(i) = j + 1
    <3>1. CASE j = n
      BY <1>2, <2>2, <3>1
    <3>2. CASE j # n
      BY <1>1, <1>2, <2>2, <3>2
    <3> QED
      BY <3>1, <3>2
  <2>4. i # 1 => i - 1 \in 1..(n - 1) /\ r[i - 1] = q[Kept(i - 1)]
    BY <1>3
  <2> HIDE DEF back
  <2>5. CASE i < j
    BY <2>1, <2>2, <2>3, <2>4, <2>5
  <2>6. CASE i = j
    BY <1>2, <2>1, <2>2, <2>3, <2>4, <2>6
  <2>7. CASE i > j
    BY <2>1, <2>2, <2>3, <2>4, <2>7
  <2> QED
    BY <2>5, <2>6, <2>7
<1> HIDE DEF p, s, to, back
<1>8. ListOf(n - 1, r, IF p # Nil THEN hd ELSE s, IF s # Nil THEN tl ELSE p, to, back)
  BY <1>3, <1>4, <1>5, <1>6, <1>7 DEF ListOf
<1> QED
  BY <1>8 DEF p, s, to, back, r

\* The links and the tail after a slot has been put before the head.
Fronted(hd, tl, nx, pv, s, last, to, back) ==
  /\ last = IF tl = Nil THEN s ELSE tl
  /\ to = [nx EXCEPT ![s] = hd]
  /\ back = [i \in Slots |-> IF i = s THEN Nil ELSE IF i = hd THEN s ELSE pv[i]]

LEMMA HeadedIsListed ==
  ASSUME CacheAssumption, NEW n \in Nat, NEW q, NEW hd, NEW tl, NEW nx \in Links, NEW pv \in Links,
         ListOf(n, q, hd, tl, nx, pv), NEW s \in Slots, \A i \in 1..n : q[i] # s,
         NEW last, NEW to, NEW back, Fronted(hd, tl, nx, pv, s, last, to, back)
  PROVE  ListOf(n + 1, Headed(n, q, s), s, last, to, back)
<1> DEFINE r == Headed(n, q, s)
<1>0. /\ last = IF tl = Nil THEN s ELSE tl
      /\ to = [nx EXCEPT ![s] = hd]
      /\ back = [i \in Slots |-> IF i = s THEN Nil ELSE IF i = hd THEN s ELSE pv[i]]
  BY DEF Fronted
<1>1. /\ q \in [1..n -> Slots] /\ \A i, k \in 1..n : q[i] = q[k] => i = k
      /\ hd = IF n = 0 THEN Nil ELSE q[1]
      /\ tl = IF n = 0 THEN Nil ELSE q[n]
      /\ \A i \in 1..n : /\ nx[q[i]] = IF i = n THEN Nil ELSE q[i + 1]
                         /\ pv[q[i]] = IF i = 1 THEN Nil ELSE q[i - 1]
  BY DEF ListOf
<1>2. s # Nil /\ \A i \in 1..n : q[i] # Nil /\ q[i] \in Slots
  BY <1>1, SlotsAre
<1>3. /\ r \in [1..(n + 1) -> Slots] /\ r[1] = s
      /\ \A i \in 2..(n + 1) : i - 1 \in 1..n /\ r[i] = q[i - 1]
  BY <1>1 DEF Headed
<1>4. /\ to[s] = hd /\ \A i \in 1..n : to[q[i]] = nx[q[i]]
      /\ back[s] = Nil /\ \A i \in 1..n : back[q[i]] = IF q[i] = hd THEN s ELSE pv[q[i]]
  BY <1>0, <1>2 DEF Links
<1> HIDE DEF r
<1>5. \A i, k \in 1..(n + 1) : r[i] = r[k] => i = k
  <2> SUFFICES ASSUME NEW i \in 1..(n + 1), NEW k \in 1..(n + 1), r[i] = r[k] PROVE i = k
    OBVIOUS
  <2>1. \A x \in 1..(n + 1) : x # 1 => x - 1 \in 1..n /\ r[x] = q[x - 1]
    <3>1. \A x \in 1..(n + 1) : x # 1 => x \in 2..(n + 1)
      OBVIOUS
    <3> QED
      BY <1>3, <3>1
  <2>2. CASE i = 1 \/ k = 1
    BY <1>3, <2>1, <2>2
  <2>3. CASE i # 1 /\ k # 1
    <3>1. q[i - 1] = q[k - 1] /\ i - 1 \in 1..n /\ k - 1 \in 1..n
      BY <2>1, <2>3
    <3>2. i - 1 = k - 1
      BY <1>1, <3>1
    <3> QED
      BY <3>2
  <2> QED
    BY <2>2, <2>3
<1>6. /\ s = IF n + 1 = 0 THEN Nil ELSE r[1]
      /\ last = IF n + 1 = 0 THEN Nil ELSE r[n + 1]
  <2>1. CASE n = 0
    BY <1>0, <1>1, <1>3, <2>1
  <2>2. CASE n # 0
    <3>1. n + 1 \in 2..(n + 1) /\ n \in 1..n
      BY <2>2
    <3> QED
      BY <1>0, <1>1, <1>2, <1>3, <2>2, <3>1
  <2> QED
    BY <2>1, <2>2
<1>7. ASSUME NEW i \in 1..(n + 1)
      PROVE  /\ to[r[i]] = IF i = n + 1 THEN Nil ELSE r[i + 1]
             /\ back[r[i]] = IF i = 1 THEN Nil ELSE r[i - 1]
  <2>1. CASE i = 1
    <3>1. n # 0 => 2 \in 2..(n + 1) /\ 1 \in 1..n
      OBVIOUS
    <3>2. n # 0 => r[2] = q[1]
      BY <1>3, <3>1
    <3> QED
      BY <1>1, <1>3, <1>4, <2>1, <3>2
  <2>2. CASE i # 1
    <3>1. i \in 2..(n + 1) /\ i - 1 \in 1..n /\ r[i] = q[i - 1]
      BY <1>3, <2>2
    <3>2. to[r[i]] = IF i - 1 = n THEN Nil ELSE q[i]
      BY <1>1, <1>4, <3>1
    <3>3. i # n + 1 => r[i + 1] = q[i]
      <4> SUFFICES ASSUME i # n + 1 PROVE r[i + 1] = q[i]
        OBVIOUS
      <4>1. i + 1 \in 2..(n + 1) /\ (i + 1) - 1 = i
        BY <3>1
      <4> QED
        BY <1>3, <4>1
    <3>4. back[r[i]] = IF q[i - 1] = hd THEN s ELSE pv[q[i - 1]]
      BY <1>4, <3>1
    <3>5. CASE i = 2
      BY <1>1, <1>3, <3>1, <3>2, <3>3, <3>4, <3>5
    <3>6. CASE i # 2
      <4>1. i - 1 \in 2..(n + 1) /\ i - 2 \in 1..n /\ r[i - 1] = q[i - 2] /\ 1 \in 1..n
        BY <1>3, <3>1, <3>6
      <4>2. q[i - 1] # hd
        BY <1>1, <3>1, <3>6, <4>1
      <4>3. pv[q[i - 1]] = q[i - 2]
        BY <1>1, <3>1, <3>6
      <4> QED
        BY <3>1, <3>2, <3>3, <3>4, <4>1, <4>2, <4>3
    <3> QED
      BY <3>5, <3>6
  <2> QED
    BY <2>1, <2>2
<1> QED
  BY <1>3, <1>5, <1>6, <1>7 DEF ListOf, r

\* The fields of a cache after the links have been written.
UnlinkedTo(u, c, s) ==
  LET p == c.prev[s]
      n == c.next[s]
  IN  /\ u.size = c.size /\ u.slotByKey = c.slotByKey /\ u.key = c.key /\ u.val = c.val
      /\ u.next = IF p # Nil THEN [c.next EXCEPT ![p] = n] ELSE c.next
      /\ u.head = IF p # Nil THEN c.head ELSE n
      /\ u.prev = IF n # Nil THEN [c.prev EXCEPT ![n] = p] ELSE c.prev
      /\ u.tail = IF n # Nil THEN c.tail ELSE p

LEMMA UnlinkedIs ==
  ASSUME CacheAssumption, NEW c \in CacheOf, NEW s \in Slots
  PROVE  Unlinked(c, s) \in CacheOf /\ UnlinkedTo(Unlinked(c, s), c, s)
<1> DEFINE p == c.prev[s]
           n == c.next[s]
           nx == IF p # Nil THEN [c.next EXCEPT ![p] = n] ELSE c.next
           hd == IF p # Nil THEN c.head ELSE n
           pv == IF n # Nil THEN [c.prev EXCEPT ![n] = p] ELSE c.prev
           tl == IF n # Nil THEN c.tail ELSE p
           u == [c EXCEPT !.next = nx, !.head = hd, !.prev = pv, !.tail = tl]
<1>1. p \in Slots \cup {Nil} /\ n \in Slots \cup {Nil} /\ c.next \in Links /\ c.prev \in Links
      /\ c.head \in Slots \cup {Nil} /\ c.tail \in Slots \cup {Nil}
  BY DEF CacheOf, Links
<1>2. nx \in Links /\ pv \in Links /\ hd \in Slots \cup {Nil} /\ tl \in Slots \cup {Nil}
  BY <1>1 DEF Links
<1>3. Unlinked(c, s) = u
  BY Zenon DEF Unlinked
<1> HIDE DEF nx, hd, pv, tl
<1>4. /\ u \in CacheOf
      /\ u.size = c.size /\ u.slotByKey = c.slotByKey /\ u.key = c.key /\ u.val = c.val
      /\ u.next = nx /\ u.head = hd /\ u.prev = pv /\ u.tail = tl
  BY Zenon, <1>2 DEF CacheOf
<1> HIDE DEF u
<1> QED
  BY Zenon, <1>3, <1>4 DEF UnlinkedTo, nx, hd, pv, tl

LEMMA PushedIs ==
  ASSUME CacheAssumption, NEW c \in CacheOf, NEW s \in Slots
  PROVE  LET u == PushedHead(c, s)
         IN  /\ u \in CacheOf
             /\ u.size = c.size /\ u.slotByKey = c.slotByKey /\ u.key = c.key /\ u.val = c.val
             /\ u.next = [c.next EXCEPT ![s] = c.head] /\ u.head = s
             /\ u.prev = [i \in Slots |-> IF i = s THEN Nil ELSE IF i = c.head THEN s ELSE c.prev[i]]
             /\ u.tail = IF c.tail = Nil THEN s ELSE c.tail
<1> DEFINE nx == [c.next EXCEPT ![s] = c.head]
           pv == [i \in Slots |-> IF i = s THEN Nil ELSE IF i = c.head THEN s ELSE c.prev[i]]
           tl == IF c.tail = Nil THEN s ELSE c.tail
           u == [c EXCEPT !.prev = pv, !.next = nx, !.head = s, !.tail = tl]
<1>1. c.next \in Links /\ c.prev \in Links /\ c.head \in Slots \cup {Nil} /\ c.tail \in Slots \cup {Nil}
  BY DEF CacheOf
<1>2. nx \in Links /\ pv \in Links /\ s \in Slots \cup {Nil} /\ tl \in Slots \cup {Nil}
  BY <1>1 DEF Links
<1>3. PushedHead(c, s) = u
  BY Zenon DEF PushedHead
<1> HIDE DEF nx, pv, tl
<1>4. /\ u \in CacheOf
      /\ u.size = c.size /\ u.slotByKey = c.slotByKey /\ u.key = c.key /\ u.val = c.val
      /\ u.next = nx /\ u.head = s /\ u.prev = pv /\ u.tail = tl
  BY Zenon, <1>2 DEF CacheOf
<1> HIDE DEF u
<1> QED
  BY Zenon, <1>3, <1>4 DEF nx, pv, tl

LEMMA LeastIs ==
  ASSUME NEW T, T \subseteq Nat, T # {}
  PROVE  \E k \in T : \A j \in T : k <= j
<1>1. IsWellFoundedOn(OpToRel(<, Nat), Nat)
  BY Zenon, NatLessThanWellFounded
<1>2. PICK k \in T : \A j \in T : ~(<<j, k>> \in OpToRel(<, Nat))
  BY Zenon, <1>1, WFMin
<1>3. \A j \in T : ~(j < k)
  BY <1>2 DEF OpToRel
<1> QED BY <1>3

IsChain(n, q, first, link) ==
  /\ q \in [1..n -> Slots]
  /\ first = IF n = 0 THEN Nil ELSE q[1]
  /\ \A i \in 1..n : link[q[i]] = IF i = n THEN Nil ELSE q[i + 1]

(* What is reached along the links from the first is the list: a place     *)
(* where they first differ would differ from what the one before leads to. *)
LEMMA ChainIs ==
  ASSUME CacheAssumption, NEW n \in 0..Room, NEW q, NEW first, NEW link,
         IsChain(n, q, first, link)
  PROVE  Chain(first, link) = q
<1> DEFINE Next1(g, m) == IF m = 0 THEN first ELSE IF g[m - 1] = Nil THEN Nil ELSE link[g[m - 1]]
           f == CHOOSE h : h = [m \in 0..Room |-> Next1(h, m)]
           g == [m \in 0..Room |-> IF m < n THEN q[m + 1] ELSE Nil]
<1>1. Room \in Nat \ {0} /\ Nil \notin Slots /\ Nil = -1
  BY SlotsAre
<1> USE DEF IsChain
<1>2. ASSUME NEW m \in 0..Room PROVE g[m] = Next1(g, m)
  <2>1. CASE m = 0
    BY <1>1, <2>1
  <2>2. CASE m # 0
    <3>1. m - 1 \in 0..Room
      BY <1>1, <2>2
    <3>2. g[m - 1] = IF m - 1 < n THEN q[m] ELSE Nil
      BY <3>1
    <3>3. CASE m - 1 < n
      <4>1. m \in 1..n
        BY <1>1, <2>2, <3>3
      <4> QED
        BY <1>1, <2>2, <3>2, <3>3, <4>1
    <3>4. CASE ~(m - 1 < n)
      BY <1>1, <2>2, <3>2, <3>4
    <3> QED
      BY <3>3, <3>4
  <2> QED
    BY <2>1, <2>2
<1>3. g = [m \in 0..Room |-> Next1(g, m)]
  BY <1>2
<1>4. f = [m \in 0..Room |-> Next1(f, m)]
  BY <1>3
<1> HIDE DEF f, g
<1>5. f = g
  <2> DEFINE T == {m \in 0..Room : f[m] # g[m]}
  <2>1. T = {}
    <3> SUFFICES ASSUME T # {} PROVE FALSE
      OBVIOUS
    <3>1. PICK k \in T : \A j \in T : k <= j
      <4>1. T \subseteq Nat
        BY <1>1
      <4> HIDE DEF T
      <4> QED
        BY <4>1, LeastIs
    <3>2. f[k] = Next1(f, k) /\ g[k] = Next1(g, k) /\ k \in 0..Room /\ f[k] # g[k]
      BY <1>3, <1>4
    <3>3. k # 0 /\ k - 1 \in 0..Room /\ f[k - 1] # g[k - 1]
      BY <1>1, <3>2
    <3>4. k - 1 \in T
      BY <3>3
    <3> QED
      BY <1>1, <3>1, <3>2, <3>4
  <2>2. \A m \in 0..Room : f[m] = g[m]
    BY <2>1
  <2> QED
    BY <1>3, <1>4, <2>2
<1>6. /\ \A m \in 0..Room : g[m] = IF m < n THEN q[m + 1] ELSE Nil
  BY DEF g
<1>7. {m \in 0..Room : g[m] # Nil} = 0..(n - 1)
  BY <1>1, <1>6
<1>8. Cardinality(0..(n - 1)) = n
  BY FS_Interval
<1>9. [m \in 1..n |-> g[m - 1]] = q
  BY <1>1, <1>6
<1>10. Chain(first, link) = [m \in 1..Cardinality({m \in 0..Room : f[m] # Nil}) |-> f[m - 1]]
  BY Zenon DEF Chain, f
<1>11. {m \in 0..Room : f[m] # Nil} = 0..(n - 1) /\ [m \in 1..n |-> f[m - 1]] = q
  BY Zenon, <1>5, <1>7, <1>9
<1> QED
  BY Zenon, <1>8, <1>10, <1>11

\* A cache with its list agrees in its links, and the list is what is in use.
LEMMA HoldsAgrees ==
  ASSUME CacheAssumption, NEW q, Holds(cache, q)
  PROVE  /\ InUse = q /\ Len(InUse) = cache.size /\ LinksAgree /\ CacheTypeOK
<1> DEFINE n == cache.size
           back == [i \in 1..n |-> q[n + 1 - i]]
<1>1. /\ n \in 0..Room /\ q \in [1..n -> Slots] /\ Room \in Nat
      /\ cache.head = IF n = 0 THEN Nil ELSE q[1]
      /\ cache.tail = IF n = 0 THEN Nil ELSE q[n]
      /\ \A i \in 1..n : /\ cache.next[q[i]] = IF i = n THEN Nil ELSE q[i + 1]
                         /\ cache.prev[q[i]] = IF i = 1 THEN Nil ELSE q[i - 1]
  BY SlotsAre DEF Holds, ListedAs, ListOf, CacheOf
<1>2. InUse = q
  <2>1. IsChain(n, q, cache.head, cache.next) /\ n \in 0..Room
    BY <1>1 DEF IsChain
  <2> QED
    BY Zenon, <2>1, ChainIs DEF InUse
<1>3. back \in [1..n -> Slots] /\ \A i \in 1..n : back[i] = q[n + 1 - i]
  BY <1>1
<1>4. cache.tail = IF n = 0 THEN Nil ELSE back[1]
  BY <1>1, <1>3
<1>5. ASSUME NEW i \in 1..n PROVE cache.prev[back[i]] = IF i = n THEN Nil ELSE back[i + 1]
  <2>1. n + 1 - i \in 1..n /\ (i # n => i + 1 \in 1..n) /\ (n + 1 - i = 1 <=> i = n)
        /\ n + 1 - (i + 1) = (n + 1 - i) - 1
    BY <1>1
  <2>2. i # n => back[i + 1] = q[n + 1 - (i + 1)]
    BY <1>3, <2>1
  <2>3. cache.prev[q[n + 1 - i]] = IF n + 1 - i = 1 THEN Nil ELSE q[(n + 1 - i) - 1]
    BY <1>1, <2>1
  <2> HIDE DEF back
  <2> QED
    BY <1>3, <2>1, <2>2, <2>3
<1> HIDE DEF back
<1>6. Chain(cache.tail, cache.prev) = back
  <2>1. n \in 0..Room /\ back \in [1..n -> Slots]
    BY <1>1, <1>3
  <2>2. \A i \in 1..n : cache.prev[back[i]] = IF i = n THEN Nil ELSE back[i + 1]
    BY <1>5
  <2>3. IsChain(n, back, cache.tail, cache.prev)
    BY <2>1, <2>2, <1>4 DEF IsChain
  <2> QED
    BY Zenon, <2>1, <2>3, ChainIs
<1>7. q \in Seq(Slots) /\ Len(q) = n /\ back \in Seq(Slots) /\ Len(back) = n
  <2>1. ASSUME NEW m \in Nat, NEW r \in [1..m -> Slots] PROVE r \in Seq(Slots) /\ Len(r) = m
    OBVIOUS
  <2>2. n \in Nat
    BY <1>1
  <2> QED
    BY <1>1, <1>3, <2>1, <2>2
<1>8. {q[i] : i \in 1..n} = 0..(n - 1)
  BY DEF Holds, Covered
<1>9. LinksAgree
  <2>1. /\ Len(InUse) = n /\ Len(back) = n /\ \A i \in 1..n : back[i] = q[n + 1 - i]
        /\ {InUse[i] : i \in 1..n} = 0..(n - 1)
    BY <1>2, <1>3, <1>7, <1>8
  <2>2. Keyed(cache)
    BY DEF Holds
  <2> QED
    BY Zenon, <1>2, <1>6, <2>1, <2>2 DEF LinksAgree, Keyed
<1>10. CacheTypeOK
  <2>1. PICK D \in SUBSET Keys : cache.slotByKey \in [D -> Slots]
    BY DEF Holds, CacheOf, LookUps
  <2> QED
    BY <1>1, <2>1 DEF CacheTypeOK, Holds, CacheOf
<1> QED
  BY <1>2, <1>7, <1>9, <1>10

LEMMA PushedIsListed ==
  ASSUME CacheAssumption, NEW c \in CacheOf, NEW n \in Nat, NEW q, ListedAs(n, q, c),
         NEW s \in Slots, \A i \in 1..n : q[i] # s
  PROVE  ListedAs(n + 1, Headed(n, q, s), PushedHead(c, s))
<1> DEFINE t == PushedHead(c, s)
<1>1. c.next \in Links /\ c.prev \in Links /\ ListOf(n, q, c.head, c.tail, c.next, c.prev)
  BY DEF CacheOf, ListedAs
<1>2. t.head = s /\ Fronted(c.head, c.tail, c.next, c.prev, s, t.tail, t.next, t.prev)
  BY Zenon, PushedIs DEF Fronted
<1> HIDE DEF t
<1>3. ListOf(n + 1, Headed(n, q, s), s, t.tail, t.next, t.prev)
  BY Zenon, <1>1, <1>2, HeadedIsListed
<1> QED
  BY Zenon, <1>2, <1>3 DEF ListedAs, t

\* Moving a slot to the head of its list.
LEMMA TouchedIs ==
  ASSUME CacheAssumption, NEW c \in CacheOf, NEW n \in 1..Room, NEW q, ListedAs(n, q, c), NEW j \in 1..n
  PROVE  LET t == Touched(c, q[j])
         IN  /\ t \in CacheOf
             /\ t.size = c.size /\ t.slotByKey = c.slotByKey /\ t.key = c.key /\ t.val = c.val
             /\ ListedAs(n, Headed(n - 1, Omitted(n, q, j), q[j]), t)
<1> DEFINE s == q[j]
           u == Unlinked(c, s)
           t == PushedHead(u, s)
           r == Omitted(n, q, j)
<1>1. /\ n \in Nat \ {0} /\ n - 1 \in Nat /\ s \in Slots
      /\ c.next \in Links /\ c.prev \in Links
      /\ ListOf(n, q, c.head, c.tail, c.next, c.prev)
      /\ \A i, k \in 1..n : q[i] = q[k] => i = k
  BY SlotsAre DEF ListedAs, ListOf, CacheOf
<1>2. /\ u \in CacheOf /\ UnlinkedTo(u, c, s)
      /\ u.size = c.size /\ u.slotByKey = c.slotByKey /\ u.key = c.key /\ u.val = c.val
  <2>1. u \in CacheOf /\ UnlinkedTo(u, c, s)
    <3>1. s \in Slots
      BY <1>1
    <3> HIDE DEF s
    <3> QED
      BY Zenon, <3>1, UnlinkedIs
  <2> HIDE DEF u
  <2> QED
    BY Zenon, <2>1 DEF UnlinkedTo
<1>3. ListOf(n - 1, r, u.head, u.tail, u.next, u.prev)
  <2>1. LET p == c.prev[s]
            m == c.next[s]
        IN  ListOf(n - 1, r, IF p # Nil THEN c.head ELSE m, IF m # Nil THEN c.tail ELSE p,
                   IF p # Nil THEN [c.next EXCEPT ![p] = m] ELSE c.next,
                   IF m # Nil THEN [c.prev EXCEPT ![m] = p] ELSE c.prev)
    BY Zenon, <1>1, OmittedIsListed
  <2> HIDE DEF u, s, r
  <2> QED
    BY Zenon, <1>2, <2>1 DEF UnlinkedTo
<1>4. \A i \in 1..(n - 1) : r[i] # s
  BY <1>1 DEF Omitted
<1> HIDE DEF u, s, r
<1>5. /\ t \in CacheOf
      /\ t.size = u.size /\ t.slotByKey = u.slotByKey /\ t.key = u.key /\ t.val = u.val
  BY <1>1, <1>2, PushedIs
<1>6. ListedAs(n, Headed(n - 1, r, s), t)
  <2>1. (n - 1) + 1 = n /\ ListedAs(n - 1, r, u)
    BY <1>1, <1>3 DEF ListedAs
  <2> HIDE DEF t
  <2>2. ListedAs((n - 1) + 1, Headed(n - 1, r, s), PushedHead(u, s))
    BY Zenon, <1>1, <1>2, <1>4, <2>1, PushedIsListed
  <2> QED
    BY Zenon, <2>1, <2>2 DEF t
<1>7. Touched(c, s) = t
  BY DEF Touched, u
<1> HIDE DEF t
<1> QED
  BY Zenon, <1>2, <1>5, <1>6, <1>7 DEF ListedAs, s, r

LEMMA ForgottenIs ==
  ASSUME NEW c \in CacheOf, NEW k
  PROVE  LET u == Forgotten(c, k)
         IN  /\ u \in CacheOf
             /\ u.size = c.size /\ u.head = c.head /\ u.tail = c.tail
             /\ u.next = c.next /\ u.prev = c.prev /\ u.key = c.key /\ u.val = c.val
             /\ u.slotByKey = [x \in DOMAIN c.slotByKey \ {k} |-> c.slotByKey[x]]
<1> DEFINE by == [x \in DOMAIN c.slotByKey \ {k} |-> c.slotByKey[x]]
           u == [c EXCEPT !.slotByKey = by]
<1>1. by \in LookUps
  <2>1. PICK D \in SUBSET Keys : c.slotByKey \in [D -> Slots]
    BY DEF CacheOf, LookUps
  <2>2. by \in [D \ {k} -> Slots] /\ D \ {k} \in SUBSET Keys
    BY <2>1
  <2> HIDE DEF by
  <2> QED
    BY <2>2 DEF LookUps
<1>2. Forgotten(c, k) = u
  BY Zenon DEF Forgotten
<1> HIDE DEF by
<1>3. /\ u \in CacheOf
      /\ u.size = c.size /\ u.head = c.head /\ u.tail = c.tail
      /\ u.next = c.next /\ u.prev = c.prev /\ u.key = c.key /\ u.val = c.val
      /\ u.slotByKey = by
  BY Zenon, <1>1 DEF CacheOf
<1> HIDE DEF u
<1> QED
  BY Zenon, <1>2, <1>3 DEF by

\* An entry is written in a slot, which its key leads to.
Entered(c, s, k, v) ==
  [c EXCEPT !.key[s] = k, !.val[s] = v,
            !.slotByKey = [x \in DOMAIN @ \cup {k} |-> IF x = k THEN s ELSE @[x]]]

WrittenTo(u, c, s, k, v) ==
  /\ u.size = c.size /\ u.head = c.head /\ u.tail = c.tail /\ u.next = c.next /\ u.prev = c.prev
  /\ u.key = [c.key EXCEPT ![s] = k] /\ u.val = [c.val EXCEPT ![s] = v]
  /\ u.slotByKey = [x \in DOMAIN c.slotByKey \cup {k} |-> IF x = k THEN s ELSE c.slotByKey[x]]

LEMMA EnteredIs ==
  ASSUME NEW c \in CacheOf, NEW s \in Slots, NEW k \in Keys, NEW v \in Stored
  PROVE  Entered(c, s, k, v) \in CacheOf /\ WrittenTo(Entered(c, s, k, v), c, s, k, v)
<1> DEFINE by == [x \in DOMAIN c.slotByKey \cup {k} |-> IF x = k THEN s ELSE c.slotByKey[x]]
           ks == [c.key EXCEPT ![s] = k]
           vs == [c.val EXCEPT ![s] = v]
           u == [c EXCEPT !.key = ks, !.val = vs, !.slotByKey = by]
<1>1. by \in LookUps
  <2>1. PICK D \in SUBSET Keys : c.slotByKey \in [D -> Slots]
    BY DEF CacheOf, LookUps
  <2>2. by \in [D \cup {k} -> Slots] /\ D \cup {k} \in SUBSET Keys
    BY <2>1
  <2> HIDE DEF by
  <2> QED
    BY <2>2 DEF LookUps
<1>2. ks \in [Slots -> Keys \cup {0}] /\ vs \in [Slots -> Stored \cup {0}]
  BY DEF CacheOf
<1>3. Entered(c, s, k, v) = u
  BY Zenon DEF Entered
<1> HIDE DEF by, ks, vs
<1>4. /\ u \in CacheOf
      /\ u.size = c.size /\ u.head = c.head /\ u.tail = c.tail /\ u.next = c.next /\ u.prev = c.prev
      /\ u.key = ks /\ u.val = vs /\ u.slotByKey = by
  BY Zenon, <1>1, <1>2 DEF CacheOf
<1> HIDE DEF u
<1> QED
  BY Zenon, <1>3, <1>4 DEF WrittenTo, by, ks, vs

\* The value of an entry is written again.
RenewedTo(u, c, s, v) ==
  /\ u.size = c.size /\ u.head = c.head /\ u.tail = c.tail /\ u.next = c.next /\ u.prev = c.prev
  /\ u.key = c.key /\ u.slotByKey = c.slotByKey
  /\ u.val = [c.val EXCEPT ![s] = v]

LEMMA RenewedIs ==
  ASSUME NEW c \in CacheOf, NEW s \in Slots, NEW v \in Stored
  PROVE  /\ [c EXCEPT !.val[s] = v] \in CacheOf
         /\ RenewedTo([c EXCEPT !.val[s] = v], c, s, v)
<1> DEFINE vs == [c.val EXCEPT ![s] = v]
           u == [c EXCEPT !.val = vs]
<1>1. vs \in [Slots -> Stored \cup {0}]
  BY DEF CacheOf
<1>2. [c EXCEPT !.val[s] = v] = u
  BY Zenon
<1> HIDE DEF vs
<1>3. /\ u \in CacheOf
      /\ u.size = c.size /\ u.head = c.head /\ u.tail = c.tail /\ u.next = c.next /\ u.prev = c.prev
      /\ u.key = c.key /\ u.slotByKey = c.slotByKey
      /\ u.val = vs
  BY Zenon, <1>1 DEF CacheOf
<1> HIDE DEF u
<1> QED
  BY Zenon, <1>2, <1>3 DEF RenewedTo, vs

\* A cache is made to grow by one more.
LEMMA LargerIs ==
  ASSUME NEW c \in CacheOf, c.size + 1 \in 0..Room
  PROVE  LET u == [c EXCEPT !.size = @ + 1]
         IN  /\ u \in CacheOf
             /\ u.head = c.head /\ u.tail = c.tail /\ u.next = c.next /\ u.prev = c.prev
             /\ u.key = c.key /\ u.val = c.val /\ u.slotByKey = c.slotByKey
             /\ u.size = c.size + 1
BY Zenon DEF CacheOf

\* A slot that is used moves to the head; the rest stays in its order.
Moved(n, q, j) == Headed(n - 1, Omitted(n, q, j), q[j])

LEMMA MovedIs ==
  ASSUME NEW n \in Nat \ {0}, NEW S, NEW q \in [1..n -> S], NEW j \in 1..n
  PROVE  /\ Moved(n, q, j) \in [1..n -> S] /\ Moved(n, q, j)[1] = q[j]
         /\ \A i \in 2..n : /\ Moved(n, q, j)[i] = q[IF i - 1 < j THEN i - 1 ELSE i]
                            /\ (IF i - 1 < j THEN i - 1 ELSE i) \in 1..n
<1> DEFINE r == Omitted(n, q, j)
<1>1. /\ r \in [1..(n - 1) -> S]
      /\ \A i \in 1..(n - 1) : r[i] = q[IF i < j THEN i ELSE i + 1]
  BY DEF Omitted
<1> HIDE DEF r
<1>2. /\ Headed(n - 1, r, q[j]) \in [1..n -> S]
      /\ \A i \in 1..n : Headed(n - 1, r, q[j])[i] = IF i = 1 THEN q[j] ELSE r[i - 1]
  <2>1. (n - 1) + 1 = n /\ \A i \in 1..n : i # 1 => i - 1 \in 1..(n - 1)
    OBVIOUS
  <2> QED
    BY <1>1, <2>1 DEF Headed
<1>3. Moved(n, q, j) = Headed(n - 1, r, q[j])
  BY DEF Moved, r
<1> HIDE DEF Moved
<1>4. 1 \in 1..n /\ \A i \in 2..n : i \in 1..n /\ i # 1 /\ i - 1 \in 1..(n - 1) /\ (i - 1) + 1 = i
  OBVIOUS
<1> QED
  BY <1>1, <1>2, <1>3, <1>4

EntriesOf(n, c, q) == [i \in 1..n |-> <<c.key[q[i]], c.val[q[i]]>>]
Pairs == (Keys \cup {0}) \X (Stored \cup {0})

LEMMA EntriesAre ==
  ASSUME NEW c \in CacheOf, NEW n \in Nat, NEW q \in [1..n -> Slots]
  PROVE  /\ EntriesOf(n, c, q) \in Seq(Pairs) /\ Len(EntriesOf(n, c, q)) = n
         /\ DOMAIN EntriesOf(n, c, q) = 1..n
         /\ \A i \in 1..n : /\ EntriesOf(n, c, q)[i] = <<c.key[q[i]], c.val[q[i]]>>
                            /\ EntriesOf(n, c, q)[i][1] = c.key[q[i]]
                            /\ EntriesOf(n, c, q)[i][2] = c.val[q[i]]
<1> DEFINE e == EntriesOf(n, c, q)
<1>1. \A i \in 1..n : c.key[q[i]] \in Keys \cup {0} /\ c.val[q[i]] \in Stored \cup {0}
  BY DEF CacheOf
<1>2. e \in [1..n -> Pairs] /\ \A i \in 1..n : e[i] = <<c.key[q[i]], c.val[q[i]]>>
  BY <1>1 DEF EntriesOf, Pairs
<1> HIDE DEF e
<1>3. e \in Seq(Pairs) /\ Len(e) = n /\ DOMAIN e = 1..n
  <2>1. ASSUME NEW S, NEW f \in [1..n -> S] PROVE f \in Seq(S) /\ Len(f) = n /\ DOMAIN f = 1..n
    OBVIOUS
  <2> QED
    BY <1>2, <2>1
<1> QED
  BY <1>2, <1>3 DEF e

\* A line of entries with another before it.
LEMMA BeforeThem ==
  ASSUME NEW n \in Nat, NEW S, NEW f \in Seq(S), Len(f) = n + 1, NEW g \in Seq(S), Len(g) = n,
         \A i \in 1..n : f[i + 1] = g[i]
  PROVE  f = <<f[1]>> \o g
<1> DEFINE h == <<f[1]>> \o g
<1>0. f[1] \in S /\ <<f[1]>> \in Seq(S) /\ Len(<<f[1]>>) = 1 /\ <<f[1]>>[1] = f[1]
  OBVIOUS
<1>1. h \in Seq(S) /\ Len(h) = n + 1 /\ h[1] = f[1] /\ \A i \in 2..(n + 1) : h[i] = g[i - 1]
  <2>1. Len(h) = n + 1 /\ h \in Seq(S)
    BY <1>0
  <2>2. \A i \in 1..(n + 1) : h[i] = IF i <= 1 THEN <<f[1]>>[i] ELSE g[i - 1]
    BY <1>0
  <2> QED
    BY <1>0, <2>1, <2>2
<1> HIDE DEF h
<1>2. ASSUME NEW i \in 1..(n + 1) PROVE f[i] = h[i]
  <2>1. CASE i = 1
    BY <1>1, <2>1
  <2>2. CASE i # 1
    <3>1. i - 1 \in 1..n /\ i \in 2..(n + 1) /\ (i - 1) + 1 = i
      BY <2>2
    <3> QED
      BY <1>1, <3>1
  <2> QED
    BY <2>1, <2>2
<1>3. f = h
  BY <1>1, <1>2
<1> QED
  BY <1>3 DEF h

\* A slot that is used is in use, and its entry moves to the front.
LEMMA TouchKeeps ==
  ASSUME CacheAssumption, NEW c, NEW q, Holds(c, q), NEW j \in 1..c.size
  PROVE  LET t == Touched(c, q[j])
             n == c.size
             e == EntriesOf(n, c, q)
         IN  /\ Holds(t, Moved(n, q, j)) /\ t.size = n
             /\ EntriesOf(n, t, Moved(n, q, j))
                  = <<e[j]>> \o [i \in 1..(n - 1) |-> e[IF i < j THEN i ELSE i + 1]]
<1> DEFINE n == c.size
           t == Touched(c, q[j])
           r == Moved(n, q, j)
           e == EntriesOf(n, c, q)
           f == EntriesOf(n, t, r)
           rest == [i \in 1..(n - 1) |-> e[IF i < j THEN i ELSE i + 1]]
<1>1. /\ c \in CacheOf /\ n \in 1..Room /\ n \in Nat \ {0} /\ Room \in Nat /\ q \in [1..n -> Slots]
      /\ ListedAs(n, q, c) /\ Covered(n, q) /\ Keyed(c)
  BY SlotsAre DEF Holds, CacheOf, ListedAs, ListOf
<1>2. /\ t \in CacheOf /\ t.size = n /\ t.slotByKey = c.slotByKey /\ t.key = c.key /\ t.val = c.val
      /\ ListedAs(n, r, t)
  BY <1>1, TouchedIs DEF Moved
<1> HIDE DEF t
<1>3. /\ r \in [1..n -> Slots] /\ r[1] = q[j]
      /\ \A i \in 2..n : /\ r[i] = q[IF i - 1 < j THEN i - 1 ELSE i]
                         /\ (IF i - 1 < j THEN i - 1 ELSE i) \in 1..n
  BY <1>1, MovedIs
<1> HIDE DEF r
<1>4. Covered(n, r)
  <2>1. ASSUME NEW i \in 1..n PROVE r[i] \in 0..(n - 1)
    <3>1. CASE i = 1
      BY <1>1, <1>3, <3>1 DEF Covered
    <3>2. CASE i # 1
      <4>1. i \in 2..n
        BY <3>2
      <4> QED
        BY <1>1, <1>3, <4>1 DEF Covered
    <3> QED
      BY <3>1, <3>2
  <2>2. ASSUME NEW s \in 0..(n - 1) PROVE \E i \in 1..n : r[i] = s
    <3>1. PICK i \in 1..n : q[i] = s
      BY <1>1 DEF Covered
    <3>2. CASE i = j
      <4>1. 1 \in 1..n
        BY <1>1
      <4> QED
        BY <1>3, <3>1, <3>2, <4>1
    <3>3. CASE i < j
      <4>1. i + 1 \in 2..n /\ i + 1 \in 1..n /\ (i + 1) - 1 = i
        BY <1>1, <3>3
      <4>2. r[i + 1] = q[i]
        BY <1>3, <3>3, <4>1
      <4> QED
        BY <3>1, <4>1, <4>2
    <3>4. CASE i > j
      <4>1. i \in 2..n /\ ~(i - 1 < j)
        BY <1>1, <3>4
      <4>2. r[i] = q[i]
        BY <1>3, <4>1
      <4> QED
        BY <3>1, <4>2
    <3> QED
      BY <3>2, <3>3, <3>4
  <2> QED
    BY <2>1, <2>2 DEF Covered
<1>5. Keyed(t)
  BY <1>1, <1>2 DEF Keyed
<1>6. /\ e \in Seq(Pairs) /\ Len(e) = n /\ \A i \in 1..n : e[i] \in Pairs /\ e[i] = <<c.key[q[i]], c.val[q[i]]>>
      /\ f \in Seq(Pairs) /\ Len(f) = n /\ \A i \in 1..n : f[i] = <<c.key[r[i]], c.val[r[i]]>>
  <2>0. c \in CacheOf /\ t \in CacheOf /\ n \in Nat /\ q \in [1..n -> Slots] /\ r \in [1..n -> Slots]
    BY <1>1, <1>2, <1>3
  <2>1. /\ e \in Seq(Pairs) /\ Len(e) = n /\ \A i \in 1..n : e[i] = <<c.key[q[i]], c.val[q[i]]>>
    BY <2>0, EntriesAre
  <2>2. /\ f \in Seq(Pairs) /\ Len(f) = n /\ \A i \in 1..n : f[i] = <<c.key[r[i]], c.val[r[i]]>>
    <3>1. /\ f \in Seq(Pairs) /\ Len(f) = n /\ \A i \in 1..n : f[i] = <<t.key[r[i]], t.val[r[i]]>>
      BY <2>0, EntriesAre
    <3> QED
      BY Zenon, <1>2, <3>1
  <2> HIDE DEF e, f
  <2>3. \A i \in 1..n : e[i] \in Pairs
    BY <2>1
  <2> QED
    BY <2>1, <2>2, <2>3
<1> HIDE DEF e, f
<1>7. /\ rest \in [1..(n - 1) -> Pairs]
      /\ \A i \in 1..(n - 1) : /\ rest[i] = e[IF i < j THEN i ELSE i + 1]
                               /\ (IF i < j THEN i ELSE i + 1) \in 1..n
  <2>1. \A i \in 1..(n - 1) : (IF i < j THEN i ELSE i + 1) \in 1..n
    BY <1>1
  <2> QED
    BY <1>6, <2>1
<1> HIDE DEF rest
<1>8. rest \in Seq(Pairs) /\ Len(rest) = n - 1 /\ n - 1 \in Nat /\ (n - 1) + 1 = n
  <2>1. ASSUME NEW m \in Nat, NEW S, NEW g \in [1..m -> S] PROVE g \in Seq(S) /\ Len(g) = m
    OBVIOUS
  <2>2. n - 1 \in Nat /\ (n - 1) + 1 = n
    BY <1>1
  <2> QED
    BY <1>7, <2>1, <2>2
<1>9. ASSUME NEW i \in 1..(n - 1) PROVE f[i + 1] = rest[i]
  <2> DEFINE a == IF i < j THEN i ELSE i + 1
  <2>1. i + 1 \in 2..n /\ i + 1 \in 1..n /\ (i + 1) - 1 = i /\ a \in 1..n
    BY <1>1
  <2>2. r[i + 1] = q[a]
    BY <1>3, <2>1
  <2>3. rest[i] = e[a]
    BY <1>7
  <2> HIDE DEF a
  <2> QED
    BY <1>6, <2>1, <2>2, <2>3
<1>10. f[1] = e[j]
  <2>1. 1 \in 1..n
    BY <1>1
  <2> QED
    BY <1>3, <1>6, <2>1
<1>11. f = <<f[1]>> \o rest
  BY <1>6, <1>8, <1>9, BeforeThem
<1> QED
  BY <1>2, <1>4, <1>5, <1>10, <1>11 DEF Holds, t, r, e, f, rest

(* A slot below the size that is on neither the list nor the map, while    *)
(* all the others are on both.                                             *)
AllBut(c, n, q, s) ==
  /\ c \in CacheOf /\ n \in Nat /\ c.size = n + 1 /\ ListedAs(n, q, c) /\ s \in 0..n
  /\ \A i \in 1..n : q[i] \in 0..n /\ q[i] # s
  /\ \A x \in 0..n : x # s => \E i \in 1..n : q[i] = x
  /\ DOMAIN c.slotByKey = {c.key[x] : x \in (0..n) \ {s}}
  /\ \A x \in (0..n) \ {s} : c.key[x] \in Keys /\ c.slotByKey[c.key[x]] = x

FirstIs(t, r, n, first, rest) ==
  Holds(t, r) /\ t.size = n + 1 /\ EntriesOf(n + 1, t, r) = <<first>> \o rest

\* An entry that is written in that slot becomes the first.
LEMMA EnteredKeeps ==
  ASSUME CacheAssumption, NEW c, NEW n, NEW q, NEW s, AllBut(c, n, q, s),
         NEW k \in Keys, k \notin DOMAIN c.slotByKey, NEW v \in Stored
  PROVE  FirstIs(PushedHead(Entered(c, s, k, v), s), Headed(n, q, s), n, <<k, v>>, EntriesOf(n, c, q))
<1> DEFINE u == Entered(c, s, k, v)
           t == PushedHead(u, s)
           r == Headed(n, q, s)
           e == EntriesOf(n, c, q)
           f == EntriesOf(n + 1, t, r)
<1>1. /\ c \in CacheOf /\ n \in Nat /\ c.size = n + 1 /\ ListedAs(n, q, c) /\ s \in 0..n
      /\ \A i \in 1..n : q[i] \in 0..n /\ q[i] # s
      /\ \A x \in 0..n : x # s => \E i \in 1..n : q[i] = x
      /\ DOMAIN c.slotByKey = {c.key[x] : x \in (0..n) \ {s}}
      /\ \A x \in (0..n) \ {s} : c.key[x] \in Keys /\ c.slotByKey[c.key[x]] = x
  BY DEF AllBut
<1>2. n + 1 \in 0..Room /\ s \in Slots /\ q \in [1..n -> Slots] /\ \A x \in 0..n : x \in Slots
  BY <1>1, SlotsAre DEF CacheOf, ListedAs, ListOf
<1>3. /\ u \in CacheOf
      /\ u.size = c.size /\ u.head = c.head /\ u.tail = c.tail /\ u.next = c.next /\ u.prev = c.prev
      /\ u.key = [c.key EXCEPT ![s] = k] /\ u.val = [c.val EXCEPT ![s] = v]
      /\ u.slotByKey = [x \in DOMAIN c.slotByKey \cup {k} |-> IF x = k THEN s ELSE c.slotByKey[x]]
  <2>1. u \in CacheOf /\ WrittenTo(u, c, s, k, v)
    BY <1>1, <1>2, EnteredIs
  <2> HIDE DEF u
  <2> QED
    BY <2>1 DEF WrittenTo
<1> HIDE DEF u
<1>4. /\ t \in CacheOf
      /\ t.size = u.size /\ t.slotByKey = u.slotByKey /\ t.key = u.key /\ t.val = u.val
  BY <1>2, <1>3, PushedIs
<1>5. ListedAs(n + 1, r, t)
  <2>1. ListedAs(n, q, u)
    BY <1>1, <1>3 DEF ListedAs
  <2> QED
    BY Zenon, <1>1, <1>2, <1>3, <2>1, PushedIsListed
<1> HIDE DEF t
<1>6. /\ r \in [1..(n + 1) -> Slots] /\ r[1] = s
      /\ \A i \in 1..n : i + 1 \in 1..(n + 1) /\ r[i + 1] = q[i]
  <2>1. r \in [1..(n + 1) -> Slots] /\ \A i \in 1..(n + 1) : r[i] = IF i = 1 THEN s ELSE q[i - 1]
    <3>1. \A i \in 1..(n + 1) : i # 1 => i - 1 \in 1..n
      BY <1>1
    <3> QED
      BY <1>2, <3>1 DEF Headed
  <2> HIDE DEF r
  <2>2. 1 \in 1..(n + 1) /\ \A i \in 1..n : i + 1 \in 1..(n + 1) /\ i + 1 # 1 /\ (i + 1) - 1 = i
    BY <1>1
  <2> QED
    BY <2>1, <2>2
<1> HIDE DEF r
<1>7. Covered(n + 1, r)
  <2>1. (n + 1) - 1 = n
    BY <1>1
  <2>2. ASSUME NEW i \in 1..(n + 1) PROVE r[i] \in 0..n
    <3>1. CASE i = 1
      BY <1>1, <1>6, <3>1
    <3>2. CASE i # 1
      <4>1. i - 1 \in 1..n /\ (i - 1) + 1 = i
        BY <1>1, <3>2
      <4>2. r[(i - 1) + 1] = q[i - 1] /\ q[i - 1] \in 0..n
        BY <1>1, <1>6, <4>1
      <4> QED
        BY <4>1, <4>2
    <3> QED
      BY <3>1, <3>2
  <2>3. ASSUME NEW x \in 0..n PROVE \E i \in 1..(n + 1) : r[i] = x
    <3>1. CASE x = s
      <4>1. 1 \in 1..(n + 1)
        BY <1>1
      <4> QED
        BY <1>6, <3>1, <4>1
    <3>2. CASE x # s
      <4>1. PICK i \in 1..n : q[i] = x
        BY <1>1, <3>2
      <4> QED
        BY <1>6, <4>1
    <3> QED
      BY <3>1, <3>2
  <2> QED
    BY <2>1, <2>2, <2>3 DEF Covered
<1>8. /\ u.key[s] = k /\ u.val[s] = v
      /\ \A x \in (0..n) \ {s} : u.key[x] = c.key[x] /\ u.val[x] = c.val[x]
  <2>1. c.key \in [Slots -> Keys \cup {0}] /\ c.val \in [Slots -> Stored \cup {0}]
    BY <1>1 DEF CacheOf
  <2> QED
    BY <1>2, <1>3, <2>1
<1>9. Keyed(t)
  <2>1. t.size - 1 = n /\ t.size = n + 1
    BY <1>1, <1>3, <1>4
  <2>2. DOMAIN u.slotByKey = {u.key[x] : x \in 0..n}
    <3>1. DOMAIN u.slotByKey = {c.key[x] : x \in (0..n) \ {s}} \cup {k}
      BY <1>1, <1>3
    <3>2. {c.key[x] : x \in (0..n) \ {s}} \cup {k} = {u.key[x] : x \in 0..n}
      BY <1>1, <1>8
    <3> QED
      BY <3>1, <3>2
  <2>3. ASSUME NEW x \in 0..n PROVE u.key[x] \in Keys /\ u.slotByKey[u.key[x]] = x
    <3>1. CASE x = s
      BY <1>3, <1>8, <3>1
    <3>2. CASE x # s
      <4>1. x \in (0..n) \ {s}
        BY <3>2
      <4>2. u.key[x] = c.key[x] /\ c.key[x] \in Keys /\ c.slotByKey[c.key[x]] = x
        BY <1>1, <1>8, <4>1
      <4>3. c.key[x] \in DOMAIN c.slotByKey /\ c.key[x] # k
        BY <1>1, <4>1
      <4>4. u.slotByKey[c.key[x]] = c.slotByKey[c.key[x]]
        BY <1>3, <4>3
      <4> QED
        BY <4>2, <4>4
    <3> QED
      BY <3>1, <3>2
  <2> QED
    BY <1>4, <2>1, <2>2, <2>3 DEF Keyed
<1>10. /\ e \in Seq(Pairs) /\ Len(e) = n /\ \A i \in 1..n : e[i] = <<c.key[q[i]], c.val[q[i]]>>
       /\ f \in Seq(Pairs) /\ Len(f) = n + 1 /\ \A i \in 1..(n + 1) : f[i] = <<t.key[r[i]], t.val[r[i]]>>
  <2>1. n + 1 \in Nat
    BY <1>1
  <2>2. c \in CacheOf /\ n \in Nat /\ q \in [1..n -> Slots]
    BY <1>1, <1>2
  <2>3. t \in CacheOf /\ r \in [1..(n + 1) -> Slots]
    BY <1>4, <1>6
  <2>4. /\ e \in Seq(Pairs) /\ Len(e) = n /\ \A i \in 1..n : e[i] = <<c.key[q[i]], c.val[q[i]]>>
    BY <2>2, EntriesAre
  <2>5. /\ f \in Seq(Pairs) /\ Len(f) = n + 1 /\ \A i \in 1..(n + 1) : f[i] = <<t.key[r[i]], t.val[r[i]]>>
    BY <2>1, <2>3, EntriesAre
  <2> QED
    BY <2>4, <2>5
<1> HIDE DEF e, f
<1>11. f[1] = <<k, v>>
  <2>1. 1 \in 1..(n + 1)
    BY <1>1
  <2> QED
    BY <1>4, <1>6, <1>8, <1>10, <2>1
<1>12. ASSUME NEW i \in 1..n PROVE f[i + 1] = e[i]
  <2>1. i + 1 \in 1..(n + 1) /\ r[i + 1] = q[i] /\ q[i] \in (0..n) \ {s}
    BY <1>1, <1>6
  <2>2. f[i + 1] = <<t.key[q[i]], t.val[q[i]]>>
    BY <1>10, <2>1
  <2>3. t.key[q[i]] = c.key[q[i]] /\ t.val[q[i]] = c.val[q[i]]
    BY <1>4, <1>8, <2>1
  <2> QED
    BY <1>10, <2>2, <2>3
<1>13. f = <<f[1]>> \o e
  BY <1>1, <1>10, <1>12, BeforeThem
<1>14. t.size = n + 1
  BY <1>1, <1>3, <1>4
<1> QED
  BY <1>4, <1>5, <1>7, <1>9, <1>11, <1>13, <1>14 DEF Holds, FirstIs, t, r, e, f, u

LEMMA KeyIsAt ==
  ASSUME NEW c, NEW q, Holds(c, q), NEW k, k \in DOMAIN c.slotByKey
  PROVE  \E j \in 1..c.size : q[j] = c.slotByKey[k] /\ c.key[q[j]] = k
<1>1. PICK s \in 0..(c.size - 1) : k = c.key[s]
  BY DEF Holds, Keyed
<1>2. c.slotByKey[k] = s
  BY <1>1 DEF Holds, Keyed
<1>3. PICK j \in 1..c.size : q[j] = s
  BY DEF Holds, Covered
<1> QED
  BY <1>1, <1>2, <1>3

\* What a step of a Recency does to its entries.
OthersOf(e, i) == [j \in 1..(Len(e) - 1) |-> e[IF j < i THEN j ELSE j + 1]]
ReadOf(e, f, k) == \E i \in DOMAIN e : e[i][1] = k /\ f = <<<<k, e[i][2]>>>> \o OthersOf(e, i)
RenewedOf(e, f, k, v) == \E i \in DOMAIN e : e[i][1] = k /\ f = <<<<k, v>>>> \o OthersOf(e, i)
AddedOf(e, f, k, v) == /\ \A i \in DOMAIN e : e[i][1] # k
                       /\ f = <<<<k, v>>>> \o (IF Len(e) = Room THEN OthersOf(e, Room) ELSE e)
Entries(c, q) == EntriesOf(c.size, c, q)

LEMMA GetKeeps ==
  ASSUME CacheAssumption, NEW q, Holds(cache, q), NEW k \in Keys, Get(k)
  PROVE  \E r : Holds(cache', r) /\ ReadOf(Entries(cache, q), Entries(cache', r), k)
<1> DEFINE n == cache.size
           e == Entries(cache, q)
<1>1. cache \in CacheOf /\ n \in Nat /\ q \in [1..n -> Slots]
  BY SlotsAre DEF Holds, CacheOf, ListedAs, ListOf
<1>2. PICK j \in 1..n : q[j] = cache.slotByKey[k] /\ cache.key[q[j]] = k
  BY KeyIsAt DEF Get
<1>3. cache' = Touched(cache, q[j])
  BY <1>2 DEF Get
<1> DEFINE r == Moved(n, q, j)
<1>4. /\ Holds(cache', r) /\ cache'.size = n
      /\ EntriesOf(n, cache', r) = <<e[j]>> \o [i \in 1..(n - 1) |-> e[IF i < j THEN i ELSE i + 1]]
  BY Zenon, <1>3, TouchKeeps DEF Entries
<1>5. /\ Len(e) = n /\ DOMAIN e = 1..n /\ e[j] = <<k, e[j][2]>> /\ e[j][1] = k
  <2>1. /\ Len(e) = n /\ DOMAIN e = 1..n /\ e[j] = <<cache.key[q[j]], cache.val[q[j]]>>
        /\ e[j][1] = cache.key[q[j]] /\ e[j][2] = cache.val[q[j]]
    BY <1>1, <1>2, EntriesAre DEF Entries
  <2> HIDE DEF e
  <2> QED
    BY <1>2, <2>1
<1>6. Entries(cache', r) = <<<<k, e[j][2]>>>> \o OthersOf(e, j)
  BY Zenon, <1>4, <1>5 DEF Entries, OthersOf
<1> HIDE DEF e, r
<1>7. ReadOf(e, Entries(cache', r), k)
  BY <1>2, <1>5, <1>6 DEF ReadOf
<1> QED
  BY Zenon, <1>4, <1>7 DEF e

LEMMA PutAgainKeeps ==
  ASSUME CacheAssumption, NEW q, Holds(cache, q), NEW k \in Keys, NEW v \in Stored, PutAgain(k, v)
  PROVE  \E r : Holds(cache', r) /\ RenewedOf(Entries(cache, q), Entries(cache', r), k, v)
<1> DEFINE n == cache.size
           e == Entries(cache, q)
<1>1. cache \in CacheOf /\ n \in Nat /\ q \in [1..n -> Slots] /\ \A i, j \in 1..n : q[i] = q[j] => i = j
  BY SlotsAre DEF Holds, CacheOf, ListedAs, ListOf
<1>2. PICK j \in 1..n : q[j] = cache.slotByKey[k] /\ cache.key[q[j]] = k
  BY KeyIsAt DEF PutAgain
<1> DEFINE u == [cache EXCEPT !.val[q[j]] = v]
           r == Moved(n, q, j)
           g == EntriesOf(n, u, q)
<1>3. cache' = Touched(u, q[j]) /\ q[j] \in Slots
  BY <1>1, <1>2 DEF PutAgain
<1>4. /\ u \in CacheOf
      /\ u.size = n /\ u.head = cache.head /\ u.tail = cache.tail
      /\ u.next = cache.next /\ u.prev = cache.prev
      /\ u.key = cache.key /\ u.slotByKey = cache.slotByKey
      /\ u.val = [cache.val EXCEPT ![q[j]] = v]
  <2>1. u \in CacheOf /\ RenewedTo(u, cache, q[j], v)
    BY <1>1, <1>3, RenewedIs
  <2> HIDE DEF u
  <2> QED
    BY <2>1 DEF RenewedTo
<1> HIDE DEF u
<1>5. Holds(u, q)
  BY <1>4 DEF Holds, ListedAs, Keyed
<1>6. /\ Holds(cache', r) /\ cache'.size = n
      /\ EntriesOf(n, cache', r) = <<g[j]>> \o [i \in 1..(n - 1) |-> g[IF i < j THEN i ELSE i + 1]]
  <2>1. j \in 1..u.size /\ n = u.size
    BY <1>4
  <2>2. LET t == Touched(u, q[j])
            m == u.size
            d == EntriesOf(m, u, q)
        IN  /\ Holds(t, Moved(m, q, j)) /\ t.size = m
            /\ EntriesOf(m, t, Moved(m, q, j))
                 = <<d[j]>> \o [i \in 1..(m - 1) |-> d[IF i < j THEN i ELSE i + 1]]
    BY Zenon, <1>5, <2>1, TouchKeeps
  <2> QED
    BY Zenon, <1>3, <2>1, <2>2
<1>7. /\ Len(e) = n /\ DOMAIN e = 1..n /\ e[j][1] = k
      /\ \A i \in 1..n : e[i] = <<cache.key[q[i]], cache.val[q[i]]>> /\ g[i] = <<u.key[q[i]], u.val[q[i]]>>
  <2>1. /\ Len(e) = n /\ DOMAIN e = 1..n /\ e[j][1] = cache.key[q[j]]
        /\ \A i \in 1..n : e[i] = <<cache.key[q[i]], cache.val[q[i]]>>
    BY <1>1, <1>2, EntriesAre DEF Entries
  <2>2. \A i \in 1..n : g[i] = <<u.key[q[i]], u.val[q[i]]>>
    BY DEF EntriesOf
  <2> HIDE DEF e, g
  <2> QED
    BY <1>2, <2>1, <2>2
<1> HIDE DEF e, g
<1>8. g[j] = <<k, v>> /\ \A i \in 1..n : i # j => g[i] = e[i]
  <2>1. cache.val \in [Slots -> Stored \cup {0}] /\ \A i \in 1..n : q[i] \in Slots
    BY <1>1 DEF CacheOf
  <2>2. u.val[q[j]] = v /\ \A i \in 1..n : i # j => u.val[q[i]] = cache.val[q[i]]
    BY <1>1, <1>3, <1>4, <2>1
  <2> QED
    BY <1>2, <1>4, <1>7, <2>2
<1>9. [i \in 1..(n - 1) |-> g[IF i < j THEN i ELSE i + 1]] = OthersOf(e, j)
  <2>1. ASSUME NEW i \in 1..(n - 1)
        PROVE  g[IF i < j THEN i ELSE i + 1] = e[IF i < j THEN i ELSE i + 1]
    <3>1. (IF i < j THEN i ELSE i + 1) \in 1..n /\ (IF i < j THEN i ELSE i + 1) # j
      BY <1>1
    <3> QED
      BY <1>8, <3>1
  <2>2. OthersOf(e, j) = [i \in 1..(n - 1) |-> e[IF i < j THEN i ELSE i + 1]]
    BY <1>7 DEF OthersOf
  <2> QED
    BY <2>1, <2>2
<1>10. Entries(cache', r) = <<<<k, v>>>> \o OthersOf(e, j)
  BY Zenon, <1>6, <1>8, <1>9 DEF Entries
<1> HIDE DEF r
<1>11. RenewedOf(e, Entries(cache', r), k, v)
  BY <1>2, <1>7, <1>10 DEF RenewedOf
<1> QED
  BY Zenon, <1>6, <1>11 DEF e

LEMMA EnlargedIs ==
  ASSUME CacheAssumption, NEW q, NEW c, Holds(c, q), c.size # Room
  PROVE  LET u == [c EXCEPT !.size = @ + 1]
         IN  /\ AllBut(u, c.size, q, c.size) /\ u.key = c.key /\ u.val = c.val
             /\ u.slotByKey = c.slotByKey
<1> DEFINE n == c.size
           u == [c EXCEPT !.size = @ + 1]
<1>1. /\ c \in CacheOf /\ n \in Nat /\ n + 1 \in 0..Room /\ ListedAs(n, q, c)
      /\ Covered(n, q) /\ Keyed(c)
  BY SlotsAre DEF Holds, CacheOf
<1>2. /\ u \in CacheOf
      /\ u.head = c.head /\ u.tail = c.tail /\ u.next = c.next /\ u.prev = c.prev
      /\ u.key = c.key /\ u.val = c.val /\ u.slotByKey = c.slotByKey
      /\ u.size = c.size + 1
  BY <1>1, LargerIs
<1> HIDE DEF u
<1>3. ListedAs(n, q, u)
  BY <1>1, <1>2 DEF ListedAs
<1>4. (0..n) \ {n} = 0..(n - 1) /\ n \in 0..n /\ \A x \in 0..(n - 1) : x \in 0..n /\ x # n
  BY <1>1
<1>5. /\ \A i \in 1..n : q[i] \in 0..n /\ q[i] # n
      /\ \A x \in 0..n : x # n => \E i \in 1..n : q[i] = x
  <2>1. \A x \in 0..n : x # n => x \in 0..(n - 1)
    BY <1>1
  <2> QED
    BY <1>1, <1>4, <2>1 DEF Covered
<1>6. /\ DOMAIN u.slotByKey = {u.key[x] : x \in (0..n) \ {n}}
      /\ \A x \in (0..n) \ {n} : u.key[x] \in Keys /\ u.slotByKey[u.key[x]] = x
  BY <1>1, <1>2, <1>4 DEF Keyed
<1>7. AllBut(u, n, q, n)
  BY <1>1, <1>2, <1>3, <1>4, <1>5, <1>6 DEF AllBut
<1> QED
  BY <1>2, <1>7 DEF u

LEMMA FreedIs ==
  ASSUME CacheAssumption, NEW q, NEW c, Holds(c, q), c.size = Room
  PROVE  LET u == Freed(c)
             n == Room
         IN  /\ AllBut(u, n - 1, Omitted(n, q, n), q[n]) /\ c.tail = q[n]
             /\ u.key = c.key /\ u.val = c.val
             /\ DOMAIN u.slotByKey \subseteq DOMAIN c.slotByKey
<1> DEFINE n == Room
           s == q[n]
           w == Forgotten(c, c.key[s])
           u == Unlinked(w, s)
           r == Omitted(n, q, n)
<1>1. /\ c \in CacheOf /\ n \in Nat \ {0} /\ n - 1 \in Nat /\ n \in 1..n /\ (n - 1) + 1 = n
      /\ ListedAs(n, q, c) /\ Covered(n, q) /\ Keyed(c) /\ c.size = n
  BY SlotsAre DEF Holds, CacheOf
<1>2. /\ q \in [1..n -> Slots] /\ c.tail = s /\ s \in Slots
      /\ \A i, j \in 1..n : q[i] = q[j] => i = j
  BY <1>1 DEF ListedAs, ListOf
<1>3. Freed(c) = u
  BY <1>2 DEF Freed
<1>4. /\ w \in CacheOf
      /\ w.size = c.size /\ w.head = c.head /\ w.tail = c.tail
      /\ w.next = c.next /\ w.prev = c.prev /\ w.key = c.key /\ w.val = c.val
      /\ w.slotByKey = [x \in DOMAIN c.slotByKey \ {c.key[s]} |-> c.slotByKey[x]]
  <2>1. \A k : LET d == Forgotten(c, k)
               IN  /\ d \in CacheOf
                   /\ d.size = c.size /\ d.head = c.head /\ d.tail = c.tail
                   /\ d.next = c.next /\ d.prev = c.prev /\ d.key = c.key /\ d.val = c.val
                   /\ d.slotByKey = [x \in DOMAIN c.slotByKey \ {k} |-> c.slotByKey[x]]
    BY Zenon, <1>1, ForgottenIs
  <2> QED
    BY Zenon, <2>1
<1> HIDE DEF w
<1>5. /\ u \in CacheOf /\ UnlinkedTo(u, w, s)
      /\ u.size = w.size /\ u.slotByKey = w.slotByKey /\ u.key = w.key /\ u.val = w.val
  <2>1. u \in CacheOf /\ UnlinkedTo(u, w, s)
    <3>1. s \in Slots /\ w \in CacheOf
      BY <1>2, <1>4
    <3> HIDE DEF s
    <3> QED
      BY Zenon, <3>1, UnlinkedIs
  <2> HIDE DEF u
  <2> QED
    BY Zenon, <2>1 DEF UnlinkedTo
<1>6. ListedAs(n - 1, r, u)
  <2>1. w.next \in Links /\ w.prev \in Links /\ ListOf(n, q, w.head, w.tail, w.next, w.prev)
    BY <1>1, <1>4 DEF CacheOf, ListedAs
  <2>2. LET p == w.prev[s]
            m == w.next[s]
        IN  ListOf(n - 1, r, IF p # Nil THEN w.head ELSE m, IF m # Nil THEN w.tail ELSE p,
                   IF p # Nil THEN [w.next EXCEPT ![p] = m] ELSE w.next,
                   IF m # Nil THEN [w.prev EXCEPT ![m] = p] ELSE w.prev)
    BY Zenon, <1>1, <2>1, OmittedIsListed
  <2> HIDE DEF u, r
  <2>4. ListOf(n - 1, r, u.head, u.tail, u.next, u.prev)
    BY Zenon, <1>5, <2>2 DEF UnlinkedTo
  <2> QED
    BY <2>4 DEF ListedAs
<1> HIDE DEF u
<1>7. \A i \in 1..(n - 1) : i \in 1..n /\ i # n /\ r[i] = q[i]
  BY <1>1 DEF Omitted
<1> HIDE DEF r
<1>8. /\ s \in 0..(n - 1)
      /\ \A i \in 1..(n - 1) : r[i] \in 0..(n - 1) /\ r[i] # s
      /\ \A x \in 0..(n - 1) : x # s => \E i \in 1..(n - 1) : r[i] = x
  <2>1. ASSUME NEW x \in 0..(n - 1), x # s PROVE \E i \in 1..(n - 1) : r[i] = x
    <3>1. PICK i \in 1..n : q[i] = x
      BY <1>1 DEF Covered
    <3>2. i \in 1..(n - 1)
      BY <1>1, <2>1, <3>1
    <3> QED
      BY <1>7, <3>1, <3>2
  <2> QED
    BY <1>1, <1>2, <1>7, <2>1 DEF Covered
<1>9. /\ DOMAIN c.slotByKey = {c.key[x] : x \in 0..(n - 1)}
      /\ \A x \in 0..(n - 1) : c.key[x] \in Keys /\ c.slotByKey[c.key[x]] = x
  BY <1>1 DEF Keyed
<1> HIDE DEF s
<1>10. /\ DOMAIN u.slotByKey = {u.key[x] : x \in (0..(n - 1)) \ {s}}
       /\ \A x \in (0..(n - 1)) \ {s} : u.key[x] \in Keys /\ u.slotByKey[u.key[x]] = x
  <2>1. \A x \in (0..(n - 1)) \ {s} : c.key[x] # c.key[s] /\ c.key[x] \in DOMAIN c.slotByKey
    BY <1>8, <1>9
  <2>2. DOMAIN u.slotByKey = DOMAIN c.slotByKey \ {c.key[s]} /\ u.key = c.key
        /\ \A k \in DOMAIN c.slotByKey \ {c.key[s]} : u.slotByKey[k] = c.slotByKey[k]
    BY <1>4, <1>5
  <2>3. DOMAIN c.slotByKey \ {c.key[s]} = {c.key[x] : x \in (0..(n - 1)) \ {s}}
    BY <1>9, <2>1
  <2> QED
    BY <1>9, <2>1, <2>2, <2>3
<1>11. AllBut(u, n - 1, r, s)
  BY <1>1, <1>4, <1>5, <1>6, <1>8, <1>10 DEF AllBut
<1>12. DOMAIN u.slotByKey \subseteq DOMAIN c.slotByKey
  BY <1>4, <1>5
<1> QED
  BY Zenon, <1>2, <1>3, <1>4, <1>5, <1>11, <1>12 DEF r, s

LEMMA PutNewKeeps ==
  ASSUME CacheAssumption, NEW q, Holds(cache, q), NEW k \in Keys, NEW v \in Stored, PutNew(k, v)
  PROVE  \E r : Holds(cache', r) /\ AddedOf(Entries(cache, q), Entries(cache', r), k, v)
<1> DEFINE n == cache.size
           e == Entries(cache, q)
           Into(u, m, p, s) == /\ AllBut(u, m, p, s) /\ u.key = cache.key /\ u.val = cache.val
                               /\ DOMAIN u.slotByKey \subseteq DOMAIN cache.slotByKey
                               /\ cache' = PushedHead(Entered(u, s, k, v), s)
<1>1. /\ cache \in CacheOf /\ n \in Nat /\ n \in 0..Room /\ Room \in Nat \ {0} /\ q \in [1..n -> Slots]
      /\ Covered(n, q) /\ Keyed(cache) /\ k \notin DOMAIN cache.slotByKey
  BY SlotsAre DEF Holds, CacheOf, ListedAs, ListOf, PutNew
<1>2. /\ Len(e) = n /\ DOMAIN e = 1..n
      /\ \A i \in 1..n : e[i] = <<cache.key[q[i]], cache.val[q[i]]>> /\ e[i][1] = cache.key[q[i]]
  BY <1>1, EntriesAre DEF Entries
<1>3. \A i \in DOMAIN e : e[i][1] # k
  <2> HIDE DEF e
  <2>1. ASSUME NEW i \in 1..n PROVE cache.key[q[i]] \in DOMAIN cache.slotByKey
    BY <1>1 DEF Covered, Keyed
  <2> QED
    BY <1>1, <1>2, <2>1
<1>4. ASSUME NEW u, NEW m, NEW p, NEW s, Into(u, m, p, s)
      PROVE  /\ Holds(cache', Headed(m, p, s))
             /\ Entries(cache', Headed(m, p, s)) = <<<<k, v>>>> \o EntriesOf(m, cache, p)
  <2>1. AllBut(u, m, p, s) /\ cache' = PushedHead(Entered(u, s, k, v), s) /\ k \notin DOMAIN u.slotByKey
    BY <1>1, <1>4
  <2> DEFINE t == PushedHead(Entered(u, s, k, v), s)
  <2>2. FirstIs(t, Headed(m, p, s), m, <<k, v>>, EntriesOf(m, u, p))
    BY <2>1, EnteredKeeps
  <2>4. cache' = t
    BY <2>1
  <2> HIDE DEF t
  <2>3. EntriesOf(m, u, p) = EntriesOf(m, cache, p)
    BY <1>4 DEF EntriesOf
  <2> QED
    BY Zenon, <2>2, <2>3, <2>4 DEF Entries, FirstIs
<1> HIDE DEF Into
<1>5. CASE n # Room
  <2> DEFINE u == [cache EXCEPT !.size = @ + 1]
  <2>1. AllBut(u, n, q, n) /\ u.key = cache.key /\ u.val = cache.val /\ u.slotByKey = cache.slotByKey
    BY <1>5, EnlargedIs
  <2>2. cache' = PushedHead(Entered(u, n, k, v), n)
    BY <1>5 DEF PutNew, Entered
  <2> HIDE DEF u
  <2>3. Into(u, n, q, n)
    BY <2>1, <2>2 DEF Into
  <2>4. AddedOf(e, Entries(cache', Headed(n, q, n)), k, v)
    <3>1. Entries(cache', Headed(n, q, n)) = <<<<k, v>>>> \o e
      BY Zenon, <1>4, <2>3 DEF Entries
    <3> QED
      BY Zenon, <1>2, <1>3, <1>5, <3>1 DEF AddedOf
  <2> QED
    BY Zenon, <1>4, <2>3, <2>4
<1>6. CASE n = Room
  <2> DEFINE u == Freed(cache)
             p == Omitted(n, q, n)
  <2>1. /\ AllBut(u, n - 1, p, q[n]) /\ cache.tail = q[n] /\ u.key = cache.key /\ u.val = cache.val
        /\ DOMAIN u.slotByKey \subseteq DOMAIN cache.slotByKey
    BY Zenon, <1>6, FreedIs
  <2>2. cache' = PushedHead(Entered(u, q[n], k, v), q[n])
    BY Zenon, <1>6, <2>1 DEF PutNew, Entered
  <2> HIDE DEF u
  <2>3. Into(u, n - 1, p, q[n])
    BY <2>1, <2>2 DEF Into
  <2>4. EntriesOf(n - 1, cache, p) = OthersOf(e, n)
    <3>1. ASSUME NEW i \in 1..(n - 1) PROVE <<cache.key[p[i]], cache.val[p[i]]>> = e[IF i < n THEN i ELSE i + 1]
      <4>1. i \in 1..n /\ i < n /\ p[i] = q[i]
        BY <1>1 DEF Omitted
      <4> QED
        BY <1>2, <4>1
    <3>2. OthersOf(e, n) = [i \in 1..(n - 1) |-> e[IF i < n THEN i ELSE i + 1]]
      BY <1>2 DEF OthersOf
    <3> QED
      BY <3>1, <3>2 DEF EntriesOf
  <2>5. AddedOf(e, Entries(cache', Headed(n - 1, p, q[n])), k, v)
    <3>1. Entries(cache', Headed(n - 1, p, q[n])) = <<<<k, v>>>> \o OthersOf(e, n)
      BY Zenon, <1>4, <2>3, <2>4
    <3> QED
      BY Zenon, <1>2, <1>3, <1>6, <3>1 DEF AddedOf
  <2> QED
    BY Zenon, <1>4, <2>3, <2>5
<1> QED
  BY <1>5, <1>6

LEMMA CacheInitHolds == CacheAssumption /\ CacheInit => \E q : Holds(cache, q) /\ cache.size = 0
<1> SUFFICES ASSUME CacheAssumption, CacheInit PROVE \E q : Holds(cache, q) /\ cache.size = 0
  OBVIOUS
<1> DEFINE q == [i \in 1..0 |-> 0]
           none == [k \in {} |-> 0]
<1>1. none \in LookUps
  <2>1. none \in [{} -> Slots] /\ {} \in SUBSET Keys
    OBVIOUS
  <2> HIDE DEF none
  <2> QED
    BY <2>1 DEF LookUps
<1>2. /\ 0 \in 0..Room /\ Zeros \in Links /\ Zeros \in [Slots -> Keys \cup {0}]
      /\ Zeros \in [Slots -> Stored \cup {0}] /\ Nil \in Slots \cup {Nil}
  BY SlotsAre DEF Zeros, Links
<1>3. /\ cache.size = 0 /\ cache.head = Nil /\ cache.tail = Nil /\ DOMAIN cache.slotByKey = {}
  BY DEF CacheInit
<1>4. cache \in CacheOf
  BY Zenon, <1>1, <1>2 DEF CacheInit, CacheOf
<1>5. ListedAs(0, q, cache) /\ Covered(0, q)
  BY <1>3 DEF ListedAs, ListOf, Covered
<1>6. Keyed(cache)
  BY <1>3 DEF Keyed
<1> QED
  BY <1>3, <1>4, <1>5, <1>6 DEF Holds

\* Whatever is done to the cache is done to its entries.
RecentNext(e, f) ==
  \E k \in Keys : ReadOf(e, f, k) \/ \E v \in Stored : RenewedOf(e, f, k, v) \/ AddedOf(e, f, k, v)

LEMMA CacheStep ==
  ASSUME CacheAssumption, NEW q, Holds(cache, q), CacheNext
  PROVE  \E r : Holds(cache', r) /\ RecentNext(Entries(cache, q), Entries(cache', r))
<1>1. PICK k \in Keys : Get(k) \/ \E v \in Stored : PutNew(k, v) \/ PutAgain(k, v)
  BY DEF CacheNext
<1>2. CASE Get(k)
  BY Zenon, <1>2, GetKeeps DEF RecentNext
<1>3. ASSUME NEW v \in Stored, PutNew(k, v)
      PROVE  \E r : Holds(cache', r) /\ RecentNext(Entries(cache, q), Entries(cache', r))
  BY Zenon, <1>3, PutNewKeeps DEF RecentNext
<1>4. ASSUME NEW v \in Stored, PutAgain(k, v)
      PROVE  \E r : Holds(cache', r) /\ RecentNext(Entries(cache, q), Entries(cache', r))
  BY Zenon, <1>4, PutAgainKeeps DEF RecentNext
<1> QED
  BY <1>1, <1>2, <1>3, <1>4

LEMMA CacheStays == ASSUME CacheAssumption PROVE CacheSpec => []CacheInv
<1>1. CacheInit => CacheInv
  BY Zenon, CacheInitHolds DEF CacheInv
<1>2. CacheInv /\ [CacheNext]_cache => CacheInv'
  <2>1. CacheInv /\ CacheNext => CacheInv'
    BY Zenon, CacheStep DEF CacheInv
  <2>2. CacheInv /\ UNCHANGED cache => CacheInv'
    BY Zenon DEF CacheInv
  <2> QED
    BY <2>1, <2>2
<1> QED
  BY <1>1, <1>2, PTL DEF CacheSpec

(* The two directions of the list always run through the same slots, those *)
(* in use, and the map leads from each of their keys, and no other, to it. *)
THEOREM LinksStayAgreed == CacheAssumption => (CacheSpec => [](CacheTypeOK /\ LinksAgree))
<1> SUFFICES ASSUME CacheAssumption PROVE CacheSpec => [](CacheTypeOK /\ LinksAgree)
  OBVIOUS
<1>1. CacheInv => CacheTypeOK /\ LinksAgree
  BY Zenon, HoldsAgrees DEF CacheInv
<1> QED
  BY <1>1, CacheStays, PTL

\* The entries are those of the slots in use.
Listing(c) == Chain(c.head, c.next)
EntriesIn(c) == [i \in 1..Len(Listing(c)) |-> <<c.key[Listing(c)[i]], c.val[Listing(c)[i]]>>]

LEMMA ListingIs ==
  ASSUME CacheAssumption, NEW c, NEW q, Holds(c, q)
  PROVE  EntriesIn(c) = Entries(c, q)
<1> DEFINE n == c.size
<1>1. /\ n \in 0..Room /\ n \in Nat /\ q \in [1..n -> Slots] /\ IsChain(n, q, c.head, c.next)
  <2>1. c \in CacheOf /\ ListOf(n, q, c.head, c.tail, c.next, c.prev)
    BY DEF Holds, ListedAs
  <2>2. n \in 0..Room /\ n \in Nat
    BY <2>1, SlotsAre DEF CacheOf
  <2>3. q \in [1..n -> Slots] /\ IsChain(n, q, c.head, c.next)
    BY <2>1, <2>2 DEF ListOf, IsChain
  <2> QED
    BY <2>2, <2>3
<1>2. Listing(c) = q
  BY Zenon, <1>1, ChainIs DEF Listing
<1>3. Len(q) = n
  <2>1. ASSUME NEW m \in Nat, NEW r \in [1..m -> Slots] PROVE Len(r) = m
    OBVIOUS
  <2> QED
    BY <1>1, <2>1
<1> QED
  BY Zenon, <1>2, <1>3 DEF EntriesIn, Entries, EntriesOf

(* Whatever was read and written before, what is evicted is what was used  *)
(* longest ago, and every other key keeps its value.                       *)
THEOREM CacheIsRecency == CacheAssumption => (CacheSpec => ImplementsRecency)
<1> SUFFICES ASSUME CacheAssumption PROVE CacheSpec => ImplementsRecency
  OBVIOUS
<1> DEFINE es == [i \in 1..Len(InUse) |-> <<cache.key[InUse[i]], cache.val[InUse[i]]>>]
<1>1. es = EntriesIn(cache) /\ es' = EntriesIn(cache')
  BY DEF InUse, EntriesIn, Listing
<1>2. CacheInit => Used!Init
  <2> SUFFICES ASSUME CacheInit PROVE es = << >>
    BY DEF Used!Init
  <2>1. PICK q : Holds(cache, q) /\ cache.size = 0
    BY Zenon, CacheInitHolds
  <2>2. es = Entries(cache, q)
    BY <1>1, <2>1, ListingIs
  <2> HIDE DEF es
  <2> QED
    BY <2>1, <2>2 DEF Entries, EntriesOf
<1>3. CacheInv /\ CacheNext => Used!Next
  <2> SUFFICES ASSUME CacheInv, CacheNext PROVE Used!Next
    OBVIOUS
  <2>1. PICK q : Holds(cache, q)
    BY Zenon DEF CacheInv
  <2>2. PICK r : Holds(cache', r) /\ RecentNext(Entries(cache, q), Entries(cache', r))
    BY Zenon, <2>1, CacheStep
  <2>3. es = Entries(cache, q) /\ es' = Entries(cache', r)
    BY <1>1, <2>1, <2>2, ListingIs
  <2>4. RecentNext(es, es')
    BY Zenon, <2>2, <2>3
  <2>5. RecentNext(es, es') => Used!Next
    BY Zenon DEF RecentNext, ReadOf, RenewedOf, AddedOf, OthersOf, Used!Next, Used!Read,
                 Used!Renew, Used!Add, Used!Latest, Used!Others
  <2> QED
    BY <2>4, <2>5
<1>4. CacheInv /\ [CacheNext]_cache => [Used!Next]_es
  <2>1. UNCHANGED cache => es' = es
    BY <1>1
  <2> QED
    BY Zenon, <1>3, <2>1
<1> QED
  BY <1>2, <1>4, CacheStays, PTL DEF ImplementsRecency, CacheSpec, Used!Spec
=============================================================================
