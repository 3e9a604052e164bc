----------------------------- MODULE BoundedFifo -----------------------------
(***************************************************************************)
(* What System.Concurrency.Channel promises (guide 9.6, "a bounded         *)
(* blocking queue"), with no lock, no condition variable and no ring: a    *)
(* value sent is appended when there is room, a value received is the      *)
(* oldest one, and a non-blocking receive comes back empty-handed only     *)
(* from an empty queue.  `got` is what each receiver last came back with.  *)
(* Channel.tla implements it.                                              *)
(***************************************************************************)
EXTENDS Naturals, Sequences

CONSTANTS
  Receivers,  \* the threads that receive
  Values,     \* the 64-bit words that cross the channel
  Bound,      \* how many the queue holds
  None        \* "nothing came back"

VARIABLES queue, got

Init == queue = <<>> /\ got = [r \in Receivers |-> None]

Put(v) == /\ Len(queue) < Bound
          /\ queue' = Append(queue, v)
          /\ UNCHANGED got

Take(r) == /\ queue # <<>>
           /\ got' = [got EXCEPT ![r] = Head(queue)]
           /\ queue' = Tail(queue)

Miss(r) == /\ queue = <<>>
           /\ got' = [got EXCEPT ![r] = None]
           /\ UNCHANGED queue

Next == \/ \E v \in Values : Put(v)
        \/ \E r \in Receivers : Take(r) \/ Miss(r)

Spec == Init /\ [][Next]_<<queue, got>>
=============================================================================
