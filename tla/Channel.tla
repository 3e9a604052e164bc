------------------------------- MODULE Channel -------------------------------
(***************************************************************************)
(* The bounded blocking channel of the hosted runtime:                     *)
(* __polaron_chan_new/_send/_receive/_try_receive (polaron_rt.cpp).  One   *)
(* lock, a ring of `cap` words and two condition variables.                *)
(*                                                                         *)
(* Grain of atomicity: everything between EnterCriticalSection and         *)
(* LeaveCriticalSection (or the atomic unlock-and-sleep of a condition     *)
(* wait) touches only fields the lock guards, so it is one action.  The    *)
(* wake call comes AFTER the unlock in every operation, so it is an action *)
(* of its own, and other threads run in between.  A condition variable is  *)
(* the set of threads asleep on it, read off `pc`; a wake with nobody      *)
(* asleep is lost, and a sleeper may wake spuriously.                      *)
(***************************************************************************)
EXTENDS Integers, FiniteSets, Sequences

CONSTANTS
  Senders,    \* threads that call send
  Receivers,  \* threads that call receive and try_receive
  Values,     \* the words sent
  Capacity,   \* the capacity the constructor was asked for; may be below 1
  None        \* a slot never written, a receiver with no answer yet

ASSUME ChannelAssumption ==
  /\ IsFiniteSet(Senders) /\ IsFiniteSet(Receivers)
  /\ Senders \cap Receivers = {}
  /\ Capacity \in Int
  /\ None \notin Values

VARIABLES
  buf, count, head, tail,  \* struct polaron_chan
  pc,                      \* where each thread is
  arg,                     \* the value each sender is sending
  got                      \* what each receiver's last call returned

vars == <<buf, count, head, tail, pc, arg, got>>

Threads == Senders \cup Receivers

\* __polaron_chan_new raises a capacity below one to one.
Cap == IF Capacity < 1 THEN 1 ELSE Capacity

(* "send"/"receive": wants the lock; "full"/"empty": asleep on notFull or  *)
(* notEmpty; "wakeEmpty"/"wakeFull": unlocked, the wake still to be made.  *)
SenderPc == {"idle", "send", "full", "wakeEmpty"}
ReceiverPc == {"idle", "receive", "try", "empty", "wakeFull"}

At(place) == {t \in Threads : pc[t] = place}

Init == /\ buf = [i \in 0..(Cap - 1) |-> None]
        /\ count = 0 /\ head = 0 /\ tail = 0
        /\ pc = [t \in Threads |-> "idle"]
        /\ arg = [s \in Senders |-> None]
        /\ got = [r \in Receivers |-> None]

Goto(t, place) == pc' = [pc EXCEPT ![t] = place]

(* Definitions whose name ends in _m are not part of the model: each is a  *)
(* plausible mistake in the definition that follows it, kept so that a     *)
(* property can be seen to notice it.                                      *)
Wrap_m(i) == i + 1
Wrap(i) == (i + 1) % Cap
-----------------------------------------------------------------------------
Send(s, v) == /\ pc[s] = "idle"
              /\ Goto(s, "send")
              /\ arg' = [arg EXCEPT ![s] = v]
              /\ UNCHANGED <<buf, count, head, tail, got>>

SendBlocks(s) == /\ pc[s] = "send" /\ count = Cap
                 /\ Goto(s, "full")
                 /\ UNCHANGED <<buf, count, head, tail, arg, got>>

\* wakes only when the channel stops being empty
SendPuts_m(s) == /\ pc[s] = "send" /\ count # Cap
                 /\ buf' = [buf EXCEPT ![tail] = arg[s]]
                 /\ tail' = Wrap(tail)
                 /\ count' = count + 1
                 /\ Goto(s, IF count = 0 THEN "wakeEmpty" ELSE "idle")
                 /\ UNCHANGED <<head, arg, got>>
SendPuts(s) == /\ pc[s] = "send" /\ count # Cap
               /\ buf' = [buf EXCEPT ![tail] = arg[s]]
               /\ tail' = Wrap(tail)
               /\ count' = count + 1
               /\ Goto(s, "wakeEmpty")
               /\ UNCHANGED <<head, arg, got>>

\* WakeConditionVariable: one sleeper, whichever, or nobody.
WakeOne_m(t, place, retry) == Goto(t, "idle")
WakeOne(t, place, retry) ==
  \/ /\ At(place) = {}
     /\ Goto(t, "idle")
  \/ \E u \in At(place) : pc' = [pc EXCEPT ![t] = "idle", ![u] = retry]

SendWakes(s) == /\ pc[s] = "wakeEmpty"
                /\ WakeOne(s, "empty", "receive")
                /\ UNCHANGED <<buf, count, head, tail, arg, got>>
-----------------------------------------------------------------------------
Receive(r) == /\ pc[r] = "idle"
              /\ Goto(r, "receive")
              /\ UNCHANGED <<buf, count, head, tail, arg, got>>

TryReceive(r) == /\ pc[r] = "idle"
                 /\ Goto(r, "try")
                 /\ UNCHANGED <<buf, count, head, tail, arg, got>>

ReceiveBlocks(r) == /\ pc[r] = "receive" /\ count = 0
                    /\ Goto(r, "empty")
                    /\ UNCHANGED <<buf, count, head, tail, arg, got>>

TryMisses(r) == /\ pc[r] = "try" /\ count = 0
                /\ Goto(r, "idle")
                /\ got' = [got EXCEPT ![r] = None]
                /\ UNCHANGED <<buf, count, head, tail, arg>>

\* the wait is an `if`, not a `while`
Takes_m(r) == /\ pc[r] \in {"receive", "try"}
              /\ got' = [got EXCEPT ![r] = buf[head]]
              /\ head' = Wrap(head)
              /\ count' = count - 1
              /\ Goto(r, "wakeFull")
              /\ UNCHANGED <<buf, tail, arg>>
Takes(r) == /\ pc[r] \in {"receive", "try"} /\ count # 0
            /\ got' = [got EXCEPT ![r] = buf[head]]
            /\ head' = Wrap(head)
            /\ count' = count - 1
            /\ Goto(r, "wakeFull")
            /\ UNCHANGED <<buf, tail, arg>>

ReceiveWakes(r) == /\ pc[r] = "wakeFull"
                   /\ WakeOne(r, "full", "send")
                   /\ UNCHANGED <<buf, count, head, tail, arg, got>>
-----------------------------------------------------------------------------
\* Both platforms may return from a condition wait with no wake made.
SpuriousWake(t) == /\ \/ pc[t] = "full" /\ Goto(t, "send")
                      \/ pc[t] = "empty" /\ Goto(t, "receive")
                   /\ UNCHANGED <<buf, count, head, tail, arg, got>>

SenderStep(s) == SendBlocks(s) \/ SendPuts(s) \/ SendWakes(s)
ReceiverStep(r) == ReceiveBlocks(r) \/ TryMisses(r) \/ Takes(r) \/ ReceiveWakes(r)

Next == \/ \E s \in Senders : SenderStep(s) \/ \E v \in Values : Send(s, v)
        \/ \E r \in Receivers : ReceiverStep(r) \/ Receive(r) \/ TryReceive(r)
        \/ \E t \in Threads : SpuriousWake(t)

Spec == Init /\ [][Next]_vars

(* A thread inside a call keeps running; nobody is obliged to make a call, *)
(* and no spurious wake is owed to anyone.                                 *)
Fairness == /\ \A s \in Senders : WF_vars(SenderStep(s))
            /\ \A r \in Receivers : WF_vars(ReceiverStep(r))

FairSpec == Spec /\ Fairness
-----------------------------------------------------------------------------
(* Types and the shape of the ring: `tail` is `count` slots past `head`.   *)
TypeOK == /\ buf \in [0..(Cap - 1) -> Values \cup {None}]
          /\ count \in 0..Cap
          /\ head \in 0..(Cap - 1)
          /\ tail = (head + count) % Cap
          /\ pc \in [Threads -> SenderPc \cup ReceiverPc]
          /\ \A s \in Senders : /\ pc[s] \in SenderPc
                                /\ pc[s] # "idle" => arg[s] \in Values
          /\ \A r \in Receivers : pc[r] \in ReceiverPc
          /\ arg \in [Senders -> Values \cup {None}]
          /\ got \in [Receivers -> Values \cup {None}]

(* The wakes are enough.  __polaron_chan_send and _receive make their wake *)
(* after unlocking and wake one thread per value, while other receivers    *)
(* may steal it in between: while anybody sleeps on notEmpty, every value  *)
(* in the ring still has a wake to come or a receiver already awake for    *)
(* it, so no value can sit in the channel with everybody asleep.           *)
WakesCoverValues ==
  At("empty") # {} =>
    count <= Cardinality(At("wakeEmpty")) + Cardinality(At("receive") \cup At("try"))

(* The same of the free slots and the senders asleep on notFull.           *)
WakesCoverRoom ==
  At("full") # {} =>
    Cap - count <= Cardinality(At("wakeFull")) + Cardinality(At("send"))

\* No wake is missing, on either side of the channel.
WakesCover == WakesCoverValues /\ WakesCoverRoom

(* A sleeping receiver does not sleep on while the channel holds a value,  *)
(* nor a sleeping sender while it has room (the waits of _send and         *)
(* _receive have no timeout, so a missed wake is a thread lost for good).  *)
NobodyLeftAsleep ==
  /\ (At("empty") # {} /\ count > 0) ~> (At("empty") = {} \/ count = 0)
  /\ (At("full") # {} /\ count < Cap) ~> (At("full") = {} \/ count = Cap)

(* The ring is the queue the guide promises: read from `head`, `count`     *)
(* slots on, modulo `cap`, it is the FIFO of BoundedFifo.                  *)
Fifo == INSTANCE BoundedFifo
          WITH queue <- [i \in 1..count |-> buf[(head + i - 1) % Cap]],
               Bound <- Cap
ImplementsFifo == Fifo!Spec
=============================================================================
