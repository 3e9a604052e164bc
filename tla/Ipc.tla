--------------------------------- MODULE Ipc ----------------------------------
(* Calls between programs: the channel and the accept loop of Ipc.pol, the *)
(* dispatcher and the proxies parser/ipc.cpp writes, and the framed pipe   *)
(* of the runtime under them.  One program serves; the others connect,     *)
(* make objects in it, call them, ask for capabilities and leave.  A       *)
(* client may stop at any step.  The server stops by a method that throws  *)
(* or by a write to a socket that is closed, and may be started again; an  *)
(* accept that fails, which ends its loop, is left out.                    *)
(*                                                                         *)
(* A frame is two writes and two reads, its length and its body.  Whoever  *)
(* reads waits ten seconds; here it may give up whenever there is nothing  *)
(* to read.  An id is the address of an object, and an address of one run  *)
(* of the server may be that of another object in the next.                *)
(*                                                                         *)
(* The operators whose names end in _m are mutations, no part of it.       *)
EXTENDS Integers, Sequences, FiniteSets

CONSTANTS Clients, Addresses, Caps,
          Allowed,     \* what the policy of the server says yes to
          Keeps,       \* the requests after whose failure a program keeps its connection
          MaxAsks,     \* the requests that are numbered; what follows them is not told apart
          MaxCreates, MaxLinks, MaxStarts    \* bounds of the model

ASSUME IpcAssumption ==
  /\ IsFiniteSet(Clients) /\ Caps # {} /\ Allowed \subseteq Caps
  /\ MaxAsks \in Nat /\ MaxCreates \in Nat /\ MaxLinks \in Nat /\ MaxStarts \in Nat

VARIABLES posix,       \* sockets, where writing to one that is closed ends the process
          server,      \* [pc, link, msg, reply, starts]
          kept,        \* what its process remembers: [objs, live, grants]
          links,       \* [up, down, clientEnd, serverEnd]: what is on its way, and what is open
          queue,       \* the links that wait for accept
          client,      \* [pc, link, asked, req, proxies, tokens]
          run, ended   \* history: the calls carried out, and what their callers were told

vars == <<posix, server, kept, links, queue, client, run, ended>>

Backlog == 16
NoLink == 0
Uncounted == 0           \* the number of a request that follows the numbered ones
Null == <<>>             \* the address, or the nonce, that is nobody's
NoRequest == [kind |-> "none"]
NoReply == [ok |-> FALSE]

Objectless == [objs |-> {}, live |-> {}, grants |-> {}]
Newcomer == [pc |-> "out", link |-> NoLink, asked |-> 0, req |-> NoRequest, proxies |-> {}, tokens |-> {}]

Init == /\ posix \in BOOLEAN
        /\ server = [pc |-> "down", link |-> NoLink, msg |-> NoRequest, reply |-> NoReply, starts |-> 0]
        /\ kept = Objectless
        /\ links = <<>> /\ queue = <<>>
        /\ client = [c \in Clients |-> Newcomer]
        /\ run = {} /\ ended = {}

Call(req) == <<req.by, req.n>>
Half(h, frame) == [half |-> h, frame |-> frame]
-----------------------------------------------------------------------------
(* The client.                                                             *)
Link(c) == client[c].link
At(c, pc) == client[c].pc = pc
Becomes(c, new) == client' = [client EXCEPT ![c] = new]
Goes(c, pc) == Becomes(c, [client[c] EXCEPT !.pc = pc])
\* Out again, with nothing but the number of what it has asked so far.
Outside(c) == [Newcomer EXCEPT !.asked = client[c].asked]
Leaves(c) == links' = [links EXCEPT ![Link(c)].clientEnd = FALSE]

\* A pipe is there once the server asks for a caller; a socket has a queue.
Connect(c) ==
  /\ At(c, "out") /\ Len(links) < MaxLinks /\ server.pc # "down"
  /\ IF posix THEN Len(queue) < Backlog ELSE server.pc = "accept" /\ queue = <<>>
  /\ links' = Append(links, [up |-> <<>>, down |-> <<>>, clientEnd |-> TRUE, serverEnd |-> TRUE])
  /\ queue' = Append(queue, Len(links'))
  /\ Becomes(c, [client[c] EXCEPT !.pc = "idle", !.link = Len(links')])
  /\ UNCHANGED <<posix, server, kept, run, ended>>

\* What may be asked: an object, a method that returns one or that demands a token, a capability.
Requests(c) ==
  LET Asked(kind, id, cap, nonce) == [by |-> c, n |-> client[c].asked + 1, kind |-> kind, id |-> id,
                                    cap |-> cap, nonce |-> nonce]
      any == CHOOSE cap \in Caps : TRUE
  IN {ask \in {Asked("create", Null, any, Null)} : ask.n <= MaxCreates}
     \cup {Asked("capability", Null, cap, Null) : cap \in Caps}
     \cup {Asked(kind, id, any, Null) : kind \in {"find", "release"}, id \in client[c].proxies}
     \cup {Asked("guarded", id, cap, nonce) : id \in client[c].proxies, cap \in Caps,
                                            nonce \in {Null} \cup client[c].tokens}

AskedBefore == {call \in Clients \X (1..MaxAsks) : call[2] <= client[call[1]].asked}

\* There is no last request: a method may be called again, without a number.
Further(c) == {[by |-> c, n |-> Uncounted, kind |-> "find", id |-> id, cap |-> CHOOSE cap \in Caps : TRUE,
                nonce |-> Null] : id \in client[c].proxies}

Ask(c) ==
  /\ At(c, "idle")
  /\ \/ /\ Cardinality(AskedBefore) < MaxAsks
        /\ \E req \in Requests(c) :
             Becomes(c, [client[c] EXCEPT !.pc = "length", !.req = req, !.asked = req.n])
     \/ /\ Cardinality(AskedBefore) = MaxAsks
        /\ \E req \in Further(c) : Becomes(c, [client[c] EXCEPT !.pc = "length", !.req = req])
  /\ UNCHANGED <<posix, server, kept, links, queue, run, ended>>

Writing(c) == client[c].pc \in {"length", "body"}
Reading(c) == client[c].pc \in {"read length", "read body"}

\* A write that fails is not looked at: the read that follows it fails.
ClientWrites(c) ==
  /\ Writing(c)
  /\ IF links[Link(c)].serverEnd
     THEN /\ links' = [links EXCEPT ![Link(c)].up = Append(@, Half(client[c].pc, client[c].req))]
          /\ Goes(c, IF At(c, "length") THEN "body" ELSE "read length")
          /\ UNCHANGED ended
     ELSE IF posix
     THEN /\ Leaves(c) /\ Becomes(c, Outside(c))
          /\ ended' = ended \cup {<<Call(client[c].req), "failed">>}
     ELSE Goes(c, "read length") /\ UNCHANGED <<links, ended>>
  /\ UNCHANGED <<posix, server, kept, queue, run>>

Failed_m(c, rest) == /\ ended' = ended \cup {<<Call(client[c].req), "failed">>}
                     /\ links' = rest /\ Becomes(c, [client[c] EXCEPT !.pc = "idle", !.req = NoRequest])
\* What the caller does with an exchange that failed: a refusal looks the same.
Failed(c, rest) ==
  /\ ended' = ended \cup {<<Call(client[c].req), "failed">>}
  /\ IF client[c].req.kind \in Keeps
     THEN links' = rest /\ Becomes(c, [client[c] EXCEPT !.pc = "idle", !.req = NoRequest])
     ELSE /\ links' = [rest EXCEPT ![Link(c)].clientEnd = FALSE]
          /\ Becomes(c, [Outside(c) EXCEPT !.tokens = client[c].tokens])

Succeeded(c, rest, reply) ==
  /\ ended' = ended \cup {<<Call(client[c].req), "succeeded">>}
  /\ links' = rest
  /\ LET req == client[c].req
         proxies == CASE req.kind \in {"create", "find"} -> client[c].proxies \cup {reply.val}
                      [] req.kind = "release" -> client[c].proxies \ {req.id}
                      [] OTHER -> client[c].proxies
         tokens == IF req.kind = "capability" THEN client[c].tokens \cup {reply.val} ELSE client[c].tokens
     IN Becomes(c, [client[c] EXCEPT !.pc = "idle", !.req = NoRequest, !.proxies = proxies, !.tokens = tokens])

ClientReads_m(c) ==
  LET down == links[Link(c)].down
      rest == [links EXCEPT ![Link(c)].down = Tail(@)]
  IN /\ Reading(c) /\ down # <<>>
     /\ IF At(c, "read length")
        THEN links' = rest /\ Goes(c, "read body") /\ UNCHANGED ended
        ELSE Succeeded(c, rest, Head(down).frame)
     /\ UNCHANGED <<posix, server, kept, queue, run>>
ClientReads(c) ==
  LET down == links[Link(c)].down
      rest == [links EXCEPT ![Link(c)].down = Tail(@)]
  IN /\ Reading(c) /\ down # <<>>
     /\ IF At(c, "read length")
        THEN links' = rest /\ Goes(c, "read body") /\ UNCHANGED ended
        ELSE IF Head(down).frame.ok THEN Succeeded(c, rest, Head(down).frame) ELSE Failed(c, rest)
     /\ UNCHANGED <<posix, server, kept, queue, run>>

ClientGivesUp_m(c) == /\ Reading(c) /\ links[Link(c)].down = <<>> /\ ~links[Link(c)].serverEnd
                      /\ Failed(c, links)
                      /\ UNCHANGED <<posix, server, kept, queue, run>>
\* The ten seconds are over, or the other end is gone.
ClientGivesUp(c) == /\ Reading(c) /\ links[Link(c)].down = <<>>
                    /\ Failed(c, links)
                    /\ UNCHANGED <<posix, server, kept, queue, run>>

\* It closes its connection, or it is killed, wherever it is; another one may come for it.
Leave(c) ==
  /\ ~At(c, "out") /\ Leaves(c) /\ Becomes(c, Outside(c))
  /\ ended' = IF At(c, "idle") THEN ended ELSE ended \cup {<<Call(client[c].req), "failed">>}
  /\ UNCHANGED <<posix, server, kept, queue, run>>
-----------------------------------------------------------------------------
(* The server: one connection to its end, then the next.                   *)
\* A socket file of a server that is gone is taken away first.
Start == /\ server.pc = "down" /\ server.starts < MaxStarts
         /\ server' = [server EXCEPT !.pc = "accept", !.starts = @ + 1]
         /\ UNCHANGED <<posix, kept, links, queue, client, run, ended>>

Accept == /\ server.pc = "accept" /\ queue # <<>>
          /\ server' = [server EXCEPT !.pc = "read length", !.link = Head(queue)]
          /\ queue' = Tail(queue)
          /\ UNCHANGED <<posix, kept, links, client, run, ended>>

ServerReads ==
  LET up == links[server.link].up
  IN /\ server.pc \in {"read length", "read body"} /\ up # <<>>
     /\ links' = [links EXCEPT ![server.link].up = Tail(@)]
     /\ server' = IF server.pc = "read length" THEN [server EXCEPT !.pc = "read body"]
                  ELSE [server EXCEPT !.pc = "handle", !.msg = Head(up).frame]
     /\ UNCHANGED <<posix, kept, queue, client, run, ended>>

ServerGivesUp_m == /\ server.pc \in {"read length", "read body"} /\ links[server.link].up = <<>>
                   /\ ~links[server.link].clientEnd
                   /\ links' = [links EXCEPT ![server.link].serverEnd = FALSE]
                   /\ server' = [server EXCEPT !.pc = "accept", !.link = NoLink]
                   /\ UNCHANGED <<posix, kept, queue, client, run, ended>>
\* Nothing came, and the session ends.
ServerGivesUp == /\ server.pc \in {"read length", "read body"} /\ links[server.link].up = <<>>
                 /\ links' = [links EXCEPT ![server.link].serverEnd = FALSE]
                 /\ server' = [server EXCEPT !.pc = "accept", !.link = NoLink]
                 /\ UNCHANGED <<posix, kept, queue, client, run, ended>>

Answer(ok, val, memory) ==
  /\ server' = [server EXCEPT !.pc = "length", !.reply = [ok |-> ok, val |-> val, of |-> Call(server.msg)]]
  /\ kept' = memory
  /\ run' = IF ok THEN run \cup {Call(server.msg)} ELSE run
  /\ UNCHANGED <<posix, links, queue, client, ended>>

Refuse == Answer(FALSE, Null, kept)

Handling(kinds) == server.pc = "handle" /\ server.msg.kind \in kinds

Create == /\ Handling({"create"})
          /\ \E id \in Addresses \ kept.objs :
               Answer(TRUE, id, [kept EXCEPT !.objs = @ \cup {id}, !.live = @ \cup {id}])

\* The policy decides; what it grants is remembered.
Grant == /\ Handling({"capability"})
         /\ IF server.msg.cap \in Allowed
            THEN LET nonce == <<server.starts, Cardinality(kept.grants) + 1>>
                 IN Answer(TRUE, nonce, [kept EXCEPT !.grants = @ \cup {<<nonce, server.msg.cap>>}])
            ELSE Refuse

Revoke(id) == [kept EXCEPT !.live = @ \ {id}]

Release == /\ Handling({"release"})
           /\ IF server.msg.id \in kept.live THEN Answer(TRUE, Null, Revoke(server.msg.id)) ELSE Refuse

Validates_m(nonce, cap) == \E grant \in kept.grants : grant[1] = nonce
Validates(nonce, cap) == <<nonce, cap>> \in kept.grants

\* A method that returns an object lends it: one of those there are.
Invoke == /\ Handling({"find", "guarded"})
          /\ IF \/ server.msg.id \notin kept.live
                \/ server.msg.kind = "guarded" /\ ~Validates(server.msg.nonce, server.msg.cap)
             THEN Refuse
             ELSE IF server.msg.kind = "find"
             THEN \E id \in kept.objs : Answer(TRUE, id, [kept EXCEPT !.live = @ \cup {id}])
             ELSE Answer(TRUE, Null, kept)

Dies_m == /\ server' = [server EXCEPT !.pc = "down", !.link = NoLink]
          /\ kept' = [kept EXCEPT !.objs = {}]
          /\ links' = [l \in DOMAIN links |-> [links[l] EXCEPT !.serverEnd = FALSE]]
          /\ queue' = <<>>
\* The process ends, and with it all it had open.
Dies == /\ server' = [server EXCEPT !.pc = "down", !.link = NoLink]
        /\ kept' = Objectless
        /\ links' = [l \in DOMAIN links |-> [links[l] EXCEPT !.serverEnd = FALSE]]
        /\ queue' = <<>>

\* A method that throws: nothing in the dispatcher catches it.
Throws == /\ Handling({"find", "guarded"}) /\ server.msg.id \in kept.live
          /\ Dies /\ UNCHANGED <<posix, client, run, ended>>

\* What the write returns is not looked at.
ServerWrites ==
  /\ server.pc \in {"length", "body"}
  /\ IF links[server.link].clientEnd
     THEN /\ links' = [links EXCEPT ![server.link].down = Append(@, Half(server.pc, server.reply))]
          /\ server' = [server EXCEPT !.pc = IF @ = "length" THEN "body" ELSE "read length"]
          /\ UNCHANGED <<kept, queue>>
     ELSE IF posix THEN Dies
     ELSE server' = [server EXCEPT !.pc = "read length"] /\ UNCHANGED <<kept, links, queue>>
  /\ UNCHANGED <<posix, client, run, ended>>
-----------------------------------------------------------------------------
Client(c) == Connect(c) \/ Ask(c) \/ ClientWrites(c) \/ ClientReads(c) \/ ClientGivesUp(c) \/ Leave(c)
Server == \/ Start \/ Accept \/ ServerReads \/ ServerGivesUp \/ ServerWrites
          \/ Create \/ Grant \/ Release \/ Invoke \/ Throws

Next == Server \/ \E c \in Clients : Client(c)

(* Whoever has begun a request goes on with it, and so does the loop of    *)
(* the server.  Nobody has to ask, to leave, to connect or to start it, and *)
(* what the program of the server is asked for, a method or a yes or no,   *)
(* may take for ever.                                                      *)
Fairness == /\ \A c \in Clients : WF_vars(ClientWrites(c) \/ ClientReads(c) \/ ClientGivesUp(c))
            /\ WF_vars(Accept \/ ServerReads \/ ServerGivesUp \/ ServerWrites \/ Create \/ Release)

Spec == Init /\ [][Next]_vars /\ Fairness
-----------------------------------------------------------------------------
(* The memory of the server speaks of objects it has, and a session of a   *)
(* link that is there.                                                     *)
TypeOK == /\ kept.live \subseteq kept.objs /\ kept.objs \subseteq Addresses
          /\ server.pc \in {"down", "accept", "read length", "read body", "handle", "length", "body"}
          /\ server.link = NoLink <=> server.pc \in {"down", "accept"}
          /\ \A c \in Clients : Link(c) = NoLink <=> At(c, "out")

(* What stands next on a wire is the half that is read next, of the reply  *)
(* to what was asked last: replies carry no number.  Requests past the      *)
(* numbered ones are told apart by their client only.                      *)
RepliesMatch ==
  \A c \in Clients : Reading(c) /\ links[Link(c)].down # <<>> =>
    LET next == Head(links[Link(c)].down)
    IN client[c].pc = (IF next.half = "length" THEN "read length" ELSE "read body") /\ next.frame.of = Call(client[c].req)

(* No method that demands a capability runs on behalf of one the policy    *)
(* does not allow, whatever token was granted, before or after a restart.  *)
OnlyAllowed == server.pc = "length" /\ server.reply.ok /\ server.msg.kind = "guarded"
                 => server.msg.cap \in Allowed

(* A caller hears of success only of what was carried out, once, for it;   *)
(* what failed for it may be carried out all the same.  It is said of the  *)
(* requests that have a number.                                            *)
Remote == INSTANCE RemoteCalls WITH
            Calls <- Clients \X (1..MaxAsks),
            run <- {call \in run : call[2] # Uncounted},
            ended <- {end \in ended : end[1][2] # Uncounted}
ImplementsRemoteCalls == Remote!Spec

(* A request comes to its end, whatever becomes of the server.             *)
RequestsReturn == \A c \in Clients : (Writing(c) \/ Reading(c)) ~> (At(c, "idle") \/ At(c, "out"))

\* Nobody asks for ever on one connection.
SessionsAreFinite ==
  \A l \in 1..MaxLinks : <>[][\A c \in Clients : Link(c) = l => ~Ask(c)]_vars

(* Whoever waits for the server has his turn, unless the server dies, a    *)
(* method of its program never returns, or a client before him asks for    *)
(* ever: a session lasts as long as its client asks in time, and nobody    *)
(* else is served in the meantime.                                         *)
ConnectionsServed ==
  []<>(server.pc # "handle") /\ SessionsAreFinite =>
    \A l \in 1..MaxLinks : (\E i \in DOMAIN queue : queue[i] = l)
                              ~> (server.link = l \/ server.pc = "down")

\* Neither a caller nor a connection is forgotten.
EveryoneIsServed == RequestsReturn /\ ConnectionsServed
===============================================================================
