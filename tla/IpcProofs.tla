------------------------------ MODULE IpcProofs -------------------------------
(* Theorems about what programs do with one another: Ipc, for any clients, *)
(* policy, bounds and addresses, and the images of bundles that one leaves *)
(* for the next, for any bundles and hosts.                                *)
EXTENDS Ipc, BundleCache, FiniteSetTheorems, SequenceTheorems, TLAPS

Values == Addresses \cup {Null} \cup (Nat \X Nat)
Kinds == {"create", "capability", "find", "release", "guarded"}
Requested == [by : Clients, n : 0..MaxAsks, kind : Kinds, id : Values, cap : Caps, nonce : Values]
Replied == [ok : BOOLEAN, val : Values, of : Clients \X (0..MaxAsks)]
Frames(what) == [half : {"length", "body"}, frame : what]
Wire == [up : Seq(Frames(Requested)), down : Seq(Frames(Replied)), clientEnd : BOOLEAN, serverEnd : BOOLEAN]

ServerPc == {"down", "accept", "read length", "read body", "handle", "length", "body"}
ClientPc == {"out", "idle", "length", "body", "read length", "read body"}
ServerState == [pc : ServerPc, link : Nat, msg : Requested \cup {NoRequest},
                reply : Replied \cup {NoReply}, starts : Nat]
ClientState == [pc : ClientPc, link : Nat, asked : 0..MaxAsks, req : Requested \cup {NoRequest},
                proxies : SUBSET Values, tokens : SUBSET Values]
Memory == [objs : SUBSET Addresses, live : SUBSET Addresses, grants : SUBSET ((Nat \X Nat) \X Caps)]

Typed ==
  /\ posix \in BOOLEAN /\ server \in ServerState /\ kept \in Memory
  /\ links \in Seq(Wire) /\ queue \in Seq(1..Len(links))
  /\ client \in [Clients -> ClientState]

(* The memory of the server: what lives is an object, and what was granted *)
(* was allowed.                                                            *)
Sane(memory) == /\ memory.live \subseteq memory.objs /\ IsFiniteSet(memory.grants)
                /\ \A grant \in memory.grants : grant[2] \in Allowed

(* What the session has in hand, and who made a request.                   *)
InHand(sv) == /\ sv.pc \in {"handle", "length", "body"} => sv.msg \in Requested
              /\ sv.pc \in {"length", "body"} => sv.reply \in Replied /\ sv.reply.of = Call(sv.msg)
              /\ sv.pc = "length" /\ sv.reply.ok /\ sv.msg.kind = "guarded" => sv.msg.cap \in Allowed

Asks(cl) == cl.pc \in {"length", "body", "read length", "read body"}
OwnRequest(c, cl) ==
  Asks(cl) => cl.req \in Requested /\ cl.req.by = c /\ (cl.req.n = cl.asked \/ cl.req.n = Uncounted)

(* Who has which end: a link in the queue or in session is open at the     *)
(* server, a client's at the client, and no two clients have the same one. *)
Ends == /\ server.link \in 0..Len(links) /\ (server.link = NoLink <=> server.pc \in {"down", "accept"})
        /\ server.link # NoLink => links[server.link].serverEnd
        /\ \A i \in 1..Len(queue) : links[queue[i]].serverEnd /\ queue[i] # server.link
        /\ \A i, j \in 1..Len(queue) : queue[i] = queue[j] => i = j
        /\ \A c \in Clients : /\ Link(c) \in 0..Len(links) /\ (Link(c) = NoLink <=> At(c, "out"))
                              /\ Link(c) # NoLink => links[Link(c)].clientEnd
        /\ \A c, d \in Clients : Link(c) # NoLink /\ Link(c) = Link(d) => c = d

Base == /\ Typed /\ Ends /\ Sane(kept) /\ InHand(server)
        /\ \A c \in Clients : OwnRequest(c, client[c])
-----------------------------------------------------------------------------
(* Where a request and its reply are, of a client cl that keeps a wire w   *)
(* for as long as it is served well.                                       *)
Written(cl) == IF cl.pc = "body" THEN <<Half("length", cl.req)>>
               ELSE IF cl.pc = "read length" THEN <<Half("length", cl.req), Half("body", cl.req)>>
               ELSE <<>>

\* A reply to this request, to a call that was carried out if it says so.
Good(reply, cl, carried) ==
  reply \in Replied /\ reply.of = Call(cl.req) /\ (reply.ok => reply.of \in carried)

NextReply(w) == Head(w.down).frame

Unheard(cl, w) == cl.pc \notin {"out", "read body"} /\ w.up = Written(cl) /\ w.down = <<>>
HalfHeard(cl, w) == /\ w.down = <<>>
                    /\ \/ cl.pc = "body" /\ w.up = <<>>
                       \/ cl.pc = "read length" /\ w.up = <<Half("body", cl.req)>>
Heard(cl, w) == cl.pc = "read length" /\ w.up = <<>> /\ w.down = <<>>
HalfAnswered(cl, w, reply) ==
  /\ w.up = <<>>
  /\ \/ cl.pc = "read length" /\ w.down = <<Half("length", reply)>>
     \/ cl.pc = "read body" /\ w.down = <<>>
Answered(cl, w, carried) ==
  /\ w.down # <<>> /\ Good(NextReply(w), cl, carried)
  /\ \/ cl.pc = "read length" /\ w.down = <<Half("length", NextReply(w)), Half("body", NextReply(w))>>
     \/ cl.pc = "read body" /\ w.down = <<Half("body", NextReply(w))>>

\* What a client can find on its wire when nobody writes there any more.
Orderly(cl, w, carried) ==
  \/ w.down = <<>>
  \/ Answered(cl, w, carried)
  \/ /\ w.down # <<>> /\ Good(NextReply(w), cl, carried)
     /\ cl.pc = "read length" /\ w.down = <<Half("length", NextReply(w))>>

Conversation(cl, w, sv, carried) ==
  \/ /\ \/ Unheard(cl, w)
        \/ Answered(cl, w, carried) /\ w.up = <<>>
     /\ sv.link = cl.link => sv.pc = "read length"
  \/ /\ sv.link = cl.link
     /\ \/ sv.pc = "read body" /\ HalfHeard(cl, w)
        \/ sv.pc = "handle" /\ sv.msg = cl.req /\ Heard(cl, w)
        \/ sv.pc = "length" /\ sv.msg = cl.req /\ Good(sv.reply, cl, carried) /\ Heard(cl, w)
        \/ sv.pc = "body" /\ Good(sv.reply, cl, carried) /\ HalfAnswered(cl, w, sv.reply)
  \/ ~w.serverEnd /\ Orderly(cl, w, carried)

Talking == \A c \in Clients : ~At(c, "out") => Conversation(client[c], links[Link(c)], server, run)

(* What a caller was told is of a request it is not waiting for any more,  *)
(* as far as its requests have a number.                                   *)
Waits(cl) == Asks(cl) /\ cl.req.n # Uncounted
Told == \A end \in ended : /\ end[1][1] \in Clients /\ end[1][2] \in 0..MaxAsks
                           /\ LET cl == client[end[1][1]]
                              IN end[1][2] <= cl.asked /\ (Waits(cl) => end[1][2] # cl.asked)
-----------------------------------------------------------------------------
LEMMA WireSet ==
  ASSUME Typed, NEW l \in 1..Len(links), NEW w \in Wire, links' = [links EXCEPT ![l] = w]
  PROVE  /\ links' \in Seq(Wire) /\ Len(links') = Len(links) /\ links'[l] = w
         /\ \A k \in 1..Len(links) : k # l => links'[k] = links[k]
<1>1. links \in Seq(Wire) /\ DOMAIN links = 1..Len(links)
  BY LenProperties DEF Typed
<1>. QED
  BY <1>1, ExceptSeq, LenProperties

LEMMA ClientSet ==
  ASSUME Typed, NEW c \in Clients, NEW cl \in ClientState, Becomes(c, cl)
  PROVE  /\ client' \in [Clients -> ClientState] /\ client'[c] = cl
         /\ \A d \in Clients : d # c => client'[d] = client[d]
BY DEF Typed, Becomes

LEMMA WireOf ==
  ASSUME Typed, NEW l \in 1..Len(links)
  PROVE  /\ links[l] \in Wire /\ links = [links EXCEPT ![l] = links[l]]
<1>1. links \in Seq(Wire) /\ DOMAIN links = 1..Len(links)
  BY LenProperties DEF Typed
<1>. QED
  BY <1>1, ElementOfSeq

\* A step of a client that has a link: it goes on with it or leaves it.
LEMMA BaseClient ==
  ASSUME Base, NEW c \in Clients, Link(c) # NoLink, UNCHANGED <<posix, server, kept, queue>>,
         NEW cl \in ClientState, Becomes(c, cl), OwnRequest(c, cl),
         cl.link \in {NoLink, Link(c)}, cl.link = NoLink <=> cl.pc = "out",
         NEW w \in Wire, links' = [links EXCEPT ![Link(c)] = w],
         w.serverEnd = links[Link(c)].serverEnd, cl.link # NoLink => w.clientEnd
  PROVE  Base'
<1>1. /\ Link(c) \in 1..Len(links) /\ Len(links) \in Nat /\ Typed
      /\ client[c] \in ClientState
  BY LenProperties DEF Base, Ends, Typed, NoLink
<1>2. /\ links' \in Seq(Wire) /\ Len(links') = Len(links) /\ links'[Link(c)] = w
      /\ \A k \in 1..Len(links) : k # Link(c) => links'[k] = links[k]
  BY <1>1, WireSet
<1>3. /\ client' \in [Clients -> ClientState] /\ client'[c] = cl
      /\ \A d \in Clients : d # c => client'[d] = client[d]
  BY <1>1, ClientSet
<1>4. Typed'
  BY <1>1, <1>2, <1>3 DEF Typed
<1>5. \A k \in 1..Len(links) : links'[k].serverEnd = links[k].serverEnd
  BY <1>2
<1>6. queue \in Seq(1..Len(links)) /\ \A i \in 1..Len(queue) : queue[i] \in 1..Len(links)
  BY <1>1, ElementOfSeq DEF Typed
<1>7. /\ server.link \in 0..Len(links) /\ (server.link = NoLink <=> server.pc \in {"down", "accept"})
      /\ server.link # NoLink => links'[server.link].serverEnd
      /\ \A i \in 1..Len(queue) : links'[queue[i]].serverEnd /\ queue[i] # server.link
      /\ \A i, j \in 1..Len(queue) : queue[i] = queue[j] => i = j
  BY <1>1, <1>5, <1>6 DEF Base, Ends, NoLink
<1>8. \A d \in Clients : /\ Link(d)' \in 0..Len(links) /\ (Link(d)' = NoLink <=> At(d, "out")')
                         /\ Link(d)' # NoLink => links'[Link(d)'].clientEnd
  BY <1>1, <1>2, <1>3 DEF Base, Ends, NoLink, Link, At
<1>9. \A d, e \in Clients : Link(d)' # NoLink /\ Link(d)' = Link(e)' => d = e
  BY <1>3 DEF Base, Ends, Link
<1>10. Ends'
  BY <1>2, <1>7, <1>8, <1>9 DEF Ends
<1>11. \A d \in Clients : OwnRequest(d, client'[d])
  BY <1>3 DEF Base
<1>. QED
  BY <1>4, <1>10, <1>11 DEF Base, Sane, InHand, Call

\* A step of the server in session: it goes on with it or ends it.
LEMMA BaseServer ==
  ASSUME Base, server.link # NoLink, UNCHANGED <<posix, queue, client>>,
         kept' \in Memory, Sane(kept'),
         NEW sv \in ServerState, server' = sv, InHand(sv),
         sv.link \in {NoLink, server.link}, sv.link = NoLink <=> sv.pc \in {"down", "accept"},
         NEW w \in Wire, links' = [links EXCEPT ![server.link] = w],
         w.clientEnd = links[server.link].clientEnd, sv.link # NoLink => w.serverEnd
  PROVE  Base'
<1>1. server.link \in 1..Len(links) /\ Len(links) \in Nat /\ Typed
  BY LenProperties DEF Base, Ends, Typed, NoLink
<1>2. /\ links' \in Seq(Wire) /\ Len(links') = Len(links) /\ links'[server.link] = w
      /\ \A k \in 1..Len(links) : k # server.link => links'[k] = links[k]
  BY <1>1, WireSet
<1>3. Typed'
  BY <1>1, <1>2 DEF Typed
<1>4. \A k \in 1..Len(links) : links'[k].clientEnd = links[k].clientEnd
  BY <1>2
<1>5. queue \in Seq(1..Len(links)) /\ \A i \in 1..Len(queue) : queue[i] \in 1..Len(links)
  BY <1>1, ElementOfSeq DEF Typed
<1>6. /\ sv.link \in 0..Len(links)
      /\ sv.link # NoLink => links'[sv.link].serverEnd
      /\ \A i \in 1..Len(queue) : links'[queue[i]].serverEnd /\ queue[i] # sv.link
      /\ \A i, j \in 1..Len(queue) : queue[i] = queue[j] => i = j
  BY <1>1, <1>2, <1>5 DEF Base, Ends, NoLink
<1>7. \A d \in Clients : /\ Link(d)' \in 0..Len(links) /\ (Link(d)' = NoLink <=> At(d, "out")')
                         /\ Link(d)' # NoLink => links'[Link(d)'].clientEnd
  BY <1>1, <1>4 DEF Base, Ends, NoLink, Link, At
<1>8. \A d, e \in Clients : Link(d)' # NoLink /\ Link(d)' = Link(e)' => d = e
  BY DEF Base, Ends, Link
<1>9. Ends'
  BY <1>2, <1>6, <1>7, <1>8 DEF Ends
<1>10. \A d \in Clients : OwnRequest(d, client'[d])
  BY DEF Base
<1>. QED
  BY <1>3, <1>9, <1>10 DEF Base

\* As long as a request may be asked, its asker has a number left for it.
LEMMA NumberLeft ==
  ASSUME Typed, NEW c \in Clients, Cardinality(AskedBefore) < MaxAsks
  PROVE  client[c].asked < MaxAsks
<1>. MaxAsks \in Nat /\ IsFiniteSet(Clients)
  BY IpcAssumption
<1>1. client[c].asked \in 0..MaxAsks
  BY DEF Typed, ClientState
<1>. SUFFICES ASSUME client[c].asked = MaxAsks PROVE FALSE
  BY <1>1
<1>. DEFINE f == [n \in 1..MaxAsks |-> <<c, n>>]
<1>2. f \in Injection(1..MaxAsks, AskedBefore)
  BY DEF Injection, IsInjective, AskedBefore
<1>3. IsFiniteSet(AskedBefore)
  <2>1. IsFiniteSet(1..MaxAsks)
    BY FS_Interval
  <2>2. IsFiniteSet(Clients \X (1..MaxAsks))
    BY <2>1, FS_Product
  <2>. QED
    BY <2>2, FS_Subset DEF AskedBefore
<1>4. Cardinality(1..MaxAsks) <= Cardinality(AskedBefore)
  BY <1>2, <1>3, FS_Injection
<1>5. Cardinality(1..MaxAsks) = MaxAsks /\ Cardinality(AskedBefore) \in Nat
  BY <1>3, FS_Interval, FS_CardinalityType
<1>. QED
  BY <1>4, <1>5

\* What a client may ask has a request's form, its name and the next number.
LEMMA RequestForm ==
  ASSUME Typed, NEW c \in Clients, client[c].asked < MaxAsks, NEW req \in Requests(c)
  PROVE  req \in Requested /\ req.by = c /\ req.n = client[c].asked + 1
<1>1. client[c] \in ClientState /\ MaxAsks \in Nat /\ client[c].asked + 1 \in 1..MaxAsks
  BY IpcAssumption DEF Typed, ClientState
<1>2. client[c].proxies \subseteq Values /\ client[c].tokens \subseteq Values /\ Null \in Values
  BY <1>1 DEF ClientState, Values
<1>3. PICK any \in Caps : any = CHOOSE cap \in Caps : TRUE
  BY IpcAssumption
<1>. DEFINE Asked(kind, id, cap, nonce) ==
       [by |-> c, n |-> client[c].asked + 1, kind |-> kind, id |-> id, cap |-> cap, nonce |-> nonce]
<1>4. \E kind \in Kinds, id \in Values, cap \in Caps, nonce \in Values : req = Asked(kind, id, cap, nonce)
  <2>1. CASE req = Asked("create", Null, any, Null)
    BY <1>2, <2>1 DEF Kinds
  <2>2. CASE req \in {Asked("capability", Null, cap, Null) : cap \in Caps}
    BY <1>2, <2>2 DEF Kinds
  <2>3. CASE req \in {Asked(kind, id, any, Null) : kind \in {"find", "release"}, id \in client[c].proxies}
    BY <1>2, <2>3 DEF Kinds
  <2>4. CASE req \in {Asked("guarded", id, cap, nonce) : id \in client[c].proxies, cap \in Caps,
                                                         nonce \in {Null} \cup client[c].tokens}
    BY <1>2, <2>4 DEF Kinds
  <2>. QED
    BY <1>3, <2>1, <2>2, <2>3, <2>4 DEF Requests
<1>. QED
  BY <1>1, <1>4 DEF Requested

LEMMA FurtherForm ==
  ASSUME Typed, NEW c \in Clients, NEW req \in Further(c)
  PROVE  req \in Requested /\ req.by = c /\ req.n = Uncounted
<1>1. client[c].proxies \subseteq Values /\ Null \in Values /\ Uncounted \in 0..MaxAsks
  BY IpcAssumption DEF Typed, ClientState, Values, Uncounted
<1>2. PICK any \in Caps : any = CHOOSE cap \in Caps : TRUE
  BY IpcAssumption
<1>3. PICK id \in client[c].proxies :
        req = [by |-> c, n |-> Uncounted, kind |-> "find", id |-> id, cap |-> any, nonce |-> Null]
  BY <1>2 DEF Further
<1>. QED
  BY <1>1, <1>3 DEF Requested, Kinds

\* A client that asks has the next number for it, or none.
AsksFor(c, req, asked) ==
  /\ Becomes(c, [client[c] EXCEPT !.pc = "length", !.req = req, !.asked = asked])
  /\ req.by = c
  /\ \/ req.n = asked /\ asked = client[c].asked + 1
     \/ req.n = Uncounted /\ asked = client[c].asked

LEMMA AskForm ==
  ASSUME Typed, NEW c \in Clients, Ask(c)
  PROVE  \E req \in Requested, asked \in 0..MaxAsks : AsksFor(c, req, asked)
<1>1. client[c] \in ClientState /\ client[c].asked \in 0..MaxAsks
  BY DEF Typed, ClientState
<1>2. CASE \E req \in Requests(c) :
             /\ Cardinality(AskedBefore) < MaxAsks
             /\ Becomes(c, [client[c] EXCEPT !.pc = "length", !.req = req, !.asked = req.n])
  <2>1. PICK req \in Requests(c) :
             Becomes(c, [client[c] EXCEPT !.pc = "length", !.req = req, !.asked = req.n])
    BY <1>2
  <2>2. client[c].asked < MaxAsks
    BY <1>2, NumberLeft
  <2>3. req \in Requested /\ req.by = c /\ req.n = client[c].asked + 1
    BY <2>2, RequestForm
  <2>4. req.n \in 0..MaxAsks
    BY <2>3 DEF Requested
  <2>5. AsksFor(c, req, req.n)
    BY <2>1, <2>3 DEF AsksFor
  <2>. QED
    BY <2>3, <2>4, <2>5
<1>3. CASE \E req \in Further(c) : Becomes(c, [client[c] EXCEPT !.pc = "length", !.req = req])
  <2>1. PICK req \in Further(c) : Becomes(c, [client[c] EXCEPT !.pc = "length", !.req = req])
    BY <1>3
  <2>2. req \in Requested /\ req.by = c /\ req.n = Uncounted
    BY FurtherForm
  <2>3. [client[c] EXCEPT !.pc = "length", !.req = req]
          = [client[c] EXCEPT !.pc = "length", !.req = req, !.asked = client[c].asked]
    BY <1>1 DEF ClientState
  <2>4. AsksFor(c, req, client[c].asked)
    BY <2>1, <2>2, <2>3 DEF AsksFor
  <2>. QED
    BY <1>1, <2>2, <2>4
<1>. QED
  BY <1>2, <1>3 DEF Ask

LEMMA BaseAsk ==
  ASSUME Base, NEW c \in Clients, Ask(c)
  PROVE  Base'
<1>0. client[c].pc = "idle" /\ UNCHANGED <<posix, server, kept, links, queue>>
  BY DEF Ask, At
<1>1. Typed /\ Link(c) # NoLink /\ Link(c) \in 1..Len(links) /\ client[c] \in ClientState
  BY <1>0, LenProperties DEF Base, Ends, At, Typed, NoLink
<1>2. PICK req \in Requested, asked \in 0..MaxAsks : AsksFor(c, req, asked)
  BY <1>1, AskForm
<1>. DEFINE cl == [client[c] EXCEPT !.pc = "length", !.req = req, !.asked = asked]
<1>3. /\ cl \in ClientState /\ cl.link = Link(c) /\ cl.pc = "length"
      /\ cl.req = req /\ cl.asked = asked
  BY <1>1, <1>2 DEF ClientState, ClientPc, Link
<1>4. OwnRequest(c, cl)
  BY <1>2, <1>3 DEF OwnRequest, AsksFor
<1>5. links[Link(c)] \in Wire /\ links' = [links EXCEPT ![Link(c)] = links[Link(c)]]
  BY <1>0, <1>1, WireOf
<1>6. links[Link(c)].clientEnd /\ UNCHANGED <<posix, server, kept, queue>>
  BY <1>0, <1>1 DEF Base, Ends
<1>7. Becomes(c, cl)
  BY <1>2 DEF AsksFor
<1>. HIDE DEF cl
<1>. QED
  BY <1>1, <1>3, <1>4, <1>5, <1>6, <1>7, BaseClient

LEMMA FrameTaken ==
  ASSUME NEW what, NEW s \in Seq(Frames(what)), s # <<>>
  PROVE  Tail(s) \in Seq(Frames(what)) /\ Head(s).frame \in what
<1>1. Tail(s) \in Seq(Frames(what)) /\ Head(s) \in Frames(what)
  BY HeadTailProperties
<1>. QED
  BY <1>1 DEF Frames

\* Putting a frame on a wire, taking one off it, closing an end of it.
LEMMA WireChanges ==
  ASSUME NEW w \in Wire
  PROVE  /\ [w EXCEPT !.clientEnd = FALSE] \in Wire /\ [w EXCEPT !.serverEnd = FALSE] \in Wire
         /\ \A h \in {"length", "body"} :
              /\ \A req \in Requested : [w EXCEPT !.up = Append(@, Half(h, req))] \in Wire
              /\ \A reply \in Replied : [w EXCEPT !.down = Append(@, Half(h, reply))] \in Wire
         /\ w.up # <<>> => [w EXCEPT !.up = Tail(@)] \in Wire /\ Head(w.up).frame \in Requested
         /\ w.down # <<>> => [w EXCEPT !.down = Tail(@)] \in Wire /\ Head(w.down).frame \in Replied
<1>1. w.up \in Seq(Frames(Requested)) /\ w.down \in Seq(Frames(Replied))
  BY DEF Wire
<1>2. ASSUME NEW h \in {"length", "body"}, NEW req \in Requested
      PROVE  Append(w.up, Half(h, req)) \in Seq(Frames(Requested))
  <2>1. Half(h, req) \in Frames(Requested)
    BY DEF Half, Frames
  <2>. QED
    BY <1>1, <2>1, AppendProperties
<1>3. ASSUME NEW h \in {"length", "body"}, NEW reply \in Replied
      PROVE  Append(w.down, Half(h, reply)) \in Seq(Frames(Replied))
  <2>1. Half(h, reply) \in Frames(Replied)
    BY DEF Half, Frames
  <2>. QED
    BY <1>1, <2>1, AppendProperties
<1>4. w.up # <<>> => Tail(w.up) \in Seq(Frames(Requested)) /\ Head(w.up).frame \in Requested
  BY <1>1, FrameTaken
<1>5. w.down # <<>> => Tail(w.down) \in Seq(Frames(Replied)) /\ Head(w.down).frame \in Replied
  BY <1>1, FrameTaken
<1>6. /\ [w EXCEPT !.clientEnd = FALSE] \in Wire /\ [w EXCEPT !.serverEnd = FALSE] \in Wire
  BY DEF Wire
<1>7. \A up \in Seq(Frames(Requested)) : [w EXCEPT !.up = up] \in Wire
  BY DEF Wire
<1>8. \A down \in Seq(Frames(Replied)) : [w EXCEPT !.down = down] \in Wire
  BY DEF Wire
<1>. QED
  BY <1>2, <1>3, <1>4, <1>5, <1>6, <1>7, <1>8

\* Whoever has a link has it among those there are.
LEMMA HasLink ==
  ASSUME Base, NEW c \in Clients, ~At(c, "out")
  PROVE  /\ Typed /\ Link(c) # NoLink /\ Link(c) \in 1..Len(links) /\ client[c] \in ClientState
         /\ client[c].pc # "out" /\ links[Link(c)] \in Wire /\ links[Link(c)].clientEnd
BY WireOf, LenProperties DEF Base, Ends, At, Typed, NoLink

LEMMA OutsideForm ==
  ASSUME Typed, NEW c \in Clients
  PROVE  /\ Outside(c) \in ClientState /\ Outside(c).link = NoLink /\ Outside(c).pc = "out"
         /\ \A tokens \in SUBSET Values :
              /\ [Outside(c) EXCEPT !.tokens = tokens] \in ClientState
              /\ [Outside(c) EXCEPT !.tokens = tokens].link = NoLink
              /\ [Outside(c) EXCEPT !.tokens = tokens].pc = "out"
<1>1. client[c] \in ClientState /\ client[c].asked \in 0..MaxAsks
  BY DEF Typed, ClientState
<1>2. Newcomer \in ClientState
  BY IpcAssumption DEF ClientState, ClientPc, Newcomer, NoLink
<1>3. Newcomer.link = NoLink /\ Newcomer.pc = "out"
  BY DEF Newcomer
<1>4. Outside(c) \in ClientState /\ Outside(c).link = NoLink /\ Outside(c).pc = "out"
  BY <1>1, <1>2, <1>3 DEF Outside, ClientState
<1>. QED
  BY <1>4 DEF ClientState

\* A client that leaves: its end is closed, whatever else is on the wire.
LEMMA BaseLeaves ==
  ASSUME Base, NEW c \in Clients, ~At(c, "out"), UNCHANGED <<posix, server, kept, queue>>,
         NEW cl \in ClientState, Becomes(c, cl), cl.link = NoLink, cl.pc = "out",
         NEW w \in Wire, w.serverEnd = links[Link(c)].serverEnd,
         links' = [links EXCEPT ![Link(c)] = [w EXCEPT !.clientEnd = FALSE]]
  PROVE  Base'
<1>1. OwnRequest(c, cl)
  BY DEF OwnRequest, Asks
<1>. DEFINE v == [w EXCEPT !.clientEnd = FALSE]
<1>2. v \in Wire
  BY WireChanges
<1>3. v.serverEnd = links[Link(c)].serverEnd
  BY DEF Wire
<1>. HIDE DEF v
<1>. QED
  BY <1>1, <1>2, <1>3, HasLink, BaseClient DEF v

LEMMA BaseLeave ==
  ASSUME Base, NEW c \in Clients, Leave(c)
  PROVE  Base'
<1>1. links' = [links EXCEPT ![Link(c)] = [links[Link(c)] EXCEPT !.clientEnd = FALSE]]
  BY DEF Leave, Leaves
<1>. QED
  BY <1>1, HasLink, OutsideForm, BaseLeaves DEF Leave

LEMMA BaseClientWrites ==
  ASSUME Base, NEW c \in Clients, ClientWrites(c)
  PROVE  Base'
<1>1. /\ ~At(c, "out") /\ client[c].pc \in {"length", "body"}
      /\ UNCHANGED <<posix, server, kept, queue>>
  BY DEF ClientWrites, Writing, At
<1>2. /\ Typed /\ Link(c) # NoLink /\ Link(c) \in 1..Len(links) /\ client[c] \in ClientState
      /\ links[Link(c)] \in Wire /\ links[Link(c)].clientEnd
      /\ client[c].req \in Requested /\ client[c].req.by = c
      /\ client[c].req.n = client[c].asked \/ client[c].req.n = Uncounted
  BY <1>1, HasLink DEF Base, OwnRequest, Asks
<1>3. ASSUME NEW pc \in {"body", "read length"}, Goes(c, pc),
             NEW w \in Wire, links' = [links EXCEPT ![Link(c)] = w],
             w.serverEnd = links[Link(c)].serverEnd, w.clientEnd = links[Link(c)].clientEnd
      PROVE  Base'
  <2>. DEFINE cl == [client[c] EXCEPT !.pc = pc]
  <2>1. /\ cl \in ClientState /\ cl.link = Link(c) /\ cl.pc = pc
        /\ cl.req = client[c].req /\ cl.asked = client[c].asked
    BY <1>2 DEF ClientState, ClientPc, Link
  <2>2. OwnRequest(c, cl)
    BY <1>2, <2>1 DEF OwnRequest
  <2>3. Becomes(c, cl)
    BY <1>3 DEF Goes
  <2>. HIDE DEF cl
  <2>. QED
    BY <1>1, <1>2, <1>3, <2>1, <2>2, <2>3, BaseClient
<1>4. CASE links[Link(c)].serverEnd
  <2>. DEFINE w == [links[Link(c)] EXCEPT !.up = Append(@, Half(client[c].pc, client[c].req))]
  <2>1. w \in Wire
    BY <1>1, <1>2, WireChanges
  <2>2. w.serverEnd = links[Link(c)].serverEnd /\ w.clientEnd = links[Link(c)].clientEnd
    BY <1>2 DEF Wire
  <2>3. links' = [links EXCEPT ![Link(c)] = w] /\ \E pc \in {"body", "read length"} : Goes(c, pc)
    BY <1>4 DEF ClientWrites
  <2>. HIDE DEF w
  <2>. QED
    BY <1>3, <2>1, <2>2, <2>3
<1>5. CASE ~links[Link(c)].serverEnd /\ posix
  <2>1. links' = [links EXCEPT ![Link(c)] = [links[Link(c)] EXCEPT !.clientEnd = FALSE]]
    BY <1>5 DEF ClientWrites, Leaves
  <2>. QED
    BY <1>1, <1>2, <1>5, <2>1, OutsideForm, BaseLeaves DEF ClientWrites
<1>6. CASE ~links[Link(c)].serverEnd /\ ~posix
  <2>1. Goes(c, "read length") /\ links' = [links EXCEPT ![Link(c)] = links[Link(c)]]
    BY <1>2, <1>6, WireOf DEF ClientWrites
  <2>. QED
    BY <1>2, <1>3, <2>1
<1>. QED
  BY <1>4, <1>5, <1>6

LEMMA BaseFailed ==
  ASSUME Base, NEW c \in Clients, ~At(c, "out"), UNCHANGED <<posix, server, kept, queue>>,
         NEW w \in Wire, w.serverEnd = links[Link(c)].serverEnd, w.clientEnd,
         NEW rest, rest = [links EXCEPT ![Link(c)] = w], Failed(c, rest)
  PROVE  Base'
<1>1. /\ Typed /\ Link(c) # NoLink /\ Link(c) \in 1..Len(links) /\ client[c] \in ClientState
  BY HasLink
<1>2. CASE client[c].req.kind \in Keeps
  <2>. DEFINE cl == [client[c] EXCEPT !.pc = "idle", !.req = NoRequest]
  <2>1. cl \in ClientState /\ cl.link = Link(c) /\ cl.pc = "idle"
    BY <1>1 DEF ClientState, ClientPc, Link
  <2>2. OwnRequest(c, cl)
    BY <2>1 DEF OwnRequest, Asks
  <2>3. Becomes(c, cl) /\ links' = [links EXCEPT ![Link(c)] = w]
    BY <1>2 DEF Failed
  <2>. HIDE DEF cl
  <2>. QED
    BY <1>1, <2>1, <2>2, <2>3, BaseClient
<1>3. CASE client[c].req.kind \notin Keeps
  <2>. DEFINE cl == [Outside(c) EXCEPT !.tokens = client[c].tokens]
  <2>1. cl \in ClientState /\ cl.link = NoLink /\ cl.pc = "out"
    BY <1>1, OutsideForm DEF ClientState
  <2>2. Becomes(c, cl)
    BY <1>3 DEF Failed
  <2>3. links' = [links EXCEPT ![Link(c)] = [w EXCEPT !.clientEnd = FALSE]]
    <3>1. rest[Link(c)] = w /\ links' = [rest EXCEPT ![Link(c)].clientEnd = FALSE]
      BY <1>1, <1>3, LenProperties DEF Failed, Typed
    <3>. QED
      BY <1>1, <3>1
  <2>. HIDE DEF cl
  <2>. QED
    BY <2>1, <2>2, <2>3, BaseLeaves
<1>. QED
  BY <1>2, <1>3

LEMMA BaseSucceeded ==
  ASSUME Base, NEW c \in Clients, ~At(c, "out"), UNCHANGED <<posix, server, kept, queue>>,
         NEW w \in Wire, w.serverEnd = links[Link(c)].serverEnd, w.clientEnd,
         NEW reply \in Replied, Succeeded(c, [links EXCEPT ![Link(c)] = w], reply)
  PROVE  Base'
<1>1. /\ Typed /\ Link(c) # NoLink /\ Link(c) \in 1..Len(links) /\ client[c] \in ClientState
  BY HasLink
<1>2. reply.val \in Values
  BY DEF Replied
<1>3. client[c].proxies \in SUBSET Values /\ client[c].tokens \in SUBSET Values
  BY <1>1 DEF ClientState
<1>4. PICK proxies \in SUBSET Values, tokens \in SUBSET Values :
        Becomes(c, [client[c] EXCEPT !.pc = "idle", !.req = NoRequest, !.proxies = proxies, !.tokens = tokens])
  <2>. DEFINE req == client[c].req
              proxies == CASE req.kind \in {"create", "find"} -> client[c].proxies \cup {reply.val}
                           [] req.kind = "release" -> client[c].proxies \ {req.id}
                           [] OTHER -> client[c].proxies
              tokens == IF req.kind = "capability" THEN client[c].tokens \cup {reply.val} ELSE client[c].tokens
  <2>1. proxies \in SUBSET Values
    BY <1>2, <1>3
  <2>2. tokens \in SUBSET Values
    BY <1>2, <1>3
  <2>3. Becomes(c, [client[c] EXCEPT !.pc = "idle", !.req = NoRequest, !.proxies = proxies, !.tokens = tokens])
    BY DEF Succeeded
  <2>. QED
    BY <2>1, <2>2, <2>3
<1>. DEFINE cl == [client[c] EXCEPT !.pc = "idle", !.req = NoRequest, !.proxies = proxies, !.tokens = tokens]
<1>5. cl \in ClientState /\ cl.link = Link(c) /\ cl.pc = "idle"
  BY <1>1 DEF ClientState, ClientPc, Link
<1>6. OwnRequest(c, cl)
  BY <1>5 DEF OwnRequest, Asks
<1>7. links' = [links EXCEPT ![Link(c)] = w]
  BY DEF Succeeded
<1>. HIDE DEF cl
<1>. QED
  BY <1>1, <1>4, <1>5, <1>6, <1>7, BaseClient DEF cl

LEMMA BaseClientReads ==
  ASSUME Base, NEW c \in Clients, ClientReads(c) \/ ClientGivesUp(c)
  PROVE  Base'
<1>1. /\ ~At(c, "out") /\ client[c].pc \in {"read length", "read body"}
      /\ UNCHANGED <<posix, server, kept, queue>>
  BY DEF ClientReads, ClientGivesUp, Reading, At
<1>2. /\ Typed /\ Link(c) # NoLink /\ Link(c) \in 1..Len(links) /\ client[c] \in ClientState
      /\ links[Link(c)] \in Wire /\ links[Link(c)].clientEnd
      /\ client[c].req \in Requested /\ client[c].req.by = c
      /\ client[c].req.n = client[c].asked \/ client[c].req.n = Uncounted
  BY <1>1, HasLink DEF Base, OwnRequest, Asks
<1>3. CASE ClientGivesUp(c)
  <2>1. links = [links EXCEPT ![Link(c)] = links[Link(c)]]
    BY <1>2, WireOf
  <2>2. Failed(c, links)
    BY <1>3 DEF ClientGivesUp
  <2>. QED
    BY <1>1, <1>2, <2>1, <2>2, BaseFailed
<1>4. CASE ClientReads(c)
  <2>. DEFINE w == [links[Link(c)] EXCEPT !.down = Tail(@)]
              rest == [links EXCEPT ![Link(c)] = w]
              reply == Head(links[Link(c)].down).frame
  <2>1. links[Link(c)].down # <<>>
    BY <1>4 DEF ClientReads
  <2>2. w \in Wire /\ reply \in Replied
    BY <1>2, <2>1, WireChanges
  <2>3. w.serverEnd = links[Link(c)].serverEnd /\ w.clientEnd
    BY <1>2 DEF Wire
  <2>4. CASE At(c, "read length")
    <3>. DEFINE cl == [client[c] EXCEPT !.pc = "read body"]
    <3>1. /\ cl \in ClientState /\ cl.link = Link(c) /\ cl.pc = "read body"
          /\ cl.req = client[c].req /\ cl.asked = client[c].asked
      BY <1>2 DEF ClientState, ClientPc, Link
    <3>2. OwnRequest(c, cl)
      BY <1>2, <3>1 DEF OwnRequest
    <3>3. Becomes(c, cl) /\ links' = [links EXCEPT ![Link(c)] = w]
      BY <1>4, <2>4 DEF ClientReads, Goes
    <3>. HIDE DEF cl, w
    <3>. QED
      BY <1>1, <1>2, <2>2, <2>3, <3>1, <3>2, <3>3, BaseClient
  <2>5. CASE ~At(c, "read length") /\ reply.ok
    <3>1. Succeeded(c, rest, reply)
      BY <1>4, <2>5 DEF ClientReads
    <3>. HIDE DEF w, reply
    <3>. QED
      BY <1>1, <2>2, <2>3, <3>1, BaseSucceeded
  <2>6. CASE ~At(c, "read length") /\ ~reply.ok
    <3>1. Failed(c, rest)
      BY <1>4, <2>6 DEF ClientReads
    <3>. HIDE DEF w, reply
    <3>. QED
      BY <1>1, <2>2, <2>3, <3>1, BaseFailed
  <2>. QED
    BY <2>4, <2>5, <2>6
<1>. QED
  BY <1>3, <1>4

LEMMA BaseConnect ==
  ASSUME Base, NEW c \in Clients, Connect(c)
  PROVE  Base'
<1>. DEFINE new == [up |-> <<>>, down |-> <<>>, clientEnd |-> TRUE, serverEnd |-> TRUE]
            l == Len(links) + 1
            cl == [client[c] EXCEPT !.pc = "idle", !.link = l]
<1>1. /\ Typed /\ Len(links) \in Nat /\ client[c] \in ClientState
      /\ links \in Seq(Wire) /\ Len(queue) \in Nat /\ queue \in Seq(1..Len(links))
      /\ UNCHANGED <<posix, server, kept>>
  BY LenProperties DEF Base, Typed, Connect
<1>2. new \in Wire
  BY EmptySeq DEF Wire
<1>3. links' = Append(links, new)
  BY DEF Connect
<1>4. /\ links' \in Seq(Wire) /\ Len(links') = l /\ links'[l] = new
      /\ \A k \in 1..Len(links) : links'[k] = links[k]
  BY <1>1, <1>2, <1>3, AppendProperties
<1>5. queue' = Append(queue, l) /\ Becomes(c, cl)
  BY <1>4 DEF Connect
<1>6. /\ queue' \in Seq(1..l) /\ Len(queue') = Len(queue) + 1 /\ queue'[Len(queue) + 1] = l
      /\ \A i \in 1..Len(queue) : queue'[i] = queue[i] /\ queue[i] \in 1..Len(links)
  <2>1. queue \in Seq(1..l) /\ l \in 1..l
    BY <1>1, SeqMonotonic
  <2>. QED
    BY <1>1, <1>5, <2>1, AppendProperties, ElementOfSeq
<1>. HIDE DEF new
<1>7. /\ cl \in ClientState /\ cl.link = l /\ cl.pc = "idle"
  <2>1. l \in Nat
    BY <1>1
  <2>. HIDE DEF l
  <2>. QED
    BY <1>1, <2>1 DEF ClientState, ClientPc
<1>. HIDE DEF cl
<1>8. /\ client' \in [Clients -> ClientState] /\ client'[c] = cl
      /\ \A d \in Clients : d # c => client'[d] = client[d]
  BY <1>1, <1>5, <1>7, ClientSet
<1>9. Typed'
  BY <1>1, <1>4, <1>6, <1>8 DEF Typed
<1>10. new.serverEnd /\ new.clientEnd
  BY DEF new
<1>11. /\ server.link \in 0..l /\ server.link # l
       /\ (server.link = NoLink <=> server.pc \in {"down", "accept"})
       /\ server.link # NoLink => links'[server.link].serverEnd
       /\ \A i \in 1..Len(queue') : links'[queue'[i]].serverEnd /\ queue'[i] # server.link
       /\ \A i, j \in 1..Len(queue') : queue'[i] = queue'[j] => i = j
  <2>1. server.link \in 0..Len(links) /\ server.link # l
    BY <1>1 DEF Base, Ends
  <2>2. server.link # NoLink => links'[server.link].serverEnd
    BY <1>1, <1>4, <2>1 DEF Base, Ends, NoLink
  <2>3. ASSUME NEW i \in 1..Len(queue') PROVE links'[queue'[i]].serverEnd /\ queue'[i] # server.link
    <3>1. CASE i = Len(queue) + 1
      BY <1>4, <1>6, <1>10, <2>1, <3>1
    <3>2. CASE i \in 1..Len(queue)
      <4>1. /\ queue'[i] = queue[i] /\ queue[i] \in 1..Len(links)
            /\ links[queue[i]].serverEnd /\ queue[i] # server.link
        BY <1>6, <3>2 DEF Base, Ends
      <4>2. links'[queue[i]] = links[queue[i]]
        BY <1>4, <4>1
      <4>. QED
        BY <4>1, <4>2
    <3>. QED
      BY <1>1, <1>6, <3>1, <3>2
  <2>4. ASSUME NEW i \in 1..Len(queue'), NEW j \in 1..Len(queue'), queue'[i] = queue'[j]
        PROVE  i = j
    <3>1. ASSUME NEW k \in 1..Len(queue) PROVE queue'[k] # l
      <4>1. queue'[k] \in 1..Len(links) /\ Len(links) \in Nat
        BY <1>1, <1>6
      <4>. QED
        BY <4>1
    <3>2. CASE i \in 1..Len(queue) /\ j \in 1..Len(queue)
      BY <1>6, <2>4, <3>2 DEF Base, Ends
    <3>. QED
      BY <1>1, <1>6, <2>4, <3>1, <3>2
  <2>. QED
    BY <1>1, <2>1, <2>2, <2>3, <2>4 DEF Base, Ends
<1>12. ASSUME NEW d \in Clients
       PROVE  /\ Link(d)' \in 0..l /\ (Link(d)' = NoLink <=> At(d, "out")')
              /\ Link(d)' # NoLink => links'[Link(d)'].clientEnd
  <2>1. CASE d = c
    BY <1>1, <1>4, <1>7, <1>8, <1>10, <2>1 DEF NoLink, Link, At
  <2>2. CASE d # c
    BY <1>1, <1>4, <1>8, <2>2, SMTT(20) DEF Base, Ends, NoLink, Link, At
  <2>. QED
    BY <2>1, <2>2
<1>13. \A d, e \in Clients : Link(d)' # NoLink /\ Link(d)' = Link(e)' => d = e
  BY <1>1, <1>7, <1>8 DEF Base, Ends, Link, NoLink
<1>14. Ends'
  BY <1>1, <1>4, <1>11, <1>12, <1>13 DEF Ends
<1>15. \A d \in Clients : OwnRequest(d, client'[d])
  BY <1>7, <1>8 DEF Base, OwnRequest, Asks
<1>. QED
  BY <1>1, <1>9, <1>14, <1>15 DEF Base, Sane, InHand, Call
-----------------------------------------------------------------------------
\* The server goes to another place of its loop and nothing else changes.
LEMMA BaseAccept ==
  ASSUME Base, Start \/ Accept
  PROVE  Base'
<1>1. /\ Typed /\ server \in ServerState /\ UNCHANGED <<posix, kept, links, client>>
      /\ queue \in Seq(1..Len(links)) /\ Len(queue) \in Nat /\ Len(links) \in Nat
      /\ \A i \in 1..Len(queue) : queue[i] \in 1..Len(links)
  BY LenProperties, ElementOfSeq DEF Base, Typed, Start, Accept
<1>2. CASE Start
  <2>1. server' \in ServerState /\ server'.pc = "accept" /\ server'.link = server.link
    <3>1. server.starts + 1 \in Nat /\ server' = [server EXCEPT !.pc = "accept", !.starts = server.starts + 1]
      BY <1>1, <1>2 DEF Start, ServerState
    <3>. QED
      BY <1>1, <3>1 DEF ServerState, ServerPc
  <2>2. server.pc = "down" /\ queue' = queue
    BY <1>2 DEF Start
  <2>. QED
    BY <1>1, <2>1, <2>2 DEF Base, Typed, Ends, InHand, Link, At
<1>3. CASE Accept
  <2>1. queue # <<>> /\ queue' = Tail(queue) /\ server.pc = "accept"
    BY <1>3 DEF Accept
  <2>2. /\ Head(queue) = queue[1] /\ 1 \in 1..Len(queue)
        /\ Tail(queue) \in Seq(1..Len(links)) /\ Len(Tail(queue)) = Len(queue) - 1
        /\ \A i \in 1..Len(Tail(queue)) : Tail(queue)[i] = queue[i + 1]
    BY <1>1, <2>1, HeadTailProperties, EmptySeq
  <2>. DEFINE first == queue[1]
  <2>3. server' \in ServerState /\ server'.pc = "read length" /\ server'.link = first
    <3>1. first \in Nat /\ server' = [server EXCEPT !.pc = "read length", !.link = first]
      BY <1>1, <1>3, <2>2 DEF Accept
    <3>. HIDE DEF first
    <3>. QED
      BY <1>1, <3>1 DEF ServerState, ServerPc
  <2>4. Typed'
    BY <1>1, <2>1, <2>2, <2>3 DEF Typed
  <2>5. \A i \in 1..Len(queue') : /\ i + 1 \in 1..Len(queue) /\ queue'[i] = queue[i + 1]
                                 /\ links[queue[i + 1]].serverEnd /\ queue[i + 1] # first
    BY <1>1, <2>1, <2>2 DEF Base, Ends
  <2>6. \A i, j \in 1..Len(queue') : queue'[i] = queue'[j] => i = j
    BY <1>1, <2>5 DEF Base, Ends
  <2>7. /\ first \in 1..Len(links) /\ links[first].serverEnd
    BY <1>1, <2>2 DEF Base, Ends
  <2>. HIDE DEF first
  <2>8. Ends'
    <3>1. \A d \in Clients : /\ Link(d)' \in 0..Len(links') /\ (Link(d)' = NoLink <=> At(d, "out")')
                             /\ Link(d)' # NoLink => links'[Link(d)'].clientEnd
      BY <1>1 DEF Base, Ends, Link, At
    <3>2. \A d, e \in Clients : Link(d)' # NoLink /\ Link(d)' = Link(e)' => d = e
      BY <1>1 DEF Base, Ends, Link
    <3>3. Len(links') \in Nat /\ server'.link = first /\ links' = links
      BY <1>1, <2>3
    <3>4. server'.link \in 0..Len(links') /\ links'[server'.link].serverEnd /\ server'.link # NoLink
      BY <2>7, <3>3 DEF NoLink
    <3>5. server'.pc \notin {"down", "accept"}
      BY <2>3
    <3>6. \A i \in 1..Len(queue') : links'[queue'[i]].serverEnd /\ queue'[i] # server'.link
      BY <2>5, <3>3
    <3>. QED
      BY <2>6, <3>1, <3>2, <3>4, <3>5, <3>6, Zenon DEF Ends
  <2>. QED
    BY <1>1, <2>3, <2>4, <2>8 DEF Base, InHand
<1>. QED
  BY <1>2, <1>3

LEMMA InSession ==
  ASSUME Base, server.pc \notin {"down", "accept"}
  PROVE  /\ Typed /\ server \in ServerState /\ server.link # NoLink /\ server.link \in 1..Len(links)
         /\ links[server.link] \in Wire /\ links[server.link].serverEnd
BY WireOf, LenProperties DEF Base, Ends, Typed, NoLink

LEMMA BaseServerReads ==
  ASSUME Base, ServerReads \/ ServerGivesUp
  PROVE  Base'
<1>. DEFINE old == links[server.link]
<1>1. /\ Typed /\ server \in ServerState /\ server.link # NoLink
      /\ server.link \in 1..Len(links) /\ old \in Wire /\ old.serverEnd
  BY InSession DEF ServerReads, ServerGivesUp
<1>2. UNCHANGED <<posix, kept, queue, client>> /\ kept \in Memory /\ Sane(kept)
  BY DEF ServerReads, ServerGivesUp, Base, Typed
<1>3. CASE ServerGivesUp
  <2>. DEFINE w == [old EXCEPT !.serverEnd = FALSE]
              sv == [server EXCEPT !.pc = "accept", !.link = NoLink]
  <2>1. w \in Wire /\ w.clientEnd = old.clientEnd
    BY <1>1 DEF Wire
  <2>2. sv \in ServerState /\ sv.pc = "accept" /\ sv.link = NoLink
    BY <1>1 DEF ServerState, ServerPc, NoLink
  <2>3. server' = sv /\ links' = [links EXCEPT ![server.link] = w]
    BY <1>3 DEF ServerGivesUp
  <2>4. InHand(sv)
    BY <2>2 DEF InHand
  <2>. HIDE DEF sv, w
  <2>. QED
    BY <1>1, <1>2, <2>1, <2>2, <2>3, <2>4, BaseServer
<1>4. CASE ServerReads
  <2>. DEFINE w == [old EXCEPT !.up = Tail(@)]
  <2>1. old.up # <<>> /\ links' = [links EXCEPT ![server.link] = w]
    BY <1>4 DEF ServerReads
  <2>2. w \in Wire /\ Head(old.up).frame \in Requested
    BY <1>1, <2>1, WireChanges
  <2>3. w.clientEnd = old.clientEnd /\ w.serverEnd
    BY <1>1 DEF Wire
  <2>4. /\ server' \in ServerState /\ server'.link = server.link
        /\ \/ server'.pc = "read body"
           \/ server'.pc = "handle" /\ server'.msg \in Requested
    BY <1>1, <1>4, <2>2 DEF ServerReads, ServerState, ServerPc
  <2>5. InHand(server')
    BY <2>4 DEF InHand
  <2>. HIDE DEF w
  <2>. QED
    BY <1>1, <1>2, <2>1, <2>2, <2>3, <2>4, <2>5, BaseServer
<1>. QED
  BY <1>3, <1>4

LEMMA CallForm ==
  ASSUME NEW req \in Requested
  PROVE  Call(req) \in Clients \X (0..MaxAsks) /\ req.n \in 0..MaxAsks /\ req.by \in Clients
         /\ Call(req) = <<req.by, req.n>>
BY DEF Call, Requested

\* An answer: a yes to a method that demands a capability is to an allowed one.
LEMMA BaseAnswer ==
  ASSUME Base, server.pc = "handle", NEW ok \in BOOLEAN, NEW val \in Values,
         NEW memory \in Memory, Sane(memory), Answer(ok, val, memory),
         ok /\ server.msg.kind = "guarded" => server.msg.cap \in Allowed
  PROVE  Base'
<1>1. /\ Typed /\ server \in ServerState /\ server.link # NoLink
      /\ server.link \in 1..Len(links) /\ links[server.link] \in Wire /\ links[server.link].serverEnd
      /\ server.msg \in Requested
  BY InSession DEF Base, InHand
<1>2. UNCHANGED <<posix, queue, client>> /\ kept' = memory
      /\ links' = [links EXCEPT ![server.link] = links[server.link]]
  BY <1>1, WireOf DEF Answer
<1>. DEFINE reply == [ok |-> ok, val |-> val, of |-> Call(server.msg)]
            sv == [server EXCEPT !.pc = "length", !.reply = reply]
<1>3. reply \in Replied /\ reply.ok = ok /\ reply.of = Call(server.msg)
  BY <1>1, CallForm DEF Replied
<1>4. server' = sv
  BY DEF Answer
<1>. HIDE DEF reply
<1>5. /\ sv \in ServerState /\ sv.pc = "length" /\ sv.link = server.link
      /\ sv.msg = server.msg /\ sv.reply = reply
  BY <1>1, <1>3 DEF ServerState, ServerPc
<1>. HIDE DEF sv
<1>6. InHand(sv)
  BY <1>1, <1>3, <1>5 DEF InHand
<1>. QED
  BY <1>1, <1>2, <1>4, <1>5, <1>6, BaseServer

LEMMA BaseHandles ==
  ASSUME Base, Create \/ Grant \/ Release \/ Invoke
  PROVE  Base'
<1>1. /\ server.pc = "handle" /\ server \in ServerState /\ server.msg \in Requested
      /\ kept \in Memory /\ Sane(kept)
  BY DEF Create, Grant, Release, Invoke, Handling, Base, Typed, InHand
<1>2. /\ kept.objs \subseteq Addresses /\ kept.live \subseteq kept.objs
      /\ kept.grants \subseteq (Nat \X Nat) \X Caps /\ IsFiniteSet(kept.grants)
      /\ \A grant \in kept.grants : grant[2] \in Allowed
  BY <1>1 DEF Memory, Sane
<1>3. Null \in Values /\ Addresses \subseteq Values /\ (Nat \X Nat) \subseteq Values
  BY DEF Values
<1>4. Refuse => Base'
  BY <1>1, <1>3, BaseAnswer DEF Refuse
<1>5. ASSUME NEW live \in SUBSET kept.objs
      PROVE  [kept EXCEPT !.live = live] \in Memory /\ Sane([kept EXCEPT !.live = live])
  BY <1>1, <1>2, <1>5 DEF Memory, Sane
<1>6. CASE Create
  <2>1. PICK id \in Addresses \ kept.objs :
          Answer(TRUE, id, [kept EXCEPT !.objs = @ \cup {id}, !.live = @ \cup {id}])
    BY <1>6 DEF Create
  <2>. DEFINE memory == [kept EXCEPT !.objs = @ \cup {id}, !.live = @ \cup {id}]
  <2>2. memory \in Memory /\ Sane(memory)
    BY <1>1, <1>2 DEF Memory, Sane
  <2>3. server.msg.kind # "guarded"
    BY <1>6 DEF Create, Handling
  <2>. HIDE DEF memory
  <2>. QED
    BY <1>1, <1>3, <2>1, <2>2, <2>3, BaseAnswer DEF memory
<1>7. CASE Grant
  <2>1. CASE server.msg.cap \in Allowed
    <3>. DEFINE nonce == <<server.starts, Cardinality(kept.grants) + 1>>
                grants == kept.grants \cup {<<nonce, server.msg.cap>>}
                memory == [kept EXCEPT !.grants = grants]
    <3>1. nonce \in Nat \X Nat
      <4>1. server.starts \in Nat /\ Cardinality(kept.grants) \in Nat
        BY <1>1, <1>2, FS_CardinalityType DEF ServerState
      <4>. QED
        BY <4>1
    <3>2. Answer(TRUE, nonce, memory)
      BY <1>7, <2>1 DEF Grant
    <3>. HIDE DEF nonce
    <3>3. grants \subseteq (Nat \X Nat) \X Caps /\ IsFiniteSet(grants)
      <4>1. server.msg.cap \in Caps
        BY <1>1 DEF Requested
      <4>2. <<nonce, server.msg.cap>> \in (Nat \X Nat) \X Caps
        BY <3>1, <4>1
      <4>3. IsFiniteSet(grants)
        BY <1>2, FS_AddElement
      <4>. QED
        BY <1>2, <4>2, <4>3
    <3>4. \A grant \in grants : grant[2] \in Allowed
      BY <1>2, <2>1
    <3>. HIDE DEF grants
    <3>5. memory \in Memory /\ Sane(memory)
      BY <1>1, <1>2, <3>3, <3>4 DEF Memory, Sane
    <3>6. server.msg.kind # "guarded"
      BY <1>7 DEF Grant, Handling
    <3>. HIDE DEF memory
    <3>. QED
      BY <1>1, <1>3, <3>1, <3>2, <3>5, <3>6, BaseAnswer
  <2>. QED
    BY <1>4, <1>7, <2>1 DEF Grant
<1>8. CASE Release
  <2>1. CASE server.msg.id \in kept.live
    <3>1. Revoke(server.msg.id) \in Memory /\ Sane(Revoke(server.msg.id))
      BY <1>2, <1>5 DEF Revoke
    <3>2. server.msg.kind # "guarded" /\ Answer(TRUE, Null, Revoke(server.msg.id))
      BY <1>8, <2>1 DEF Release, Handling
    <3>. QED
      BY <1>1, <1>3, <3>1, <3>2, BaseAnswer
  <2>. QED
    BY <1>4, <1>8, <2>1 DEF Release
<1>9. CASE Invoke
  <2>1. CASE server.msg.kind = "find"
    <3>1. ASSUME NEW id \in kept.objs, Answer(TRUE, id, [kept EXCEPT !.live = @ \cup {id}])
          PROVE  Base'
      <4>1. [kept EXCEPT !.live = @ \cup {id}] \in Memory /\ Sane([kept EXCEPT !.live = @ \cup {id}])
        BY <1>2, <1>5
      <4>2. id \in Values
        BY <1>2, <1>3
      <4>. QED
        BY <1>1, <2>1, <3>1, <4>1, <4>2, BaseAnswer
    <3>. QED
      BY <1>4, <1>9, <2>1, <3>1 DEF Invoke
  <2>2. CASE server.msg.kind = "guarded"
    <3>1. ASSUME Validates(server.msg.nonce, server.msg.cap), Answer(TRUE, Null, kept)
          PROVE  Base'
      <4>1. server.msg.cap \in Allowed
        BY <1>2, <3>1 DEF Validates
      <4>. QED
        BY <1>1, <1>3, <3>1, <4>1, BaseAnswer
    <3>. QED
      BY <1>4, <1>9, <2>2, <3>1 DEF Invoke
  <2>. QED
    BY <1>9, <2>1, <2>2 DEF Invoke, Handling
<1>. QED
  BY <1>6, <1>7, <1>8, <1>9

\* The process ends: nothing is left but what the clients have.
LEMMA BaseDies ==
  ASSUME Base, Dies, UNCHANGED <<posix, client>>
  PROVE  Base'
<1>. DEFINE sv == [server EXCEPT !.pc = "down", !.link = NoLink]
<1>1. Typed /\ server \in ServerState /\ links \in Seq(Wire) /\ Len(links) \in Nat
  BY LenProperties DEF Base, Typed
<1>2. sv \in ServerState /\ sv.pc = "down" /\ sv.link = NoLink
  BY <1>1 DEF ServerState, ServerPc, NoLink
<1>3. server' = sv /\ kept' = Objectless /\ queue' = <<>>
  BY DEF Dies
<1>. HIDE DEF sv
<1>4. /\ links' \in Seq(Wire) /\ Len(links') = Len(links)
      /\ \A k \in 1..Len(links) : links'[k] = [links[k] EXCEPT !.serverEnd = FALSE]
  <2>1. DOMAIN links = 1..Len(links)
    BY <1>1, LenProperties
  <2>2. \A k \in 1..Len(links) : links[k] \in Wire /\ [links[k] EXCEPT !.serverEnd = FALSE] \in Wire
    BY <1>1, ElementOfSeq, WireChanges
  <2>3. links' = [k \in 1..Len(links) |-> [links[k] EXCEPT !.serverEnd = FALSE]]
    BY <2>1 DEF Dies
  <2>4. links' \in [1..Len(links) -> Wire]
    BY <2>2, <2>3
  <2>5. links' \in Seq(Wire)
    BY <1>1, <2>4, SeqDef
  <2>6. DOMAIN links' = 1..Len(links) /\ DOMAIN links' = 1..Len(links') /\ Len(links') \in Nat
    BY <2>4, <2>5, LenProperties
  <2>. QED
    BY <1>1, <2>3, <2>5, <2>6
<1>5. ASSUME NEW k \in 1..Len(links) PROVE links'[k].clientEnd = links[k].clientEnd
  <2>1. links[k] \in Wire /\ links'[k] = [links[k] EXCEPT !.serverEnd = FALSE]
    BY <1>1, <1>4, ElementOfSeq
  <2>. QED
    BY <2>1 DEF Wire
<1>6. queue' \in Seq(1..Len(links')) /\ Len(queue') = 0
  BY <1>3, EmptySeq
<1>7. kept' \in Memory /\ Sane(kept')
  BY <1>3, FS_EmptySet DEF Objectless, Memory, Sane
<1>8. Typed'
  BY <1>1, <1>2, <1>3, <1>4, <1>6, <1>7 DEF Typed
<1>9. \A d \in Clients : /\ Link(d)' \in 0..Len(links') /\ (Link(d)' = NoLink <=> At(d, "out")')
                         /\ Link(d)' # NoLink => links'[Link(d)'].clientEnd
  BY <1>1, <1>4, <1>5 DEF Base, Ends, NoLink, Link, At
<1>10. \A d, e \in Clients : Link(d)' # NoLink /\ Link(d)' = Link(e)' => d = e
  BY DEF Base, Ends, Link
<1>11. Len(links') \in Nat /\ server'.link = NoLink
  BY <1>1, <1>2, <1>3, <1>4
<1>12. server'.link \in 0..Len(links') /\ server'.pc = "down" /\ 1..Len(queue') = {}
  BY <1>2, <1>3, <1>6, <1>11 DEF NoLink
<1>13. Ends'
  BY <1>9, <1>10, <1>11, <1>12 DEF Ends
<1>. QED
  BY <1>2, <1>3, <1>7, <1>8, <1>13 DEF Base, InHand

LEMMA BaseServerWrites ==
  ASSUME Base, ServerWrites \/ Throws
  PROVE  Base'
<1>. DEFINE old == links[server.link]
<1>1. /\ Typed /\ server \in ServerState /\ server.link # NoLink
      /\ server.link \in 1..Len(links) /\ old \in Wire /\ old.serverEnd
  BY InSession DEF ServerWrites, Throws, Handling
<1>2. UNCHANGED <<posix, client>> /\ kept \in Memory /\ Sane(kept)
  BY DEF ServerWrites, Throws, Base, Typed
<1>3. CASE Dies
  BY <1>2, <1>3, BaseDies
<1>4. ASSUME ServerWrites, ~Dies PROVE Base'
  <2>1. /\ server.pc \in {"length", "body"} /\ server.msg \in Requested
        /\ server.reply \in Replied /\ server.reply.of = Call(server.msg)
    BY <1>4 DEF ServerWrites, Base, InHand
  <2>2. UNCHANGED <<kept, queue>>
    BY <1>4 DEF ServerWrites
  <2>3. ASSUME NEW pc \in {"body", "read length"}, server' = [server EXCEPT !.pc = pc],
               NEW w \in Wire, links' = [links EXCEPT ![server.link] = w],
               w.clientEnd = old.clientEnd, w.serverEnd
        PROVE  Base'
    <3>. DEFINE sv == [server EXCEPT !.pc = pc]
    <3>1. /\ sv \in ServerState /\ sv.pc = pc /\ sv.link = server.link
          /\ sv.msg = server.msg /\ sv.reply = server.reply
      BY <1>1 DEF ServerState, ServerPc
    <3>. HIDE DEF sv
    <3>2. InHand(sv)
      BY <2>1, <3>1 DEF InHand
    <3>3. server' = sv
      BY <2>3 DEF sv
    <3>. QED
      BY <1>1, <1>2, <2>2, <2>3, <3>1, <3>2, <3>3, BaseServer
  <2>4. CASE old.clientEnd
    <3>. DEFINE w == [old EXCEPT !.down = Append(@, Half(server.pc, server.reply))]
    <3>1. w \in Wire
      BY <1>1, <2>1, WireChanges
    <3>2. w.clientEnd = old.clientEnd /\ w.serverEnd
      BY <1>1 DEF Wire
    <3>3. /\ links' = [links EXCEPT ![server.link] = w]
          /\ \E pc \in {"body", "read length"} : server' = [server EXCEPT !.pc = pc]
      BY <1>4, <2>4 DEF ServerWrites
    <3>. HIDE DEF w
    <3>. QED
      BY <2>3, <3>1, <3>2, <3>3
  <2>5. CASE ~old.clientEnd
    <3>1. server' = [server EXCEPT !.pc = "read length"] /\ links' = [links EXCEPT ![server.link] = old]
      BY <1>1, <1>4, <2>5, WireOf DEF ServerWrites
    <3>. QED
      BY <1>1, <2>3, <3>1
  <2>. QED
    BY <2>4, <2>5
<1>. QED
  BY <1>3, <1>4 DEF Throws

LEMMA BaseInit == Init => Base
<1>. SUFFICES ASSUME Init PROVE Base
  OBVIOUS
<1>1. /\ links = <<>> /\ queue = <<>> /\ kept = Objectless /\ posix \in BOOLEAN
      /\ server = [pc |-> "down", link |-> NoLink, msg |-> NoRequest, reply |-> NoReply, starts |-> 0]
      /\ client = [c \in Clients |-> Newcomer]
  BY DEF Init
<1>2. /\ links \in Seq(Wire) /\ Len(links) = 0 /\ queue \in Seq(1..Len(links)) /\ Len(queue) = 0
  BY <1>1, EmptySeq
<1>3. server \in ServerState /\ server.pc = "down" /\ server.link = NoLink
  BY <1>1 DEF ServerState, ServerPc, NoLink
<1>4. Newcomer \in ClientState /\ Newcomer.link = NoLink /\ Newcomer.pc = "out"
  BY IpcAssumption DEF ClientState, ClientPc, Newcomer, NoLink
<1>5. kept \in Memory /\ Sane(kept)
  BY <1>1, FS_EmptySet DEF Objectless, Memory, Sane
<1>6. Typed
  BY <1>1, <1>2, <1>3, <1>4, <1>5 DEF Typed
<1>7. server.link \in 0..Len(links) /\ 1..Len(queue) = {}
  BY <1>2, <1>3 DEF NoLink
<1>8. \A c \in Clients : Link(c) \in 0..Len(links) /\ Link(c) = NoLink /\ At(c, "out")
  BY <1>1, <1>2, <1>4 DEF Link, At, NoLink
<1>9. Ends
  BY <1>3, <1>7, <1>8 DEF Ends
<1>10. InHand(server) /\ \A c \in Clients : OwnRequest(c, client[c])
  BY <1>1, <1>3, <1>4 DEF InHand, OwnRequest, Asks
<1>. QED
  BY <1>5, <1>6, <1>9, <1>10 DEF Base

LEMMA BaseNext == Base /\ [Next]_vars => Base'
<1>. SUFFICES ASSUME Base, [Next]_vars PROVE Base'
  OBVIOUS
<1>1. ASSUME NEW c \in Clients, Client(c) PROVE Base'
  BY <1>1, BaseConnect, BaseAsk, BaseClientWrites, BaseClientReads, BaseLeave DEF Client
<1>2. CASE Server
  BY <1>2, BaseAccept, BaseServerReads, BaseServerWrites, BaseHandles DEF Server
<1>3. CASE UNCHANGED vars
  BY <1>3 DEF vars, Base, Typed, Ends, Link, At, Sane, InHand, Call
<1>. QED
  BY <1>1, <1>2, <1>3 DEF Next

(* The session is of a link while there is one, a client has a link while  *)
(* it is in, and what lives is an object: whoever dies, leaves or gives up *)
(* at whatever step.                                                       *)
THEOREM TypeCorrect == Spec => []TypeOK
<1>1. Base => TypeOK
  BY DEF Base, Typed, Ends, Sane, Memory, ServerState, ServerPc, TypeOK
<1>. QED
  BY <1>1, BaseInit, BaseNext, PTL DEF Spec

(* No guarded method runs on behalf of a capability the policy does not    *)
(* allow: a token is looked up with its capability, and what was granted   *)
(* was allowed.                                                            *)
THEOREM NoneWithoutLeave == Spec => []OnlyAllowed
<1>1. Base => OnlyAllowed
  BY DEF Base, InHand, OnlyAllowed
<1>. QED
  BY <1>1, BaseInit, BaseNext, PTL DEF Spec
-----------------------------------------------------------------------------
(* Whose reply it is.                                                      *)
LEMMA ShortTuples ==
  ASSUME NEW x, NEW y
  PROVE  /\ Append(<<>>, x) = <<x>> /\ Append(<<x>>, y) = <<x, y>>
         /\ Tail(<<x>>) = <<>> /\ Tail(<<x, y>>) = <<y>>
         /\ Head(<<x>>) = x /\ Head(<<x, y>>) = x
         /\ <<x>> # <<>> /\ <<x, y>> # <<>>
<1>. DEFINE S == {x, y}
<1>1. /\ <<>> \in Seq(S) /\ Len(<<>>) = 0 /\ <<x>> \in Seq(S) /\ Len(<<x>>) = 1 /\ <<y>> \in Seq(S)
      /\ <<x, y>> \in Seq(S) /\ Len(<<x, y>>) = 2 /\ Len(<<y>>) = 1
      /\ <<x>>[1] = x /\ <<y>>[1] = y /\ <<x, y>>[1] = x /\ <<x, y>>[2] = y
  OBVIOUS
<1>2. <<x>> # <<>> /\ <<x, y>> # <<>>
  BY <1>1
<1>3. Append(<<>>, x) = <<x>>
  <2>1. Append(<<>>, x) \in Seq(S) /\ Len(Append(<<>>, x)) = 1 /\ Append(<<>>, x)[1] = x
    BY <1>1, AppendProperties
  <2>. QED
    BY <1>1, <2>1, SeqEqual
<1>4. Append(<<x>>, y) = <<x, y>>
  <2>1. /\ Append(<<x>>, y) \in Seq(S) /\ Len(Append(<<x>>, y)) = 2
        /\ Append(<<x>>, y)[1] = x /\ Append(<<x>>, y)[2] = y
    BY <1>1, AppendProperties
  <2>2. \A i \in 1..Len(Append(<<x>>, y)) : Append(<<x>>, y)[i] = <<x, y>>[i]
    <3>1. ASSUME NEW i \in 1..2 PROVE i = 1 \/ i = 2
      OBVIOUS
    <3>. QED
      BY <1>1, <2>1, <3>1
  <2>3. Len(Append(<<x>>, y)) = Len(<<x, y>>)
    BY <1>1, <2>1
  <2>. HIDE DEF S
  <2>. QED
    BY <1>1, <2>1, <2>2, <2>3, SeqEqual
<1>5. Tail(<<x>>) = <<>>
  <2>1. Tail(<<x>>) \in Seq(S) /\ Len(Tail(<<x>>)) = 0
    BY <1>1, <1>2, HeadTailProperties
  <2>. QED
    BY <1>1, <2>1, SeqEqual
<1>6. Tail(<<x, y>>) = <<y>>
  <2>1. Tail(<<x, y>>) \in Seq(S) /\ Len(Tail(<<x, y>>)) = 1 /\ Tail(<<x, y>>)[1] = y
    BY <1>1, <1>2, HeadTailProperties
  <2>. QED
    BY <1>1, <2>1, SeqEqual
<1>7. Head(<<x>>) = x /\ Head(<<x, y>>) = x
  OBVIOUS
<1>. QED
  BY <1>2, <1>3, <1>4, <1>5, <1>6, <1>7

LEMMA HalfParts == \A h, frame : Half(h, frame).half = h /\ Half(h, frame).frame = frame
BY DEF Half

\* Nothing is forgotten that was carried out, and who is not served hears
\* nothing of what the server does.
LEMMA StillTalking ==
  ASSUME NEW cl, NEW w, NEW sv, NEW other, NEW carried, NEW more, carried \subseteq more,
         Conversation(cl, w, sv, carried), sv.link # cl.link, other.link # cl.link
  PROVE  Conversation(cl, w, other, more)
BY DEF Conversation, Answered, Orderly, Good

LEMMA ClientTalks ==
  ASSUME Base, Talking, NEW c \in Clients, Link(c) # NoLink, UNCHANGED <<server, run>>,
         NEW cl \in ClientState, Becomes(c, cl),
         NEW w \in Wire, links' = [links EXCEPT ![Link(c)] = w],
         cl.pc # "out" => cl.link = Link(c) /\ Conversation(cl, w, server, run)
  PROVE  Talking'
<1>1. /\ Link(c) \in 1..Len(links) /\ Len(links) \in Nat /\ Typed
  BY LenProperties DEF Base, Ends, Typed, NoLink
<1>2. /\ Len(links') = Len(links) /\ links'[Link(c)] = w
      /\ \A k \in 1..Len(links) : k # Link(c) => links'[k] = links[k]
  BY <1>1, WireSet
<1>3. /\ client' \in [Clients -> ClientState] /\ client'[c] = cl
      /\ \A d \in Clients : d # c => client'[d] = client[d]
  BY <1>1, ClientSet
<1>4. ASSUME NEW d \in Clients, client'[d].pc # "out"
      PROVE  Conversation(client'[d], links'[client'[d].link], server, run)
  <2>1. CASE d = c
    BY <1>2, <1>3, <1>4, <2>1
  <2>2. CASE d # c
    <3>1. Link(d) \in 1..Len(links) /\ Link(d) # Link(c)
      BY <1>1, <1>3, <1>4, <2>2 DEF Base, Ends, NoLink, At
    <3>. QED
      BY <1>2, <1>3, <1>4, <2>2, <3>1 DEF Talking, Link, At
  <2>. QED
    BY <2>1, <2>2
<1>. QED
  BY <1>4 DEF Talking, Link, At

LEMMA ServerTalks ==
  ASSUME Base, Talking, server.link # NoLink, UNCHANGED client, run \subseteq run',
         NEW sv, server' = sv, sv.link \in {NoLink, server.link},
         NEW w \in Wire, links' = [links EXCEPT ![server.link] = w],
         \A c \in Clients : Link(c) = server.link => Conversation(client[c], w, sv, run')
  PROVE  Talking'
<1>1. server.link \in 1..Len(links) /\ Len(links) \in Nat /\ Typed
  BY LenProperties DEF Base, Ends, Typed, NoLink
<1>2. /\ Len(links') = Len(links) /\ links'[server.link] = w
      /\ \A k \in 1..Len(links) : k # server.link => links'[k] = links[k]
  BY <1>1, WireSet
<1>3. ASSUME NEW c \in Clients, ~At(c, "out")
      PROVE  Conversation(client[c], links'[Link(c)], sv, run')
  <2>1. CASE Link(c) = server.link
    BY <1>2, <2>1
  <2>2. CASE Link(c) # server.link
    <3>1. Link(c) \in 1..Len(links) /\ Link(c) # NoLink
      BY <1>1, <1>3 DEF Base, Ends, NoLink
    <3>2. links'[Link(c)] = links[Link(c)] /\ sv.link # Link(c)
      BY <1>2, <2>2, <3>1
    <3>. QED
      BY <1>3, <2>2, <3>2, StillTalking DEF Talking, Link
  <2>. QED
    BY <2>1, <2>2
<1>. QED
  BY <1>3 DEF Talking, Link, At

\* How each step of a client goes on with the conversation.
LEMMA TalkAsk ==
  ASSUME NEW cl, NEW new, NEW w, NEW sv, NEW carried, Conversation(cl, w, sv, carried),
         cl.pc = "idle", new.pc = "length", new.link = cl.link
  PROVE  Conversation(new, w, sv, carried)
BY DEF Conversation, Unheard, Written, Answered, HalfHeard, Heard, HalfAnswered, Orderly

LEMMA TalkWrite ==
  ASSUME NEW cl \in ClientState, NEW w \in Wire, NEW sv, NEW carried, Conversation(cl, w, sv, carried),
         cl.pc \in {"length", "body"}, w.serverEnd, NEW new, new.link = cl.link, new.req = cl.req,
         new.pc = IF cl.pc = "length" THEN "body" ELSE "read length"
  PROVE  Conversation(new, [w EXCEPT !.up = Append(@, Half(cl.pc, cl.req))], sv, carried)
<1>. DEFINE v == [w EXCEPT !.up = Append(@, Half(cl.pc, cl.req))]
<1>1. v.up = Append(w.up, Half(cl.pc, cl.req)) /\ v.down = w.down
  BY DEF Wire
<1>. HIDE DEF v
<1>2. CASE cl.pc = "length"
  <2>1. Unheard(cl, w) /\ (sv.link = cl.link => sv.pc = "read length")
    BY <1>2 DEF Conversation, Answered, HalfHeard, Heard, HalfAnswered
  <2>2. w.up = <<>> /\ w.down = <<>>
    BY <1>2, <2>1 DEF Unheard, Written
  <2>3. v.up = <<Half("length", cl.req)>>
    BY <1>1, <1>2, <2>2, ShortTuples
  <2>. QED
    BY <1>1, <1>2, <2>1, <2>2, <2>3 DEF Conversation, Unheard, Written, v
<1>3. CASE cl.pc = "body"
  <2>1. \/ Unheard(cl, w) /\ (sv.link = cl.link => sv.pc = "read length")
        \/ sv.link = cl.link /\ sv.pc = "read body" /\ HalfHeard(cl, w)
    BY <1>3 DEF Conversation, Answered, Heard, HalfAnswered
  <2>2. CASE Unheard(cl, w) /\ (sv.link = cl.link => sv.pc = "read length")
    <3>1. w.up = <<Half("length", cl.req)>> /\ w.down = <<>>
      BY <1>3, <2>2 DEF Unheard, Written
    <3>2. v.up = <<Half("length", cl.req), Half("body", cl.req)>>
      <4>. DEFINE L == Half("length", cl.req)
                  B == Half("body", cl.req)
      <4>1. v.up = Append(<<L>>, B)
        BY <1>1, <1>3, <3>1
      <4>. HIDE DEF L, B
      <4>2. v.up = <<L, B>>
        BY <4>1, ShortTuples
      <4>. QED
        BY <4>2 DEF L, B
    <3>. QED
      BY <1>1, <1>3, <2>2, <3>1, <3>2 DEF Conversation, Unheard, Written, v
  <2>3. CASE sv.link = cl.link /\ sv.pc = "read body" /\ HalfHeard(cl, w)
    <3>1. w.up = <<>> /\ w.down = <<>>
      BY <1>3, <2>3 DEF HalfHeard
    <3>2. v.up = <<Half("body", cl.req)>>
      BY <1>1, <1>3, <3>1, ShortTuples
    <3>. QED
      BY <1>1, <1>3, <2>3, <3>1, <3>2 DEF Conversation, HalfHeard, v
  <2>. QED
    BY <2>1, <2>2, <2>3
<1>. QED
  BY <1>2, <1>3

\* A write to an end that is closed is as good as none.
LEMMA TalkToNobody ==
  ASSUME NEW cl \in ClientState, NEW w \in Wire, NEW sv, NEW carried, Conversation(cl, w, sv, carried),
         cl.pc \in {"length", "body"}, ~w.serverEnd, sv.link # cl.link, NEW new, new.pc = "read length"
  PROVE  Conversation(new, w, sv, carried)
<1>1. w.down = <<>>
  BY DEF Conversation, Unheard, Answered, Orderly
<1>. QED
  BY <1>1 DEF Conversation, Orderly

\* What is read is the reply to what was asked, its length before its body.
LEMMA TalkRead ==
  ASSUME NEW cl, NEW w \in Wire, NEW sv, NEW carried, Conversation(cl, w, sv, carried),
         cl.pc \in {"read length", "read body"}, w.down # <<>>
  PROVE  /\ Good(NextReply(w), cl, carried)
         /\ \/ /\ cl.pc = "read length" /\ Head(w.down).half = "length"
               /\ \A new : new.pc = "read body" /\ new.link = cl.link /\ new.req = cl.req
                    => Conversation(new, [w EXCEPT !.down = Tail(@)], sv, carried)
            \/ /\ cl.pc = "read body" /\ Head(w.down).half = "body"
               /\ \A new : new.pc = "idle" /\ new.link = cl.link
                    => Conversation(new, [w EXCEPT !.down = Tail(@)], sv, carried)
<1>. DEFINE v == [w EXCEPT !.down = Tail(@)]
            r == NextReply(w)
            L == Half("length", r)
            B == Half("body", r)
<1>1. v.up = w.up /\ v.down = Tail(w.down) /\ v.serverEnd = w.serverEnd
  BY DEF Wire
<1>2. L.half = "length" /\ B.half = "body" /\ L.frame = r /\ B.frame = r
  BY HalfParts
<1>. HIDE DEF v
<1>3. CASE Answered(cl, w, carried) /\ w.up = <<>> /\ (sv.link = cl.link => sv.pc = "read length")
  <2>1. CASE cl.pc = "read length"
    <3>1. w.down = <<L, B>> /\ Good(r, cl, carried)
      BY <1>3, <2>1 DEF Answered
    <3>. HIDE DEF L, B, r
    <3>2. v.down = <<B>> /\ Head(w.down) = L /\ v.down # <<>> /\ Head(v.down) = B
      <4>1. Tail(<<L, B>>) = <<B>> /\ Head(<<L, B>>) = L /\ <<B>> # <<>> /\ Head(<<B>>) = B
        BY ShortTuples
      <4>. QED
        BY <1>1, <3>1, <4>1
    <3>3. NextReply(v) = r
      BY <1>2, <3>2 DEF NextReply
    <3>4. ASSUME NEW new, new.pc = "read body", new.link = cl.link, new.req = cl.req
          PROVE  Conversation(new, v, sv, carried)
      <4>1. Good(NextReply(v), new, carried)
        BY <3>1, <3>3, <3>4 DEF Good
      <4>2. Answered(new, v, carried)
        BY <3>2, <3>3, <3>4, <4>1 DEF Answered, B
      <4>. QED
        BY <1>1, <1>3, <3>4, <4>2 DEF Conversation
    <3>. QED
      BY <1>2, <2>1, <3>1, <3>2, <3>4 DEF v, r
  <2>2. CASE cl.pc = "read body"
    <3>1. w.down = <<B>> /\ Good(r, cl, carried)
      BY <1>3, <2>2 DEF Answered
    <3>. HIDE DEF L, B, r
    <3>2. v.down = <<>> /\ Head(w.down) = B
      BY <1>1, <3>1, ShortTuples
    <3>3. ASSUME NEW new, new.pc = "idle", new.link = cl.link
          PROVE  Conversation(new, v, sv, carried)
      BY <1>1, <1>3, <3>2, <3>3 DEF Conversation, Unheard, Written
    <3>. QED
      BY <1>2, <2>2, <3>1, <3>2, <3>3 DEF v, r
  <2>. QED
    BY <2>1, <2>2
<1>4. CASE sv.link = cl.link /\ sv.pc = "body" /\ Good(sv.reply, cl, carried) /\ HalfAnswered(cl, w, sv.reply)
  <2>1. cl.pc = "read length" /\ w.down = <<Half("length", sv.reply)>> /\ w.up = <<>>
    BY <1>4 DEF HalfAnswered
  <2>2. Head(w.down) = Half("length", sv.reply) /\ v.down = <<>>
    BY <1>1, <2>1, ShortTuples
  <2>3. Head(w.down).half = "length"
    BY <2>2, HalfParts
  <2>5. r = sv.reply
    <3>1. Half("length", sv.reply).frame = sv.reply
      BY Zenon, HalfParts
    <3>2. Head(w.down).frame = sv.reply
      BY Zenon, <2>2, <3>1
    <3>. HIDE DEF L, B
    <3>. QED
      BY <3>2 DEF NextReply
  <2>4. ASSUME NEW new, new.pc = "read body", new.link = cl.link, new.req = cl.req
        PROVE  Conversation(new, v, sv, carried)
    BY <1>1, <1>4, <2>1, <2>2, <2>4 DEF Conversation, HalfAnswered, Good
  <2>. QED
    BY <1>4, <2>1, <2>3, <2>4, <2>5 DEF v
<1>5. CASE ~w.serverEnd /\ Orderly(cl, w, carried)
  <2>1. CASE Answered(cl, w, carried) /\ cl.pc = "read length"
    <3>1. w.down = <<L, B>> /\ Good(r, cl, carried)
      BY <2>1 DEF Answered
    <3>. HIDE DEF L, B, r
    <3>2. v.down = <<B>> /\ Head(w.down) = L /\ v.down # <<>> /\ Head(v.down) = B
      <4>1. Tail(<<L, B>>) = <<B>> /\ Head(<<L, B>>) = L /\ <<B>> # <<>> /\ Head(<<B>>) = B
        BY ShortTuples
      <4>. QED
        BY <1>1, <3>1, <4>1
    <3>3. NextReply(v) = r
      BY <1>2, <3>2 DEF NextReply
    <3>4. ASSUME NEW new, new.pc = "read body", new.link = cl.link, new.req = cl.req
          PROVE  Conversation(new, v, sv, carried)
      <4>1. Good(NextReply(v), new, carried)
        BY <3>1, <3>3, <3>4 DEF Good
      <4>2. Answered(new, v, carried)
        BY <3>2, <3>3, <3>4, <4>1 DEF Answered, B
      <4>. QED
        BY <1>1, <1>5, <4>2 DEF Conversation, Orderly
    <3>. QED
      BY <1>2, <2>1, <3>1, <3>2, <3>4 DEF v, r
  <2>2. CASE Answered(cl, w, carried) /\ cl.pc = "read body"
    <3>1. w.down = <<B>> /\ Good(r, cl, carried)
      BY <2>2 DEF Answered
    <3>. HIDE DEF L, B, r
    <3>2. v.down = <<>> /\ Head(w.down) = B
      BY <1>1, <3>1, ShortTuples
    <3>. QED
      BY <1>1, <1>2, <1>5, <2>2, <3>1, <3>2 DEF Conversation, Orderly, v, r
  <2>3. CASE Good(r, cl, carried) /\ cl.pc = "read length" /\ w.down = <<L>>
    <3>. HIDE DEF L, r
    <3>1. v.down = <<>> /\ Head(w.down) = L
      BY <1>1, <2>3, ShortTuples
    <3>. QED
      BY <1>1, <1>2, <1>5, <2>3, <3>1 DEF Conversation, Orderly, v, r
  <2>. QED
    BY <1>5, <2>1, <2>2, <2>3 DEF Orderly
<1>. QED
  BY <1>3, <1>4, <1>5 DEF Conversation, Unheard, HalfHeard, Heard

\* A caller is told of the request it has been waiting for, and waits no more.
LEMMA ToldClient ==
  ASSUME Base, Told, NEW c \in Clients, NEW cl \in ClientState, Becomes(c, cl),
         \/ /\ UNCHANGED ended
            /\ \/ cl.asked = client[c].asked /\ (Waits(cl) => Waits(client[c]))
               \/ cl.asked = client[c].asked + 1
         \/ /\ Asks(client[c]) /\ ~Asks(cl) /\ cl.asked = client[c].asked
            /\ \E outcome : ended' = ended \cup {<<Call(client[c].req), outcome>>}
  PROVE  Told'
<1>1. /\ client[c] \in ClientState /\ client[c].asked \in Nat /\ cl.asked \in Nat
      /\ client'[c] = cl /\ \A d \in Clients : d # c => client'[d] = client[d]
  <2>1. Typed /\ client[c] \in ClientState
    BY DEF Base, Typed
  <2>2. client[c].asked \in Nat /\ cl.asked \in Nat
    BY <2>1, IpcAssumption DEF ClientState
  <2>. QED
    BY <2>1, <2>2, ClientSet
<1>2. ASSUME NEW end \in ended' \ ended
      PROVE  /\ end[1][1] = c /\ end[1][2] \in 0..MaxAsks /\ end[1][2] <= client[c].asked
             /\ ~Asks(cl) /\ cl.asked = client[c].asked
  <2>1. Asks(client[c]) /\ ~Asks(cl) /\ cl.asked = client[c].asked /\ end[1] = Call(client[c].req)
    BY <1>2
  <2>2. /\ client[c].req \in Requested /\ client[c].req.by = c
        /\ client[c].req.n = client[c].asked \/ client[c].req.n = Uncounted
    BY <2>1 DEF Base, OwnRequest
  <2>3. end[1] = <<c, client[c].req.n>> /\ client[c].req.n \in 0..MaxAsks
    BY <2>1, <2>2, CallForm
  <2>4. client[c].req.n <= client[c].asked
    BY <1>1, <2>2 DEF Uncounted
  <2>. QED
    BY <2>1, <2>3, <2>4
<1>3. ASSUME NEW end \in ended'
      PROVE  /\ end[1][1] \in Clients /\ end[1][2] \in 0..MaxAsks
             /\ end[1][2] <= client'[end[1][1]].asked
             /\ Waits(client'[end[1][1]]) => end[1][2] # client'[end[1][1]].asked
  <2>1. CASE end \in ended
    <3>1. /\ end[1][1] \in Clients /\ end[1][2] \in 0..MaxAsks /\ end[1][2] <= client[end[1][1]].asked
          /\ Waits(client[end[1][1]]) => end[1][2] # client[end[1][1]].asked
      BY <2>1 DEF Told
    <3>2. CASE end[1][1] = c
      <4>1. Asks(client[c]) /\ ~Asks(cl) /\ cl.asked = client[c].asked => ~Waits(cl)
        BY DEF Waits
      <4>. QED
        BY <1>1, <3>1, <3>2, <4>1, IpcAssumption
    <3>. QED
      BY <1>1, <3>1, <3>2
  <2>2. CASE end \notin ended
    BY <1>1, <1>2, <2>2 DEF Waits
  <2>. QED
    BY <2>1, <2>2
<1>. QED
  BY <1>3 DEF Told, Waits, Asks

LEMMA OutsideAsked ==
  ASSUME Typed, NEW c \in Clients
  PROVE  /\ Outside(c).asked = client[c].asked
         /\ \A tokens : [Outside(c) EXCEPT !.tokens = tokens].asked = client[c].asked
BY DEF Outside, Newcomer

\* Whoever leaves has nothing to expect.
LEMMA TalkLeaves ==
  ASSUME Base, Talking, Told, NEW c \in Clients, ~At(c, "out"), UNCHANGED <<server, run>>,
         NEW cl \in ClientState, Becomes(c, cl), cl.pc = "out", cl.asked = client[c].asked,
         NEW w \in Wire, links' = [links EXCEPT ![Link(c)] = [w EXCEPT !.clientEnd = FALSE]],
         \/ UNCHANGED ended
         \/ Asks(client[c]) /\ \E outcome : ended' = ended \cup {<<Call(client[c].req), outcome>>}
  PROVE  Talking' /\ Told'
<1>. DEFINE v == [w EXCEPT !.clientEnd = FALSE]
<1>1. v \in Wire
  BY WireChanges
<1>. HIDE DEF v
<1>2. Talking'
  BY <1>1, HasLink, ClientTalks DEF v
<1>3. ~Asks(cl) /\ ~Waits(cl)
  BY DEF Asks, Waits
<1>. QED
  BY <1>2, <1>3, ToldClient

LEMMA TalkAsks ==
  ASSUME Base, Talking, Told, NEW c \in Clients, Ask(c)
  PROVE  Talking' /\ Told'
<1>1. /\ ~At(c, "out") /\ client[c].pc = "idle" /\ UNCHANGED <<server, links, run, ended>>
  BY DEF Ask, At
<1>2. /\ Typed /\ Link(c) # NoLink /\ Link(c) \in 1..Len(links) /\ client[c] \in ClientState
      /\ links[Link(c)] \in Wire /\ links' = [links EXCEPT ![Link(c)] = links[Link(c)]]
  BY <1>1, HasLink, WireOf
<1>3. PICK req \in Requested, asked \in 0..MaxAsks : AsksFor(c, req, asked)
  BY <1>2, AskForm
<1>. DEFINE cl == [client[c] EXCEPT !.pc = "length", !.req = req, !.asked = asked]
<1>4. /\ cl \in ClientState /\ cl.link = Link(c) /\ cl.pc = "length" /\ cl.req = req
      /\ cl.asked = asked
  BY <1>2, <1>3 DEF ClientState, ClientPc, Link
<1>5. /\ Becomes(c, cl)
      /\ asked = client[c].asked + 1 \/ (req.n = Uncounted /\ asked = client[c].asked)
  BY <1>3 DEF AsksFor
<1>. HIDE DEF cl
<1>6. Conversation(cl, links[Link(c)], server, run)
  BY <1>1, <1>4, TalkAsk DEF Talking, Link
<1>7. Talking'
  BY <1>1, <1>2, <1>4, <1>5, <1>6, ClientTalks
<1>8. Told'
  BY <1>1, <1>4, <1>5, ToldClient DEF Waits
<1>. QED
  BY <1>7, <1>8

LEMMA TalkWrites ==
  ASSUME Base, Talking, Told, NEW c \in Clients, ClientWrites(c)
  PROVE  Talking' /\ Told'
<1>1. /\ ~At(c, "out") /\ client[c].pc \in {"length", "body"} /\ UNCHANGED <<server, run>>
  BY DEF ClientWrites, Writing, At
<1>. DEFINE old == links[Link(c)]
<1>2. /\ Typed /\ Link(c) # NoLink /\ Link(c) \in 1..Len(links) /\ client[c] \in ClientState
      /\ old \in Wire /\ client[c].req \in Requested /\ Asks(client[c])
  BY <1>1, HasLink DEF Base, OwnRequest, Asks
<1>3. Conversation(client[c], old, server, run)
  BY <1>1 DEF Talking
<1>. HIDE DEF old
<1>4. ASSUME NEW pc \in {"body", "read length"}, Goes(c, pc), UNCHANGED ended,
             NEW w \in Wire, links' = [links EXCEPT ![Link(c)] = w],
             \A new : new.link = client[c].link /\ new.req = client[c].req /\ new.pc = pc
               => Conversation(new, w, server, run)
      PROVE  Talking' /\ Told'
  <2>. DEFINE cl == [client[c] EXCEPT !.pc = pc]
  <2>1. /\ cl \in ClientState /\ cl.link = Link(c) /\ cl.pc = pc
        /\ cl.req = client[c].req /\ cl.asked = client[c].asked
    BY <1>2 DEF ClientState, ClientPc, Link
  <2>2. Becomes(c, cl)
    BY <1>4 DEF Goes
  <2>. HIDE DEF cl
  <2>3. Conversation(cl, w, server, run)
    BY <1>4, <2>1 DEF Link
  <2>4. Talking'
    BY <1>1, <1>2, <1>4, <2>1, <2>2, <2>3, ClientTalks
  <2>. QED
    BY <1>2, <1>4, <2>1, <2>2, <2>4, ToldClient DEF Waits
<1>5. CASE old.serverEnd
  <2>. DEFINE w == [old EXCEPT !.up = Append(@, Half(client[c].pc, client[c].req))]
              pc == IF client[c].pc = "length" THEN "body" ELSE "read length"
  <2>1. w \in Wire
    BY <1>1, <1>2, WireChanges
  <2>2. links' = [links EXCEPT ![Link(c)] = w] /\ Goes(c, pc) /\ UNCHANGED ended
    BY <1>5 DEF ClientWrites, old, At
  <2>3. ASSUME NEW new, new.link = client[c].link, new.req = client[c].req, new.pc = pc
        PROVE  Conversation(new, w, server, run)
    BY <1>1, <1>2, <1>3, <1>5, <2>3, TalkWrite
  <2>4. pc \in {"body", "read length"}
    OBVIOUS
  <2>. HIDE DEF w, pc
  <2>. QED
    BY <1>4, <2>1, <2>2, <2>3, <2>4
<1>6. CASE ~old.serverEnd /\ posix
  <2>1. links' = [links EXCEPT ![Link(c)] = [old EXCEPT !.clientEnd = FALSE]]
    BY <1>6 DEF ClientWrites, Leaves, old
  <2>2. /\ Becomes(c, Outside(c)) /\ \E outcome : ended' = ended \cup {<<Call(client[c].req), outcome>>}
    BY <1>6 DEF ClientWrites, old
  <2>. QED
    BY <1>1, <1>2, <2>1, <2>2, OutsideForm, OutsideAsked, TalkLeaves
<1>7. CASE ~old.serverEnd /\ ~posix
  <2>1. Goes(c, "read length") /\ links' = [links EXCEPT ![Link(c)] = old] /\ UNCHANGED ended
    BY <1>2, <1>7, WireOf DEF ClientWrites, old
  <2>2. server.link # client[c].link
    BY <1>2, <1>7 DEF Base, Ends, Link, old
  <2>3. ASSUME NEW new, new.pc = "read length" PROVE Conversation(new, old, server, run)
    BY <1>1, <1>2, <1>3, <1>7, <2>2, <2>3, TalkToNobody
  <2>. QED
    BY <1>2, <1>4, <2>1, <2>3
<1>. QED
  BY <1>5, <1>6, <1>7

LEMMA TalkFails ==
  ASSUME Base, Talking, Told, Keeps = {}, NEW c \in Clients, ~At(c, "out"), Asks(client[c]),
         UNCHANGED <<server, run>>, NEW w \in Wire, NEW rest, rest = [links EXCEPT ![Link(c)] = w],
         Failed(c, rest)
  PROVE  Talking' /\ Told'
<1>1. /\ Typed /\ Link(c) # NoLink /\ Link(c) \in 1..Len(links) /\ client[c] \in ClientState
  BY HasLink
<1>. DEFINE cl == [Outside(c) EXCEPT !.tokens = client[c].tokens]
<1>2. cl \in ClientState /\ cl.pc = "out" /\ cl.asked = client[c].asked
  BY <1>1, OutsideForm, OutsideAsked DEF ClientState
<1>3. Becomes(c, cl) /\ ended' = ended \cup {<<Call(client[c].req), "failed">>}
  BY DEF Failed
<1>4. links' = [links EXCEPT ![Link(c)] = [w EXCEPT !.clientEnd = FALSE]]
  <2>1. rest[Link(c)] = w /\ links' = [rest EXCEPT ![Link(c)].clientEnd = FALSE]
    BY <1>1, LenProperties DEF Failed, Typed
  <2>. QED
    BY <1>1, <2>1
<1>. HIDE DEF cl
<1>. QED
  BY <1>2, <1>3, <1>4, TalkLeaves

LEMMA TalkSucceeds ==
  ASSUME Base, Talking, Told, NEW c \in Clients, ~At(c, "out"), Asks(client[c]),
         UNCHANGED <<server, run>>, NEW w \in Wire, NEW reply, Succeeded(c, [links EXCEPT ![Link(c)] = w], reply),
         reply.val \in Values,
         \A new : new.pc = "idle" /\ new.link = client[c].link => Conversation(new, w, server, run)
  PROVE  Talking' /\ Told'
<1>1. /\ Typed /\ Link(c) # NoLink /\ Link(c) \in 1..Len(links) /\ client[c] \in ClientState
  BY HasLink
<1>2. client[c].proxies \in SUBSET Values /\ client[c].tokens \in SUBSET Values
  BY <1>1 DEF ClientState
<1>3. PICK proxies \in SUBSET Values, tokens \in SUBSET Values :
        Becomes(c, [client[c] EXCEPT !.pc = "idle", !.req = NoRequest, !.proxies = proxies, !.tokens = tokens])
  <2>. DEFINE req == client[c].req
              proxies == CASE req.kind \in {"create", "find"} -> client[c].proxies \cup {reply.val}
                           [] req.kind = "release" -> client[c].proxies \ {req.id}
                           [] OTHER -> client[c].proxies
              tokens == IF req.kind = "capability" THEN client[c].tokens \cup {reply.val} ELSE client[c].tokens
  <2>1. proxies \in SUBSET Values
    BY <1>2
  <2>2. tokens \in SUBSET Values
    BY <1>2
  <2>3. Becomes(c, [client[c] EXCEPT !.pc = "idle", !.req = NoRequest, !.proxies = proxies, !.tokens = tokens])
    BY DEF Succeeded
  <2>. QED
    BY <2>1, <2>2, <2>3
<1>. DEFINE cl == [client[c] EXCEPT !.pc = "idle", !.req = NoRequest, !.proxies = proxies, !.tokens = tokens]
<1>4. cl \in ClientState /\ cl.link = Link(c) /\ cl.pc = "idle" /\ cl.asked = client[c].asked
  BY <1>1 DEF ClientState, ClientPc, Link
<1>5. links' = [links EXCEPT ![Link(c)] = w] /\ ended' = ended \cup {<<Call(client[c].req), "succeeded">>}
  BY DEF Succeeded
<1>6. Becomes(c, cl)
  BY <1>3
<1>. HIDE DEF cl
<1>7. Talking'
  BY <1>1, <1>4, <1>5, <1>6, ClientTalks DEF Link
<1>8. ~Asks(cl)
  BY <1>4 DEF Asks
<1>. QED
  BY <1>4, <1>5, <1>6, <1>7, <1>8, ToldClient DEF Waits

LEMMA TalkReads ==
  ASSUME Base, Talking, Told, Keeps = {}, NEW c \in Clients, ClientReads(c) \/ ClientGivesUp(c)
  PROVE  Talking' /\ Told'
<1>1. /\ ~At(c, "out") /\ client[c].pc \in {"read length", "read body"} /\ UNCHANGED <<server, run>>
  BY DEF ClientReads, ClientGivesUp, Reading, At
<1>. DEFINE old == links[Link(c)]
<1>2. /\ Typed /\ Link(c) # NoLink /\ Link(c) \in 1..Len(links) /\ client[c] \in ClientState
      /\ old \in Wire /\ Asks(client[c])
  BY <1>1, HasLink DEF Asks
<1>3. Conversation(client[c], old, server, run)
  BY <1>1 DEF Talking
<1>4. CASE ClientGivesUp(c)
  <2>1. links = [links EXCEPT ![Link(c)] = old] /\ Failed(c, links)
    BY <1>2, <1>4, WireOf DEF ClientGivesUp
  <2>. QED
    BY <1>1, <1>2, <2>1, TalkFails
<1>5. CASE ClientReads(c)
  <2>. DEFINE w == [old EXCEPT !.down = Tail(@)]
              rest == [links EXCEPT ![Link(c)] = w]
              reply == Head(old.down).frame
  <2>1. old.down # <<>>
    BY <1>5 DEF ClientReads
  <2>2. w \in Wire /\ reply \in Replied
    BY <1>2, <2>1, WireChanges
  <2>3. CASE client[c].pc = "read length"
    <3>. DEFINE cl == [client[c] EXCEPT !.pc = "read body"]
    <3>1. /\ cl \in ClientState /\ cl.link = Link(c) /\ cl.pc = "read body"
          /\ cl.req = client[c].req /\ cl.asked = client[c].asked
      BY <1>2 DEF ClientState, ClientPc, Link
    <3>2. Becomes(c, cl) /\ links' = [links EXCEPT ![Link(c)] = w] /\ UNCHANGED ended
      BY <1>5, <2>3 DEF ClientReads, Goes, At
    <3>. HIDE DEF cl, old
    <3>3. Conversation(cl, w, server, run)
      BY <1>1, <1>2, <1>3, <2>1, <2>3, <3>1, TalkRead DEF Link
    <3>. HIDE DEF w
    <3>4. Talking'
      BY <1>1, <1>2, <2>2, <3>1, <3>2, <3>3, ClientTalks
    <3>. QED
      BY <1>2, <3>1, <3>2, <3>4, ToldClient DEF Waits
  <2>4. CASE client[c].pc = "read body" /\ reply.ok
    <3>1. Succeeded(c, rest, reply)
      BY <1>5, <2>4 DEF ClientReads, At
    <3>2. reply.val \in Values
      BY <2>2 DEF Replied
    <3>. HIDE DEF old
    <3>3. \A new : new.pc = "idle" /\ new.link = client[c].link => Conversation(new, w, server, run)
      BY <1>1, <1>2, <1>3, <2>1, <2>4, TalkRead
    <3>. HIDE DEF w, reply
    <3>. QED
      BY <1>1, <1>2, <2>2, <3>1, <3>2, <3>3, TalkSucceeds
  <2>5. CASE client[c].pc = "read body" /\ ~reply.ok
    <3>1. Failed(c, rest)
      BY <1>5, <2>5 DEF ClientReads, At
    <3>. HIDE DEF w, reply
    <3>. QED
      BY <1>1, <1>2, <2>2, <3>1, TalkFails
  <2>. QED
    BY <1>1, <2>3, <2>4, <2>5
<1>. QED
  BY <1>4, <1>5

LEMMA TalkLeave ==
  ASSUME Base, Talking, Told, NEW c \in Clients, Leave(c)
  PROVE  Talking' /\ Told'
<1>1. /\ ~At(c, "out") /\ Becomes(c, Outside(c)) /\ UNCHANGED <<server, run>>
      /\ links' = [links EXCEPT ![Link(c)] = [links[Link(c)] EXCEPT !.clientEnd = FALSE]]
  BY DEF Leave, Leaves
<1>2. /\ Typed /\ Link(c) # NoLink /\ client[c] \in ClientState /\ client[c].pc # "out" /\ links[Link(c)] \in Wire
  BY <1>1, HasLink
<1>3. \/ UNCHANGED ended
      \/ Asks(client[c]) /\ \E outcome : ended' = ended \cup {<<Call(client[c].req), outcome>>}
  BY <1>2 DEF Leave, At, Asks, ClientState, ClientPc
<1>. QED
  BY <1>1, <1>2, <1>3, OutsideForm, OutsideAsked, TalkLeaves

LEMMA TalkConnects ==
  ASSUME Base, Talking, Told, NEW c \in Clients, Connect(c)
  PROVE  Talking' /\ Told'
<1>. DEFINE new == [up |-> <<>>, down |-> <<>>, clientEnd |-> TRUE, serverEnd |-> TRUE]
            l == Len(links) + 1
            cl == [client[c] EXCEPT !.pc = "idle", !.link = l]
<1>1. /\ Typed /\ Len(links) \in Nat /\ client[c] \in ClientState /\ links \in Seq(Wire)
      /\ UNCHANGED <<server, run, ended>> /\ client[c].pc = "out"
  BY LenProperties DEF Base, Typed, Connect, At
<1>2. new \in Wire /\ new.up = <<>> /\ new.down = <<>>
  BY EmptySeq DEF Wire
<1>3. links' = Append(links, new)
  BY DEF Connect
<1>. HIDE DEF new
<1>4. /\ Len(links') = l /\ links'[l] = new /\ \A k \in 1..Len(links) : links'[k] = links[k]
  BY <1>1, <1>2, <1>3, AppendProperties
<1>5. Becomes(c, cl)
  BY <1>4 DEF Connect
<1>6. l \in Nat
  BY <1>1
<1>. HIDE DEF l
<1>7. /\ cl \in ClientState /\ cl.link = l /\ cl.pc = "idle" /\ cl.asked = client[c].asked
  BY <1>1, <1>6 DEF ClientState, ClientPc
<1>. HIDE DEF cl
<1>8. /\ client' \in [Clients -> ClientState] /\ client'[c] = cl
      /\ \A d \in Clients : d # c => client'[d] = client[d]
  BY <1>1, <1>5, <1>7, ClientSet
<1>9. server.link # l
  BY <1>1 DEF Base, Ends, l
<1>10. ASSUME NEW d \in Clients, client'[d].pc # "out"
       PROVE  Conversation(client'[d], links'[client'[d].link], server, run)
  <2>1. CASE d = c
    <3>1. Unheard(cl, new)
      BY <1>2, <1>7 DEF Unheard, Written
    <3>. QED
      BY <1>4, <1>7, <1>8, <1>9, <2>1, <3>1 DEF Conversation
  <2>2. CASE d # c
    <3>1. Link(d) \in 1..Len(links)
      BY <1>8, <1>10, <2>2, HasLink DEF At
    <3>. QED
      BY <1>4, <1>8, <1>10, <2>2, <3>1 DEF Talking, Link, At
  <2>. QED
    BY <2>1, <2>2
<1>11. Talking'
  BY <1>1, <1>10 DEF Talking, Link, At
<1>12. ~Asks(cl) /\ ~Waits(cl)
  BY <1>7 DEF Asks, Waits
<1>. QED
  BY <1>1, <1>5, <1>7, <1>11, <1>12, ToldClient
-----------------------------------------------------------------------------
\* What is on a wire when the server goes away is still there to be read.
LEMMA TalkEnds ==
  ASSUME NEW cl, NEW w, NEW sv, NEW other, NEW carried, Conversation(cl, w, sv, carried),
         NEW v, v.down = w.down, ~v.serverEnd
  PROVE  Conversation(cl, v, other, carried)
<1>1. Orderly(cl, w, carried)
  <2>1. CASE Unheard(cl, w) \/ HalfHeard(cl, w) \/ Heard(cl, w)
    BY <2>1 DEF Unheard, HalfHeard, Heard, Orderly
  <2>2. CASE Answered(cl, w, carried)
    BY <2>2 DEF Orderly
  <2>3. CASE HalfAnswered(cl, w, sv.reply) /\ Good(sv.reply, cl, carried)
    <3>. DEFINE L == Half("length", sv.reply)
    <3>1. CASE w.down = <<>>
      BY <3>1 DEF Orderly
    <3>2. CASE cl.pc = "read length" /\ w.down = <<L>>
      <4>1. w.down # <<>> /\ Head(w.down) = L
        BY <3>2, ShortTuples
      <4>2. L.frame = sv.reply
        BY HalfParts, Zenon
      <4>. HIDE DEF L
      <4>3. NextReply(w) = sv.reply
        BY <4>1, <4>2 DEF NextReply
      <4>4. w.down = <<Half("length", NextReply(w))>> /\ Good(NextReply(w), cl, carried)
        BY <2>3, <3>2, <4>3 DEF L
      <4>. QED
        BY <3>2, <4>1, <4>4 DEF Orderly
    <3>. QED
      BY <2>3, <3>1, <3>2 DEF HalfAnswered
  <2>. QED
    BY <2>1, <2>2, <2>3 DEF Conversation
<1>2. NextReply(v) = NextReply(w)
  BY DEF NextReply
<1>3. Orderly(cl, v, carried)
  BY <1>1, <1>2 DEF Orderly, Answered
<1>. QED
  BY <1>3 DEF Conversation

\* The server reads the two halves of what was asked, and then has it.
LEMMA TalkHeard ==
  ASSUME NEW cl, NEW w \in Wire, NEW sv, NEW carried, Conversation(cl, w, sv, carried),
         sv.link = cl.link, sv.pc \in {"read length", "read body"}, w.serverEnd, w.up # <<>>,
         NEW other, other.link = sv.link,
         \/ sv.pc = "read length" /\ other.pc = "read body"
         \/ sv.pc = "read body" /\ other.pc = "handle" /\ other.msg = Head(w.up).frame
  PROVE  Conversation(cl, [w EXCEPT !.up = Tail(@)], other, carried)
<1>. DEFINE v == [w EXCEPT !.up = Tail(@)]
            L == Half("length", cl.req)
            B == Half("body", cl.req)
<1>1. v.up = Tail(w.up) /\ v.down = w.down
  BY DEF Wire
<1>. HIDE DEF v
<1>2. CASE sv.pc = "read length"
  <2>1. Unheard(cl, w) /\ cl.pc \in {"body", "read length"}
    BY <1>2 DEF Conversation, Unheard, Written
  <2>2. w.down = <<>> /\ \/ cl.pc = "body" /\ w.up = <<L>>
                         \/ cl.pc = "read length" /\ w.up = <<L, B>>
    BY <2>1 DEF Unheard, Written
  <2>. HIDE DEF L, B
  <2>3. Tail(<<L>>) = <<>> /\ Tail(<<L, B>>) = <<B>>
    BY ShortTuples
  <2>4. HalfHeard(cl, v)
    BY <1>1, <2>2, <2>3 DEF HalfHeard, B
  <2>. QED
    BY <1>2, <2>4 DEF Conversation, v
<1>3. CASE sv.pc = "read body"
  <2>1. HalfHeard(cl, w)
    BY <1>3 DEF Conversation
  <2>2. w.down = <<>> /\ cl.pc = "read length" /\ w.up = <<B>>
    BY <2>1 DEF HalfHeard
  <2>. HIDE DEF B
  <2>3. Tail(<<B>>) = <<>> /\ Head(<<B>>) = B
    BY ShortTuples
  <2>4. Heard(cl, v)
    BY <1>1, <2>2, <2>3 DEF Heard
  <2>5. B.frame = cl.req
    BY HalfParts, Zenon DEF B
  <2>6. other.msg = cl.req
    BY <1>3, <2>2, <2>3, <2>5
  <2>. QED
    BY <1>3, <2>4, <2>6 DEF Conversation, v
<1>. QED
  BY <1>2, <1>3

\* It writes the two halves of its reply, and then reads again.
LEMMA TalkReplied ==
  ASSUME NEW cl, NEW w \in Wire, NEW sv, NEW carried, Conversation(cl, w, sv, carried),
         sv.link = cl.link, sv.pc \in {"length", "body"}, w.serverEnd,
         NEW other, other.link = sv.link, other.reply = sv.reply,
         \/ sv.pc = "length" /\ other.pc = "body"
         \/ sv.pc = "body" /\ other.pc = "read length"
  PROVE  Conversation(cl, [w EXCEPT !.down = Append(@, Half(sv.pc, sv.reply))], other, carried)
<1>. DEFINE L == Half("length", sv.reply)
            B == Half("body", sv.reply)
            v == [w EXCEPT !.down = Append(@, Half(sv.pc, sv.reply))]
<1>1. v.up = w.up /\ v.down = Append(w.down, Half(sv.pc, sv.reply))
  BY DEF Wire
<1>. HIDE DEF v
<1>2. CASE sv.pc = "length"
  <2>1. Good(sv.reply, cl, carried) /\ Heard(cl, w)
    BY <1>2 DEF Conversation
  <2>2. cl.pc = "read length" /\ w.up = <<>> /\ w.down = <<>> /\ v.down = Append(w.down, L)
    BY <1>1, <1>2, <2>1 DEF Heard
  <2>3. v.down = <<L>>
    BY <2>2, ShortTuples
  <2>4. HalfAnswered(cl, v, other.reply)
    BY <1>1, <2>2, <2>3 DEF HalfAnswered
  <2>. QED
    BY <1>2, <2>1, <2>4 DEF Conversation, v
<1>3. CASE sv.pc = "body"
  <2>1. Good(sv.reply, cl, carried) /\ HalfAnswered(cl, w, sv.reply)
    BY <1>3 DEF Conversation
  <2>2. /\ w.up = <<>> /\ v.down = Append(w.down, B)
        /\ \/ cl.pc = "read length" /\ w.down = <<L>>
           \/ cl.pc = "read body" /\ w.down = <<>>
    BY <1>1, <1>3, <2>1 DEF HalfAnswered
  <2>3. L.frame = sv.reply /\ B.frame = sv.reply
    BY HalfParts, Zenon
  <2>. HIDE DEF L, B
  <2>4. /\ Append(<<>>, B) = <<B>> /\ Append(<<L>>, B) = <<L, B>> /\ Head(<<B>>) = B /\ Head(<<L, B>>) = L
        /\ <<B>> # <<>> /\ <<L, B>> # <<>>
    BY ShortTuples
  <2>5. v.down # <<>> /\ NextReply(v) = sv.reply
    BY <2>2, <2>3, <2>4 DEF NextReply
  <2>6. \/ cl.pc = "read length" /\ v.down = <<L, B>>
        \/ cl.pc = "read body" /\ v.down = <<B>>
    BY <2>2, <2>4
  <2>7. Answered(cl, v, carried)
    BY <2>1, <2>5, <2>6 DEF Answered, L, B
  <2>. QED
    BY <1>1, <1>3, <2>2, <2>7 DEF Conversation, v
<1>. QED
  BY <1>2, <1>3

LEMMA TalkAccept ==
  ASSUME Base, Talking, Start \/ Accept
  PROVE  Talking'
<1>1. UNCHANGED <<links, client, run>> /\ server \in ServerState /\ server.link = NoLink
  BY DEF Base, Typed, Ends, Start, Accept
<1>2. \/ server'.link = NoLink
      \/ server'.pc = "read length" /\ server'.link = Head(queue) /\ Accept
  BY <1>1 DEF Start, Accept, ServerState
<1>3. ASSUME NEW c \in Clients, ~At(c, "out")
      PROVE  Conversation(client[c], links[Link(c)], server', run)
  <2>1. Link(c) # server.link /\ Conversation(client[c], links[Link(c)], server, run)
    BY <1>1, <1>3, HasLink DEF Talking
  <2>2. CASE server'.link # Link(c)
    BY <2>1, <2>2, StillTalking DEF Link
  <2>3. CASE server'.pc = "read length"
    BY <2>1, <2>3 DEF Conversation, Link
  <2>. QED
    BY <1>1, <1>2, <1>3, <2>2, <2>3, HasLink
<1>. QED
  BY <1>1, <1>3 DEF Talking, Link, At

LEMMA TalkServerReads ==
  ASSUME Base, Talking, ServerReads \/ ServerGivesUp
  PROVE  Talking'
<1>. DEFINE old == links[server.link]
<1>1. /\ Typed /\ server \in ServerState /\ server.link # NoLink
      /\ server.link \in 1..Len(links) /\ old \in Wire /\ old.serverEnd /\ UNCHANGED <<client, run>>
  BY InSession DEF ServerReads, ServerGivesUp
<1>2. ASSUME NEW c \in Clients, Link(c) = server.link
      PROVE  server.link = client[c].link /\ Conversation(client[c], old, server, run)
  <2>1. ~At(c, "out")
    BY <1>1, <1>2 DEF Base, Ends
  <2>. QED
    BY <1>2, <2>1 DEF Talking, Link
<1>. HIDE DEF old
<1>3. CASE ServerGivesUp
  <2>. DEFINE w == [old EXCEPT !.serverEnd = FALSE]
              sv == [server EXCEPT !.pc = "accept", !.link = NoLink]
  <2>1. w \in Wire /\ w.down = old.down /\ ~w.serverEnd
    BY <1>1 DEF Wire
  <2>2. sv.link = NoLink
    BY <1>1 DEF ServerState
  <2>3. server' = sv /\ links' = [links EXCEPT ![server.link] = w]
    BY <1>3 DEF ServerGivesUp, old
  <2>. HIDE DEF sv, w
  <2>4. \A c \in Clients : Link(c) = server.link => Conversation(client[c], w, sv, run')
    BY <1>1, <1>2, <2>1, TalkEnds
  <2>. QED
    BY <1>1, <2>1, <2>2, <2>3, <2>4, ServerTalks
<1>4. CASE ServerReads
  <2>. DEFINE w == [old EXCEPT !.up = Tail(@)]
  <2>1. /\ old.up # <<>> /\ links' = [links EXCEPT ![server.link] = w]
        /\ server.pc \in {"read length", "read body"}
    BY <1>4 DEF ServerReads, old
  <2>2. w \in Wire
    BY <1>1, <2>1, WireChanges
  <2>3. /\ server'.link = server.link
        /\ \/ server.pc = "read length" /\ server'.pc = "read body"
           \/ server.pc = "read body" /\ server'.pc = "handle" /\ server'.msg = Head(old.up).frame
    BY <1>1, <1>4, <2>1 DEF ServerReads, ServerState, old
  <2>4. ASSUME NEW c \in Clients, Link(c) = server.link
        PROVE  Conversation(client[c], w, server', run')
    BY <1>1, <1>2, <2>1, <2>3, <2>4, TalkHeard
  <2>. HIDE DEF w
  <2>. QED
    BY <1>1, <2>1, <2>2, <2>3, <2>4, ServerTalks
<1>. QED
  BY <1>3, <1>4

\* A call that is answered with a yes has been carried out.
LEMMA TalkAnswer ==
  ASSUME Base, Talking, server.pc = "handle", NEW ok \in BOOLEAN, NEW val \in Values, NEW memory,
         Answer(ok, val, memory)
  PROVE  Talking'
<1>. DEFINE old == links[server.link]
            reply == [ok |-> ok, val |-> val, of |-> Call(server.msg)]
            sv == [server EXCEPT !.pc = "length", !.reply = reply]
<1>1. /\ Typed /\ server \in ServerState /\ server.link # NoLink /\ server.msg \in Requested
      /\ server.link \in 1..Len(links) /\ old \in Wire /\ old.serverEnd /\ UNCHANGED client
      /\ links' = [links EXCEPT ![server.link] = old]
  BY InSession, WireOf DEF Base, InHand, Answer
<1>2. /\ server' = sv /\ run \subseteq run' /\ (ok => Call(server.msg) \in run')
  BY DEF Answer
<1>3. reply \in Replied /\ reply.ok = ok /\ reply.of = Call(server.msg)
  BY <1>1, CallForm DEF Replied
<1>. HIDE DEF reply
<1>4. sv.pc = "length" /\ sv.link = server.link /\ sv.msg = server.msg /\ sv.reply = reply
  BY <1>1 DEF ServerState
<1>. HIDE DEF sv, old
<1>5. ASSUME NEW c \in Clients, Link(c) = server.link
      PROVE  Conversation(client[c], old, sv, run')
  <2>1. server.link = client[c].link /\ ~At(c, "out")
    BY <1>1, <1>5 DEF Base, Ends, Link
  <2>2. Conversation(client[c], old, server, run)
    BY <1>5, <2>1 DEF Talking, Link, old
  <2>3. server.msg = client[c].req /\ Heard(client[c], old)
    BY <1>1, <2>1, <2>2 DEF Conversation
  <2>4. Good(sv.reply, client[c], run')
    BY <1>2, <1>3, <1>4, <2>3 DEF Good
  <2>. QED
    BY <1>4, <2>1, <2>3, <2>4 DEF Conversation
<1>. QED
  BY <1>1, <1>2, <1>4, <1>5, ServerTalks

LEMMA TalkHandles ==
  ASSUME Base, Talking, Create \/ Grant \/ Release \/ Invoke
  PROVE  Talking'
<1>1. /\ server.pc = "handle" /\ server \in ServerState /\ kept.objs \subseteq Addresses /\ IsFiniteSet(kept.grants)
  BY DEF Create, Grant, Release, Invoke, Handling, Base, Typed, Sane, Memory
<1>2. Null \in Values /\ Addresses \subseteq Values /\ (Nat \X Nat) \subseteq Values
  BY DEF Values
<1>3. <<server.starts, Cardinality(kept.grants) + 1>> \in Nat \X Nat
  <2>1. server.starts \in Nat /\ Cardinality(kept.grants) \in Nat
    BY <1>1, FS_CardinalityType DEF ServerState
  <2>. QED
    BY <2>1
<1>4. PICK ok \in BOOLEAN, val \in Values, memory \in {kept'} : Answer(ok, val, memory)
  <2>1. kept' \in {kept'}
    OBVIOUS
  <2>2. CASE Create
    BY <1>2, <2>1, <2>2 DEF Create, Answer
  <2>3. CASE Grant
    BY <1>2, <1>3, <2>1, <2>3 DEF Grant, Refuse, Answer
  <2>4. CASE Release
    BY <1>2, <2>1, <2>4 DEF Release, Refuse, Answer
  <2>5. CASE Invoke
    BY <1>1, <1>2, <2>1, <2>5 DEF Invoke, Refuse, Answer
  <2>. QED
    BY <2>2, <2>3, <2>4, <2>5
<1>. QED
  BY <1>1, <1>4, TalkAnswer

LEMMA TalkDies ==
  ASSUME Base, Talking, Dies, UNCHANGED <<client, run>>
  PROVE  Talking'
<1>1. ASSUME NEW k \in 1..Len(links) PROVE links'[k].down = links[k].down /\ ~links'[k].serverEnd
  <2>1. links[k] \in Wire /\ k \in DOMAIN links
    BY WireOf, LenProperties DEF Base, Typed
  <2>2. links'[k] = [links[k] EXCEPT !.serverEnd = FALSE]
    BY <2>1 DEF Dies
  <2>. QED
    BY <2>1, <2>2 DEF Wire
<1>2. ASSUME NEW c \in Clients, ~At(c, "out")
      PROVE  Conversation(client[c], links'[Link(c)], server', run)
  BY <1>1, <1>2, HasLink, TalkEnds DEF Talking
<1>. QED
  BY <1>2 DEF Talking, Link, At

LEMMA TalkServerWrites ==
  ASSUME Base, Talking, ServerWrites \/ Throws
  PROVE  Talking'
<1>. DEFINE old == links[server.link]
<1>1. /\ Typed /\ server \in ServerState /\ server.link # NoLink
      /\ server.link \in 1..Len(links) /\ old \in Wire /\ old.serverEnd /\ UNCHANGED <<client, run>>
  BY InSession DEF ServerWrites, Throws, Handling
<1>2. CASE Dies
  BY <1>1, <1>2, TalkDies
<1>. HIDE DEF old
<1>3. CASE ServerWrites /\ old.clientEnd
  <2>. DEFINE w == [old EXCEPT !.down = Append(@, Half(server.pc, server.reply))]
  <2>1. server.pc \in {"length", "body"} /\ server.reply \in Replied
    BY <1>3 DEF ServerWrites, Base, InHand
  <2>2. w \in Wire
    BY <1>1, <2>1, WireChanges
  <2>3. links' = [links EXCEPT ![server.link] = w]
    BY <1>3 DEF ServerWrites, old
  <2>4. /\ server'.link = server.link /\ server'.reply = server.reply
        /\ \/ server.pc = "length" /\ server'.pc = "body"
           \/ server.pc = "body" /\ server'.pc = "read length"
    BY <1>1, <1>3, <2>1 DEF ServerWrites, ServerState, old
  <2>5. ASSUME NEW c \in Clients, Link(c) = server.link
        PROVE  Conversation(client[c], w, server', run')
    <3>1. server.link = client[c].link /\ ~At(c, "out")
      BY <1>1, <2>5 DEF Base, Ends, Link
    <3>2. Conversation(client[c], old, server, run)
      BY <2>5, <3>1 DEF Talking, Link, old
    <3>. QED
      BY <1>1, <2>1, <2>4, <3>1, <3>2, TalkReplied
  <2>. HIDE DEF w
  <2>. QED
    BY <1>1, <2>2, <2>3, <2>4, <2>5, ServerTalks
<1>4. CASE ServerWrites /\ ~old.clientEnd /\ ~Dies
  <2>1. server' = [server EXCEPT !.pc = "read length"] /\ links' = [links EXCEPT ![server.link] = old]
    BY <1>1, <1>4, WireOf DEF ServerWrites, old
  <2>2. server'.link = server.link
    BY <1>1, <2>1 DEF ServerState
  <2>3. \A c \in Clients : Link(c) # server.link
    BY <1>1, <1>4 DEF Base, Ends, old
  <2>. QED
    BY <1>1, <2>1, <2>2, <2>3, ServerTalks
<1>. QED
  BY <1>2, <1>3, <1>4 DEF Throws
-----------------------------------------------------------------------------
LEMMA TalkNext == Base /\ Talking /\ Told /\ Keeps = {} /\ [Next]_vars => Talking' /\ Told'
<1>. SUFFICES ASSUME Base, Talking, Told, Keeps = {}, [Next]_vars PROVE Talking' /\ Told'
  OBVIOUS
<1>1. ASSUME NEW c \in Clients, Client(c) PROVE Talking' /\ Told'
  BY <1>1, TalkConnects, TalkAsks, TalkWrites, TalkReads, TalkLeave DEF Client
<1>2. CASE Server
  <2>1. Talking'
    BY <1>2, TalkAccept, TalkServerReads, TalkServerWrites, TalkHandles DEF Server
  <2>2. UNCHANGED <<client, ended>>
    BY <1>2 DEF Server, Start, Accept, ServerReads, ServerGivesUp, ServerWrites, Create, Grant, Release,
                Invoke, Throws, Refuse, Answer
  <2>3. Told'
    BY <2>2 DEF Told
  <2>. QED
    BY <2>1, <2>3
<1>3. CASE UNCHANGED vars
  <2>1. UNCHANGED <<client, ended, links, server, run>>
    BY <1>3 DEF vars
  <2>. QED
    BY <2>1 DEF Talking, Told, Link, At
<1>. QED
  BY <1>1, <1>2, <1>3 DEF Next

LEMMA TalkInit == Init => Talking /\ Told
BY DEF Init, Talking, Told, At, Newcomer

(* What stands next on a wire is the half that is read next, of the reply  *)
(* to what was asked last, provided a program leaves when an exchange has  *)
(* failed: then nobody reads on a wire where an answer may still come.     *)
THEOREM RepliesAreOwn == ASSUME Keeps = {} PROVE Spec => []RepliesMatch
<1>1. Base /\ Talking => RepliesMatch
  <2>. SUFFICES ASSUME Base, Talking, NEW c \in Clients, Reading(c), links[Link(c)].down # <<>>
       PROVE  LET next == Head(links[Link(c)].down)
              IN /\ client[c].pc = (IF next.half = "length" THEN "read length" ELSE "read body")
                 /\ next.frame.of = Call(client[c].req)
    BY DEF RepliesMatch
  <2>1. ~At(c, "out") /\ client[c].pc \in {"read length", "read body"}
    BY DEF Reading, At
  <2>2. links[Link(c)] \in Wire /\ Conversation(client[c], links[Link(c)], server, run)
    BY <2>1, HasLink DEF Talking
  <2>3. /\ Good(NextReply(links[Link(c)]), client[c], run)
        /\ \/ client[c].pc = "read length" /\ Head(links[Link(c)].down).half = "length"
           \/ client[c].pc = "read body" /\ Head(links[Link(c)].down).half = "body"
    BY <2>1, <2>2, TalkRead
  <2>. QED
    BY <2>3 DEF Good, NextReply
<1>2. Base /\ Talking /\ Told /\ [Next]_vars => Base' /\ Talking' /\ Told'
  BY BaseNext, TalkNext
<1>. QED
  BY <1>1, <1>2, BaseInit, TalkInit, PTL DEF Spec
-----------------------------------------------------------------------------
\* What RemoteCalls is about: the requests that have a number.
RunCounted == {call \in run : call[2] # Uncounted}
EndedCounted == {end \in ended : end[1][2] # Uncounted}

\* Nobody was told of a request that is still waited for.
LEMMA NotToldYet ==
  ASSUME Base, Told, NEW c \in Clients, Waits(client[c])
  PROVE  /\ Call(client[c].req) \in Clients \X (1..MaxAsks) /\ ~Remote!Known(Call(client[c].req))
         /\ Call(client[c].req)[2] # Uncounted
<1>1. /\ client[c].req \in Requested /\ client[c].req.by = c /\ client[c].req.n = client[c].asked
      /\ client[c].req.n # Uncounted
  BY DEF Base, OwnRequest, Waits
<1>2. Call(client[c].req) = <<c, client[c].asked>> /\ client[c].asked \in 1..MaxAsks
  BY <1>1, CallForm, IpcAssumption DEF Uncounted
<1>. SUFFICES ASSUME NEW end \in ended, end[1] = Call(client[c].req) PROVE FALSE
  BY <1>1, <1>2 DEF Remote!Known
<1>. QED
  BY <1>2 DEF Told

\* A step of a client tells its caller of success when the call was carried out.
LEMMA RemoteClient ==
  ASSUME Base, Talking, Told, NEW c \in Clients, Client(c)
  PROVE  Remote!Next \/ UNCHANGED <<RunCounted, EndedCounted>>
<1>. DEFINE call == Call(client[c].req)
<1>1. UNCHANGED run /\ UNCHANGED RunCounted
  BY DEF Client, Connect, Ask, ClientWrites, ClientReads, ClientGivesUp, Leave, RunCounted
<1>2. ASSUME NEW outcome, Asks(client[c]), ended' = ended \cup {<<call, outcome>>}
      PROVE  \/ UNCHANGED EndedCounted
             \/ Waits(client[c]) /\ EndedCounted' = EndedCounted \cup {<<call, outcome>>}
  <2>1. CASE client[c].req.n = Uncounted
    BY <1>2, <2>1 DEF EndedCounted, Call
  <2>2. CASE client[c].req.n # Uncounted
    BY <1>2, <2>2 DEF EndedCounted, Call, Waits
  <2>. QED
    BY <2>1, <2>2
<1>3. CASE Asks(client[c]) /\ ended' = ended \cup {<<call, "failed">>}
  <2>1. CASE UNCHANGED EndedCounted
    BY <1>1, <2>1
  <2>2. CASE Waits(client[c]) /\ EndedCounted' = EndedCounted \cup {<<call, "failed">>}
    BY <1>1, <2>2, NotToldYet DEF Remote!Next, Remote!Fail, RunCounted, EndedCounted
  <2>. QED
    BY <1>2, <1>3, <2>1, <2>2
<1>4. CASE ClientReads(c) /\ ~UNCHANGED ended /\ ~(ended' = ended \cup {<<call, "failed">>})
  <2>1. /\ client[c].pc = "read body" /\ links[Link(c)].down # <<>>
        /\ Head(links[Link(c)].down).frame.ok /\ ended' = ended \cup {<<call, "succeeded">>}
    BY <1>4 DEF ClientReads, Reading, At, Succeeded, Failed
  <2>2. links[Link(c)] \in Wire /\ Conversation(client[c], links[Link(c)], server, run) /\ Asks(client[c])
    BY <2>1, HasLink DEF Talking, At, Asks
  <2>3. Good(NextReply(links[Link(c)]), client[c], run)
    BY <2>1, <2>2, TalkRead
  <2>4. call \in run
    BY <2>1, <2>3 DEF Good, NextReply
  <2>5. CASE UNCHANGED EndedCounted
    BY <1>1, <2>5
  <2>6. CASE Waits(client[c]) /\ EndedCounted' = EndedCounted \cup {<<call, "succeeded">>}
    <3>1. call \in Clients \X (1..MaxAsks) /\ ~Remote!Known(call) /\ call \in RunCounted
      BY <2>4, <2>6, NotToldYet DEF RunCounted
    <3>. HIDE DEF call
    <3>. QED
      BY <1>1, <2>6, <3>1 DEF Remote!Next, Remote!Succeed, RunCounted, EndedCounted
  <2>. QED
    BY <1>2, <2>1, <2>2, <2>5, <2>6
<1>5. \/ UNCHANGED ended
      \/ Asks(client[c]) /\ ended' = ended \cup {<<call, "failed">>}
      \/ ClientReads(c) /\ ~UNCHANGED ended /\ ~(ended' = ended \cup {<<call, "failed">>})
  <2>1. CASE Connect(c) \/ Ask(c)
    BY <2>1 DEF Connect, Ask
  <2>2. CASE ClientWrites(c)
    BY <2>2 DEF ClientWrites, Writing, Asks
  <2>3. CASE ClientReads(c)
    BY <2>3 DEF ClientReads, Reading, Asks
  <2>4. CASE ClientGivesUp(c)
    BY <2>4 DEF ClientGivesUp, Reading, Asks, Failed
  <2>5. CASE Leave(c)
    <3>1. client[c] \in ClientState
      BY DEF Base, Typed
    <3>. QED
      BY <2>5, <3>1 DEF Leave, At, Asks, ClientState, ClientPc
  <2>. QED
    BY <2>1, <2>2, <2>3, <2>4, <2>5 DEF Client
<1>6. UNCHANGED ended => UNCHANGED EndedCounted
  BY DEF EndedCounted
<1>. QED
  BY <1>1, <1>3, <1>4, <1>5, <1>6

LEMMA RemoteServer ==
  ASSUME Base, Server
  PROVE  Remote!Next \/ UNCHANGED <<RunCounted, EndedCounted>>
<1>1. UNCHANGED ended /\ UNCHANGED EndedCounted
  BY DEF Server, Start, Accept, ServerReads, ServerGivesUp, ServerWrites, Create, Grant, Release,
         Invoke, Throws, Refuse, Answer, EndedCounted
<1>2. \/ UNCHANGED run
      \/ server.pc = "handle" /\ run' = run \cup {Call(server.msg)}
  <2>1. ASSUME NEW ok, NEW val, NEW memory, Answer(ok, val, memory), server.pc = "handle"
        PROVE  UNCHANGED run \/ (server.pc = "handle" /\ run' = run \cup {Call(server.msg)})
    BY <2>1 DEF Answer
  <2>2. CASE Create \/ Grant \/ Release \/ Invoke
    BY <2>1, <2>2 DEF Create, Grant, Release, Invoke, Handling, Refuse
  <2>3. CASE Start \/ Accept \/ ServerReads \/ ServerGivesUp \/ ServerWrites \/ Throws
    BY <2>3 DEF Start, Accept, ServerReads, ServerGivesUp, ServerWrites, Throws
  <2>. QED
    BY <2>2, <2>3 DEF Server
<1>3. CASE UNCHANGED run
  BY <1>1, <1>3 DEF RunCounted
<1>4. CASE server.pc = "handle" /\ run' = run \cup {Call(server.msg)}
  <2>. DEFINE call == Call(server.msg)
  <2>1. call \in Clients \X (0..MaxAsks)
    BY <1>4, CallForm DEF Base, InHand
  <2>. HIDE DEF call
  <2>2. CASE call[2] = Uncounted
    <3>1. UNCHANGED RunCounted
      BY <1>4, <2>2 DEF RunCounted, call
    <3>. QED
      BY <1>1, <3>1
  <2>3. CASE call[2] # Uncounted
    <3>1. call \in Clients \X (1..MaxAsks)
      BY <2>1, <2>3, IpcAssumption DEF Uncounted
    <3>2. RunCounted' = RunCounted \cup {call}
      BY <1>4, <2>3 DEF RunCounted, call
    <3>. QED
      BY <1>1, <3>1, <3>2 DEF Remote!Next, Remote!Run, RunCounted, EndedCounted
  <2>. QED
    BY <2>2, <2>3
<1>. QED
  BY <1>2, <1>3, <1>4

(* A caller hears of success only of what was carried out, once, for it,   *)
(* provided a program leaves when an exchange has failed: every step is    *)
(* one of RemoteCalls or leaves what it speaks of alone.                   *)
THEOREM CallsAreRemote == ASSUME Keeps = {} PROVE Spec => ImplementsRemoteCalls
<1>1. Init => Remote!Init
  BY DEF Init, Remote!Init
<1>2. Base /\ Talking /\ Told /\ [Next]_vars => Base' /\ Talking' /\ Told'
  BY BaseNext, TalkNext
<1>3. Base /\ Talking /\ Told /\ [Next]_vars =>
        [Remote!Next]_<<{call \in run : call[2] # Uncounted}, {end \in ended : end[1][2] # Uncounted}>>
  <2>1. CASE \E c \in Clients : Client(c)
    BY <2>1, RemoteClient DEF RunCounted, EndedCounted
  <2>2. CASE Server
    BY <2>2, RemoteServer DEF RunCounted, EndedCounted
  <2>3. CASE UNCHANGED vars
    BY <2>3 DEF vars
  <2>. QED
    BY <2>1, <2>2, <2>3 DEF Next
<1>. QED
  BY <1>1, <1>2, <1>3, BaseInit, TalkInit, PTL DEF Spec, ImplementsRemoteCalls, Remote!Spec
-----------------------------------------------------------------------------
(* The images of bundles.                                                  *)

Stages == {"idle", "look", "build", "building", "open", "loaded",
           "mismatch", "no compiler", "unloadable"}
Loading == {"look", "build", "building", "open", "loaded"}
Images == {Absent, Partial} \cup {Made(b, host) : b \in Bundles, host \in Hosts}
Begun == [host : Hosts, expected : Interfaces, read : Bundles, reused : BOOLEAN]

CacheTypes ==
  /\ published \in Bundles
  /\ image \in [Keys -> Images]
  /\ step \in [Loaders -> Stages] /\ load \in [Loaders -> Begun \cup {NoLoad}]
  /\ loaded \in [Loaders -> Images]
  /\ \A l \in Loaders : step[l] \in Loading => load[l] \in Begun

\* A finished image has the name of what it was made from, and is for the host
\* in its name.
NamedForWhatItIs ==
  \A k \in Keys : \A b \in Bundles, host \in Hosts :
    image[k] = Made(b, host) => k = ImageOf(b, host)

\* Who builds did not find an image, and opens his own.
OpensHisOwn ==
  \A l \in Loaders :
    /\ step[l] \in {"build", "building"} => ~load[l].reused
    /\ step[l] = "open" /\ ~load[l].reused => image[KeyOf(l)] = Made(load[l].read, load[l].host)

CacheInv == CacheTypes /\ NamedForWhatItIs /\ OpensHisOwn /\ CacheNeverInTheWay

\* Where the image of a load is.
LEMMA ImageIsNamed ==
  ASSUME CacheAssumption, CacheTypes, NEW l \in Loaders, step[l] \in Loading
  PROVE  /\ load[l] \in Begun /\ load[l].read \in Bundles /\ load[l].host \in Hosts
         /\ KeyOf(l) = ImageOf(load[l].read, load[l].host) /\ KeyOf(l) \in Keys
         /\ Made(load[l].read, load[l].host) \in Images
<1>1. load[l] \in Begun /\ load[l].read \in Bundles /\ load[l].host \in Hosts
  BY DEF CacheTypes, Begun
<1>2. load[l].read.interface \in Interfaces
  BY <1>1 DEF CacheAssumption
<1> QED BY <1>1, <1>2 DEF KeyOf, ImageOf, Keys, Images

\* What a host can open of the images of its name is what it would build.
LEMMA LoadsOnlyItsOwn ==
  ASSUME CacheAssumption, OneOfAnInterface, CacheInv, NEW l \in Loaders, step[l] = "open"
  PROVE  Loads(image[KeyOf(l)], load[l].host) <=> image[KeyOf(l)] = Made(load[l].read, load[l].host)
<1>1. /\ load[l].read \in Bundles /\ load[l].host \in Hosts /\ KeyOf(l) \in Keys
      /\ KeyOf(l) = ImageOf(load[l].read, load[l].host)
  BY ImageIsNamed DEF CacheInv, Loading
<1>2. ASSUME image[KeyOf(l)] = Made(load[l].read, load[l].host)
      PROVE  Loads(image[KeyOf(l)], load[l].host)
  BY <1>1, <1>2 DEF Loads, Made, CacheAssumption
<1>3. ASSUME Loads(image[KeyOf(l)], load[l].host)
      PROVE  image[KeyOf(l)] = Made(load[l].read, load[l].host)
  <2>1. image[KeyOf(l)] \in Images /\ image[KeyOf(l)] \notin {Absent, Partial}
    BY <1>1, <1>3 DEF Loads, CacheInv, CacheTypes
  <2>2. PICK b \in Bundles, host \in Hosts : image[KeyOf(l)] = Made(b, host)
    BY <2>1 DEF Images
  <2>3. KeyOf(l) = ImageOf(b, host)
    BY <1>1, <2>2 DEF CacheInv, NamedForWhatItIs
  <2>4. b.interface = load[l].read.interface /\ host = load[l].host
    BY <1>1, <2>3 DEF ImageOf
  <2> QED BY <1>1, <2>2, <2>4 DEF OneOfAnInterface
<1> QED BY <1>2, <1>3

LEMMA CacheStarts ==
  ASSUME CacheAssumption, BundleInit
  PROVE  CacheInv
<1>1. CacheTypes
  BY DEF BundleInit, CacheTypes, Images, Stages, Loading
<1>2. NamedForWhatItIs
  BY DEF BundleInit, NamedForWhatItIs, CacheAssumption
<1>3. OpensHisOwn /\ CacheNeverInTheWay
  BY DEF BundleInit, OpensHisOwn, CacheNeverInTheWay
<1> QED BY <1>1, <1>2, <1>3 DEF CacheInv

\* What a loader does, in terms of what the invariant says of it.
LEMMA LoaderKeeps ==
  ASSUME CacheAssumption, OneLoader, CacheInv, NEW l \in Loaders,
         NEW s \in Stages, NEW a \in Begun \cup {NoLoad}, NEW i \in Images,
         step' = [step EXCEPT ![l] = s], load' = [load EXCEPT ![l] = a],
         loaded' = [loaded EXCEPT ![l] = i], published' = published,
         image' \in [Keys -> Images], NamedForWhatItIs',
         s \in Loading => a \in Begun,
         s \in {"build", "building"} => ~a.reused,
         s = "open" /\ ~a.reused => image'[ImageOf(a.read, a.host)] = Made(a.read, a.host),
         s # "unloadable", s = "loaded" => i = Made(a.read, a.host)
  PROVE  CacheInv'
<1>1. \A m \in Loaders : m = l
  BY DEF OneLoader
<1>2. /\ step \in [Loaders -> Stages] /\ load \in [Loaders -> Begun \cup {NoLoad}]
      /\ loaded \in [Loaders -> Images] /\ published \in Bundles
  BY DEF CacheInv, CacheTypes
<1>3. /\ step' \in [Loaders -> Stages] /\ load' \in [Loaders -> Begun \cup {NoLoad}]
      /\ loaded' \in [Loaders -> Images]
      /\ step'[l] = s /\ load'[l] = a /\ loaded'[l] = i
  BY <1>2
<1>4. CacheTypes'
  BY <1>1, <1>2, <1>3 DEF CacheTypes
<1>5. OpensHisOwn'
  BY <1>1, <1>3 DEF OpensHisOwn, KeyOf
<1>6. CacheNeverInTheWay'
  BY <1>1, <1>3 DEF CacheNeverInTheWay
<1> QED BY <1>4, <1>5, <1>6 DEF CacheInv

\* An image that is taken away, begun or finished.
LEMMA ImageGoesTo ==
  ASSUME CacheAssumption, CacheInv, NEW l \in Loaders, step[l] \in Loading,
         NEW i \in {Absent, Partial, Made(load[l].read, load[l].host)},
         image' = [image EXCEPT ![KeyOf(l)] = i]
  PROVE  image' \in [Keys -> Images] /\ NamedForWhatItIs' /\ image'[KeyOf(l)] = i
<1>1. /\ load[l].read \in Bundles /\ load[l].host \in Hosts /\ KeyOf(l) \in Keys
      /\ KeyOf(l) = ImageOf(load[l].read, load[l].host)
      /\ Made(load[l].read, load[l].host) \in Images
  BY ImageIsNamed DEF CacheInv
<1>2. image \in [Keys -> Images] /\ i \in Images
  BY <1>1 DEF CacheInv, CacheTypes, Images
<1>3. image' \in [Keys -> Images] /\ image'[KeyOf(l)] = i
  BY <1>1, <1>2
<1>4. ASSUME NEW k \in Keys, NEW b \in Bundles, NEW host \in Hosts, image'[k] = Made(b, host)
      PROVE  k = ImageOf(b, host)
  <2>1. CASE k = KeyOf(l)
    <3>1. i = Made(b, host) /\ i \notin {Absent, Partial}
      BY <1>3, <1>4, <2>1 DEF CacheAssumption
    <3>2. Made(load[l].read, load[l].host) = Made(b, host)
      BY <3>1
    <3>3. load[l].read = b /\ load[l].host = host
      BY <3>2 DEF Made
    <3> QED BY <1>1, <2>1, <3>3
  <2>2. CASE k # KeyOf(l)
    <3>1. image[k] = Made(b, host)
      BY <1>2, <1>4, <2>2
    <3> QED BY <3>1 DEF CacheInv, NamedForWhatItIs
  <2> QED BY <2>1, <2>2
<1>5. NamedForWhatItIs'
  BY <1>4 DEF NamedForWhatItIs, ImageOf, Made
<1> QED BY <1>3, <1>5

\* Every step, of the loader and of who compiles the bundle.
LEMMA CacheStepKeeps ==
  ASSUME CacheAssumption, OneOfAnInterface, OneLoader, CacheInv, [BundleNext]_bundleVars
  PROVE  CacheInv'
<1>0. /\ CacheTypes /\ NamedForWhatItIs
      /\ \A l \in Loaders : step[l] \in Stages /\ load[l] \in Begun \cup {NoLoad} /\ loaded[l] \in Images
  BY DEF CacheInv, CacheTypes
<1>a. \A l \in Loaders :
        /\ load' = load => load' = [load EXCEPT ![l] = load[l]]
        /\ loaded' = loaded => loaded' = [loaded EXCEPT ![l] = loaded[l]]
  BY <1>0 DEF CacheTypes
<1>b. image' = image => image' \in [Keys -> Images] /\ NamedForWhatItIs'
  BY <1>0 DEF CacheTypes, NamedForWhatItIs
<1>1. ASSUME NEW b \in Bundles, Publish(b) PROVE CacheInv'
  <2>1. /\ published' \in Bundles /\ image' = image /\ step' = step /\ load' = load /\ loaded' = loaded
    BY <1>1 DEF Publish
  <2> QED BY <1>0, <2>1 DEF CacheInv, CacheTypes, NamedForWhatItIs, OpensHisOwn, CacheNeverInTheWay, KeyOf
<1>2. ASSUME NEW l \in Loaders, NEW h \in Hosts, NEW i \in Interfaces, Read(l, h, i) PROVE CacheInv'
  <2> DEFINE a == [host |-> h, expected |-> i, read |-> published, reused |-> FALSE]
  <2>1. a \in Begun
    BY <1>0 DEF CacheTypes, Begun
  <2>2. /\ load' = [load EXCEPT ![l] = a] /\ loaded' = loaded /\ published' = published /\ image' = image
    BY <1>2 DEF Read
  <2>3. PICK s \in {"look", "mismatch"} : step' = [step EXCEPT ![l] = s]
    BY <1>2 DEF Read, Goto
  <2>4. s \in Stages
    BY DEF Stages
  <2> HIDE DEF a
  <2> QED BY <1>0, <1>a, <1>b, <2>1, <2>2, <2>3, <2>4, LoaderKeeps
<1>3. ASSUME NEW l \in Loaders, Look(l) PROVE CacheInv'
  <2> DEFINE found == image[KeyOf(l)] # Absent
             s == IF found THEN "open" ELSE "build"
             a == [load[l] EXCEPT !.reused = found]
  <2>1. load[l] \in Begun
    BY <1>0, <1>3 DEF Look, Goto, CacheTypes, Loading
  <2>2. a \in Begun /\ a.reused = found
    BY <2>1 DEF Begun
  <2>3. /\ step' = [step EXCEPT ![l] = s] /\ load' = [load EXCEPT ![l] = a] /\ loaded' = loaded
        /\ published' = published /\ image' = image
    BY <1>3 DEF Look, Goto
  <2>4. s \in Stages /\ (s = "open" => a.reused) /\ (s = "build" => ~a.reused) /\ s \in {"open", "build"}
    BY <2>2 DEF Stages
  <2> HIDE DEF a, s, found
  <2> QED BY <1>0, <1>a, <1>b, <2>2, <2>3, <2>4, LoaderKeeps
<1>4. ASSUME NEW l \in Loaders, Begin(l) PROVE CacheInv'
  <2>1. load[l] \in Begun /\ ~load[l].reused
    BY <1>0, <1>4 DEF Begin, Goto, CacheTypes, Loading, CacheInv, OpensHisOwn
  <2>2. image' \in [Keys -> Images] /\ NamedForWhatItIs'
    BY <1>0, <1>4, ImageGoesTo DEF Begin, Goto, Loading
  <2>3. /\ step' = [step EXCEPT ![l] = "building"] /\ load' = load /\ loaded' = loaded
        /\ published' = published /\ "building" \in Stages
    BY <1>4 DEF Begin, Goto, Stages
  <2> DEFINE a == load[l]
             i == loaded[l]
  <2>4. /\ load' = [load EXCEPT ![l] = a] /\ loaded' = [loaded EXCEPT ![l] = i]
        /\ a \in Begun /\ ~a.reused /\ i \in Images
    BY <1>0, <1>a, <2>1, <2>3
  <2> HIDE DEF a, i
  <2> QED BY <2>2, <2>3, <2>4, LoaderKeeps
<1>5. ASSUME NEW l \in Loaders, Finish(l) PROVE CacheInv'
  <2>1. load[l] \in Begun /\ ~load[l].reused
    BY <1>0, <1>5 DEF Finish, Goto, CacheTypes, Loading, CacheInv, OpensHisOwn
  <2>2. /\ image' \in [Keys -> Images] /\ NamedForWhatItIs'
        /\ image'[KeyOf(l)] = Made(load[l].read, load[l].host)
    BY <1>0, <1>5, ImageGoesTo DEF Finish, Goto, Loading
  <2>3. /\ step' = [step EXCEPT ![l] = "open"] /\ load' = load /\ loaded' = loaded
        /\ published' = published /\ "open" \in Stages
    BY <1>5 DEF Finish, Goto, Stages
  <2> DEFINE a == load[l]
             i == loaded[l]
  <2>4. /\ load' = [load EXCEPT ![l] = a] /\ loaded' = [loaded EXCEPT ![l] = i]
        /\ a \in Begun /\ ~a.reused /\ i \in Images
        /\ image'[ImageOf(a.read, a.host)] = Made(a.read, a.host)
    BY <1>0, <1>a, <2>1, <2>2, <2>3 DEF KeyOf
  <2> HIDE DEF a, i
  <2> QED BY <2>2, <2>3, <2>4, LoaderKeeps
<1>6. ASSUME NEW l \in Loaders, Fail(l) PROVE CacheInv'
  <2>1. image' \in [Keys -> Images] /\ NamedForWhatItIs'
    BY <1>0, <1>6, ImageGoesTo DEF Fail, Goto, Loading
  <2>2. /\ step' = [step EXCEPT ![l] = "no compiler"] /\ load' = load /\ loaded' = loaded
        /\ published' = published /\ "no compiler" \in Stages /\ "no compiler" \notin Loading
    BY <1>6 DEF Fail, Goto, Stages, Loading
  <2> DEFINE a == load[l]
             i == loaded[l]
  <2>3. /\ load' = [load EXCEPT ![l] = a] /\ loaded' = [loaded EXCEPT ![l] = i]
        /\ a \in Begun \cup {NoLoad} /\ i \in Images
    BY <1>0, <1>a, <2>2
  <2> HIDE DEF a, i
  <2> QED BY <2>1, <2>2, <2>3, LoaderKeeps
<1>7. ASSUME NEW l \in Loaders, Open(l) PROVE CacheInv'
  <2>1. load[l] \in Begun /\ step[l] = "open"
    BY <1>0, <1>7 DEF Open, Goto, CacheTypes, Loading
  <2>2. image[KeyOf(l)] = Made(load[l].read, load[l].host)
    BY <1>7, <2>1, LoadsOnlyItsOwn DEF Open
  <2>3. Made(load[l].read, load[l].host) \in Images
    BY <2>1 DEF Begun, Images
  <2>4. /\ step' = [step EXCEPT ![l] = "loaded"] /\ load' = load /\ image' = image
        /\ loaded' = [loaded EXCEPT ![l] = Made(load[l].read, load[l].host)]
        /\ published' = published /\ "loaded" \in Stages
    BY <1>7, <2>2 DEF Open, Goto, Stages
  <2> QED BY <1>0, <1>a, <1>b, <2>1, <2>3, <2>4, LoaderKeeps
<1>8. ASSUME NEW l \in Loaders, Refused(l) PROVE CacheInv'
  <2>1. load[l] \in Begun /\ step[l] = "open"
    BY <1>0, <1>8 DEF Refused, CacheTypes, Loading
  <2>2. image[KeyOf(l)] # Made(load[l].read, load[l].host)
    BY <1>8, <2>1, LoadsOnlyItsOwn DEF Refused
  <2>3. load[l].reused
    BY <2>1, <2>2 DEF CacheInv, OpensHisOwn
  <2> DEFINE a == [load[l] EXCEPT !.reused = FALSE]
  <2>4. a \in Begun /\ ~a.reused
    BY <2>1 DEF Begun
  <2>5. /\ step' = [step EXCEPT ![l] = "build"] /\ load' = [load EXCEPT ![l] = a] /\ loaded' = loaded
        /\ published' = published /\ image' = [image EXCEPT ![KeyOf(l)] = Absent] /\ "build" \in Stages
    BY <1>8, <2>3 DEF Refused, Goto, Stages
  <2>6. image' \in [Keys -> Images] /\ NamedForWhatItIs'
    BY <2>1, <2>5, ImageGoesTo DEF Loading
  <2> HIDE DEF a
  <2> QED BY <1>0, <1>a, <2>4, <2>5, <2>6, LoaderKeeps
<1>9. ASSUME NEW l \in Loaders, Retry(l) PROVE CacheInv'
  <2>1. /\ step' = [step EXCEPT ![l] = "idle"] /\ load' = [load EXCEPT ![l] = NoLoad] /\ loaded' = loaded
        /\ published' = published /\ image' = image /\ "idle" \in Stages /\ "idle" \notin Loading
    BY <1>9 DEF Retry, Stages, Loading
  <2> QED BY <1>0, <1>a, <1>b, <2>1, LoaderKeeps
<1>10. ASSUME NEW l \in Loaders, Killed(l) PROVE CacheInv'
  <2>1. /\ step' = [step EXCEPT ![l] = "idle"] /\ load' = [load EXCEPT ![l] = NoLoad]
        /\ loaded' = [loaded EXCEPT ![l] = Absent] /\ Absent \in Images
        /\ published' = published /\ image' = image /\ "idle" \in Stages /\ "idle" \notin Loading
    BY <1>10 DEF Killed, Stages, Loading, Images
  <2> QED BY <1>0, <1>b, <2>1, LoaderKeeps
<1>11. CASE UNCHANGED bundleVars
  <2>1. published' = published /\ image' = image /\ step' = step /\ load' = load /\ loaded' = loaded
    BY <1>11 DEF bundleVars
  <2> QED BY <2>1 DEF CacheInv, CacheTypes, NamedForWhatItIs, OpensHisOwn, CacheNeverInTheWay, KeyOf
<1> QED BY <1>1, <1>2, <1>3, <1>4, <1>5, <1>6, <1>7, <1>8, <1>9, <1>10, <1>11 DEF BundleNext

\* An image kept from an earlier run is as good as a new one, whatever was
\* killed and whatever it left behind.
THEOREM ImagesAreAsGoodAsNew ==
  ASSUME CacheAssumption, OneOfAnInterface, OneLoader
  PROVE  BundleSpec => []CacheNeverInTheWay
<1>1. BundleInit => CacheInv
  BY CacheStarts
<1>2. CacheInv /\ [BundleNext]_bundleVars => CacheInv'
  BY CacheStepKeeps
<1>3. CacheInv => CacheNeverInTheWay
  BY DEF CacheInv
<1> QED BY <1>1, <1>2, <1>3, PTL DEF BundleSpec
=============================================================================
