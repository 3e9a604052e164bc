------------------------------ MODULE WeakList ------------------------------
(* Weak references.  A field declared `weak` is a node of two words, what   *)
(* it refers to and the next node, on a list that begins in the object it   *)
(* refers to.  An object that dies empties the nodes on its own list, and   *)
(* takes the nodes it holds itself off the lists of others.                 *)
(*                                                                          *)
(* An operator X_m is a plausible mistake in X, not part of the model.      *)
EXTENDS Naturals, FiniteSets, Sequences

CONSTANTS
  Places,   \* where an object can be: one after another may be at the same
  Weak,     \* Weak[p]: the numbers of the weak fields of an object at p
  Ways,     \* the ways objects die here: "delete", "scope", "frame", "region"
  ToDying,  \* whether a field may be set to an object already being destroyed
  Null

Nodes == {n \in Places \X UNION {Weak[p] : p \in Places} : n[2] \in Weak[n[1]]}
Holder(n) == n[1]

\* Only `delete` and the end of a heap object's scope empty the list first:
\* a frame object's scope and `delete ... from` a region only destruct.
Emptying == {"delete", "scope"}

\* What an instance must give.
WeakAssumption == /\ Weak \in [Places -> SUBSET Nat]
                  /\ IsFiniteSet(Places) /\ IsFiniteSet(Nodes)
                  /\ Null \notin Places \cup Nodes
                  /\ Ways \subseteq Emptying \cup {"frame", "region"}
                  /\ ToDying \in BOOLEAN

VARIABLES
  living,  \* where there is an object no destructor has begun on
  dying,   \* those whose destructor runs, the innermost last
  first,   \* first[p]: the list of the object at p; whatever was left, without
  refers,  \* refers[n], after[n]: the two words of a node
  after,
  meant    \* meant[n]: what the program may expect to read (history)

weakVars == <<living, dying, first, refers, after, meant>>

Present == living \cup {dying[i] : i \in DOMAIN dying}
Links == [first : [Places -> Nodes \cup {Null}],
          refers : [Nodes -> Places \cup {Null}],
          after : [Nodes -> Nodes \cup {Null}]]
Now == [first |-> first, refers |-> refers, after |-> after]

\* The nodes a walk meets in a list, in turn, and Null from its end on.
Walk(links, p) ==
  LET at[k \in 0..Cardinality(Nodes)] ==
        IF k = 0 THEN links.first[p]
        ELSE IF at[k - 1] = Null THEN Null ELSE links.after[at[k - 1]]
  IN  at
Listed(links, p) == {Walk(links, p)[k] : k \in 0..Cardinality(Nodes)} \ {Null}

Blanked(links, nodes) ==
  [links EXCEPT !.refers = [n \in Nodes |-> IF n \in nodes THEN Null ELSE @[n]],
                !.after = [n \in Nodes |-> IF n \in nodes THEN Null ELSE @[n]]]

\* A node goes in front.
Linked(links, n, p) ==
  [first |-> [links.first EXCEPT ![p] = n],
   refers |-> [links.refers EXCEPT ![n] = p],
   after |-> [links.after EXCEPT ![n] = links.first[p]]]

\* A node leaves the list it is on: the head, or the node before it, goes on
\* to the one after it.
Unlinked_m(links, n) ==
  LET p == links.refers[n]
  IN  Blanked(IF p # Null /\ links.first[p] = n
              THEN [links EXCEPT !.first[p] = links.after[n]]
              ELSE links, {n})
Unlinked(links, n) ==
  LET p == links.refers[n]
      before == {b \in Listed(links, p) : links.after[b] = n}
  IN  Blanked(CASE p = Null -> links
                [] p # Null /\ links.first[p] = n ->
                     [links EXCEPT !.first[p] = links.after[n]]
                [] OTHER ->
                     [links EXCEPT !.after =
                        [m \in Nodes |-> IF m \in before THEN links.after[n] ELSE @[m]]],
              {n})

\* Every node of the list is emptied, and so is the list.
Nullified(links, p) == [Blanked(links, Listed(links, p)) EXCEPT !.first[p] = Null]

\* The nodes an object holds leave their lists, one field after another.
Field(p, k) == CHOOSE f \in Weak[p] : Cardinality({g \in Weak[p] : g < f}) = k - 1
OwnUnlinked_m(links, p) == links
OwnUnlinked(links, p) ==
  LET left[k \in 0..Cardinality(Weak[p])] ==
        IF k = 0 THEN links ELSE Unlinked(left[k - 1], <<p, Field(p, k)>>)
  IN  left[Cardinality(Weak[p])]

Become(links) == /\ first' = links.first
                 /\ refers' = links.refers
                 /\ after' = links.after

WeakInit == /\ living = {} /\ dying = <<>>
            /\ first = [p \in Places |-> Null]
            /\ refers = [n \in Nodes |-> Null]
            /\ after = [n \in Nodes |-> Null]
            /\ meant = [n \in Nodes |-> Null]

\* `new`: the head and the object's nodes are emptied before its constructor.
New(p) ==
  LET own == {n \in Nodes : Holder(n) = p}
  IN  /\ p \notin Present
      /\ living' = living \cup {p}
      /\ Become([Blanked(Now, own) EXCEPT !.first[p] = Null])
      /\ meant' = [n \in Nodes |-> IF n \in own THEN Null ELSE meant[n]]
      /\ UNCHANGED dying

\* What the program has to refer to.
Targets == {Null} \cup living \cup (IF ToDying THEN Present ELSE {})

\* A weak field is written, by anybody who has the object: also by the
\* destructors that run.
Write_m(n, p) ==
  /\ Holder(n) \in Present
  /\ p \in Targets
  /\ Become(IF p = Null THEN Unlinked(Now, n) ELSE Linked(Now, n, p))
  /\ meant' = [meant EXCEPT ![n] = p]
  /\ UNCHANGED <<living, dying>>
Write(n, p) ==
  /\ Holder(n) \in Present
  /\ p \in Targets
  /\ LET unlinked == Unlinked(Now, n)
     IN  Become(IF p = Null THEN unlinked ELSE Linked(unlinked, n, p))
  /\ meant' = [meant EXCEPT ![n] = p]
  /\ UNCHANGED <<living, dying>>

\* An object begins to die: the list is emptied, or not, and its destructor
\* starts, in which others may be deleted.
Begin(p, way) ==
  /\ p \in living
  /\ living' = living \ {p}
  /\ dying' = Append(dying, p)
  /\ Become(IF way \in Emptying THEN Nullified(Now, p) ELSE Now)
  /\ meant' = [n \in Nodes |-> IF meant[n] = p THEN Null ELSE meant[n]]

\* The body of the destructor that runs is over: the object's own nodes leave
\* their lists, and its memory is anybody's.
End ==
  /\ dying # <<>>
  /\ dying' = SubSeq(dying, 1, Len(dying) - 1)
  /\ Become(OwnUnlinked(Now, dying[Len(dying)]))
  /\ UNCHANGED <<living, meant>>

WeakNext == \/ \E p \in Places : New(p)
            \/ \E n \in Nodes, p \in Places \cup {Null} : Write(n, p)
            \/ \E p \in Places, way \in Ways : Begin(p, way)
            \/ End
WeakSpec == WeakInit /\ [][WeakNext]_weakVars
-----------------------------------------------------------------------------
WeakTypeOK == /\ living \subseteq Places
              /\ dying \in Seq(Places)
              /\ Now \in Links
              /\ meant \in [Nodes -> Places \cup {Null}]

\* A weak field reads what was last written to it, and null from the moment
\* that object begins to die; and so that this stays true whatever dies
\* next, the list of a living object ends, and holds the nodes that refer to
\* it and no node of an object that is gone.
WeakNeverDangles ==
  /\ \A n \in Nodes : Holder(n) \in Present => refers[n] = meant[n]
  /\ \A p \in living :
       /\ Walk(Now, p)[Cardinality(Nodes)] = Null
       /\ Listed(Now, p) = {n \in Nodes : Holder(n) \in Present /\ refers[n] = p}
=============================================================================
