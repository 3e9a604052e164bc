------------------------------ MODULE Unimport ------------------------------
(* `unimport`, `cascade unimport` and `reimport` as lower.cpp compiles     *)
(* them: alive flags, counts of instances, dispatch tables, and the code   *)
(* that is overwritten with int3 and read back.  One thread runs; it makes *)
(* objects, deletes them, calls their methods and static methods, and      *)
(* unimports classes, from elsewhere or from a static method of a class.   *)
(*                                                                         *)
(* A function is named by its class and its name: "new" and "~" are the    *)
(* constructor and the destructor, "static" a static method, the others    *)
(* virtual methods.  No constructor throws, and an object is deleted       *)
(* through a handle that reaches its destructor.  The hook onClassUnload   *)
(* and the clearing of static fields touch none of this state.             *)
(*                                                                         *)
(* An operator X_m or X_n is a plausible mistake in X, not part of the     *)
(* model.                                                                  *)
EXTENDS Integers, FiniteSets

CONSTANTS
  Classes,
  Super,      \* the superclass of each, or None
  Declares,   \* the functions that each class has of its own
  Plain,      \* the statements `unimport`: a class, and that of the method it is in
  Cascaded,   \* the statements `cascade unimport`
  BaseFirst,  \* whether a class is reimported only when the one it extends is there
  Objects,
  None

\* What an instance must give.
UnimportAssumption ==
  /\ Super \in [Classes -> Classes \cup {None}] /\ None \notin Classes
  /\ \A c \in Classes : {"new", "~"} \subseteq Declares[c]
  /\ Plain \cup Cascaded \subseteq Classes \X (Classes \cup {None})
  /\ BaseFirst \in BOOLEAN /\ IsFiniteSet(Objects)

VARIABLES
  alive,      \* the flag of each class
  instances,  \* its count
  poisoned,   \* the classes whose table is full of traps
  ripped,     \* the functions overwritten
  object,     \* the class of an object, None before and after its life
  inside,     \* the class whose static method is running, or None
  lost        \* control has come to overwritten code

importVars == <<alive, instances, poisoned, ripped, object, inside, lost>>

\* What extends c by one step: cascadeUnimportTargets goes no further.
Family(c) == {c} \cup {d \in Classes : Super[d] = c}

\* The classes some statement of the program names: they alone are counted
\* and guarded.
Unimportable == {p[1] : p \in Plain} \cup UNION {Family(p[1]) : p \in Cascaded}

\* c and the classes it extends: what is in every set with c that has the
\* superclasses of all its classes.
Upward == {up \in SUBSET Classes : \A e \in up : Super[e] \in up \cup {None}}
Chain[c \in Classes] == {d \in Classes : \A up \in Upward : c \in up => d \in up}

Functions(c) == {<<c, n>> : n \in Declares[c]}

\* Where c has a method from: the nearest of its classes that declare it, from
\* which all the others are reached.
Declaring(c, n) == {d \in Chain[c] : n \in Declares[d]}
Implementation(c, n) == <<CHOOSE d \in Declaring(c, n) : Declaring(c, n) \subseteq Chain[d], n>>

ImportInit == /\ alive = [c \in Classes |-> TRUE]
              /\ instances = [c \in Classes |-> 0]
              /\ poisoned = {} /\ ripped = {}
              /\ object = [o \in Objects |-> None]
              /\ inside = None
              /\ lost = FALSE
-----------------------------------------------------------------------------
\* Mutant: the constructor of an object counts its own class only.
Counted_m(c) == {c} \cap Unimportable

\* The counts that a constructor or a destructor of c moves: each calls
\* that of the base.
Counted(c) == Chain[c] \cap Unimportable

\* Mutant: a class that is gone is guarded while it has a count.
Guarded_m(c) == c \in Unimportable => alive[c] \/ instances[c] = 0

\* guardAlive lets pass; otherwise the statement throws and nothing changes.
Guarded(c) == c \in Unimportable => alive[c]

\* Control enters these functions, one after the other.
Enters(fs) == lost' = (fs \cap ripped # {})

New(o, c) ==
  /\ ~lost /\ object[o] = None /\ Guarded(c)
  /\ Enters({<<k, "new">> : k \in Chain[c]})
  /\ object' = [object EXCEPT ![o] = c]
  /\ instances' = [k \in Classes |-> instances[k] + IF k \in Counted(c) THEN 1 ELSE 0]
  /\ UNCHANGED <<alive, poisoned, ripped, inside>>

Delete(o) ==
  /\ ~lost /\ object[o] # None
  /\ Enters({<<k, "~">> : k \in Chain[object[o]]})
  /\ instances' = [k \in Classes |->
                     instances[k] - IF k \in Counted(object[o]) THEN 1 ELSE 0]
  /\ object' = [object EXCEPT ![o] = None]
  /\ UNCHANGED <<alive, poisoned, ripped, inside>>

\* n is called through a handle of type s.  A method that is overridden
\* somewhere goes by the object's table, where the trap throws; one that is
\* not is called directly.
Overridden(n) == \E c, d \in Classes : c # d /\ n \in Declares[c] \cap Declares[d]

Call(o, s, n) ==
  /\ ~lost /\ object[o] # None /\ s \in Chain[object[o]] /\ Guarded(s)
  /\ n \notin {"new", "~", "static"} /\ Declaring(s, n) # {}
  /\ IF Overridden(n)
     THEN object[o] \notin poisoned /\ Enters({Implementation(object[o], n)})
     ELSE Enters({Implementation(s, n)})
  /\ UNCHANGED <<alive, instances, poisoned, ripped, object, inside>>

\* There is no receiver, and so no guard.
CallStatic(c) ==
  /\ ~lost /\ inside = None /\ "static" \in Declares[c]
  /\ Enters({<<c, "static">>})
  /\ inside' = c
  /\ UNCHANGED <<alive, instances, poisoned, ripped, object>>

\* The method goes on, and returns.
GoOn ==
  /\ ~lost /\ inside # None
  /\ Enters({<<inside, "static">>})
  /\ inside' = None
  /\ UNCHANGED <<alive, instances, poisoned, ripped, object>>
-----------------------------------------------------------------------------
(* A statement of a class `from`: a set is unimported one after the other, *)
(* up to the first of which something is alive.  `from` keeps its code.    *)

\* Mutant: nobody asks whether anything is alive.
Busy_m(c) == FALSE

Busy(c) == instances[c] # 0

\* Mutant: the flag is left.
Gone_m(cs, from) == /\ poisoned' = poisoned \cup cs
                    /\ ripped' = ripped \cup UNION {Functions(c) : c \in cs \ {from}}
                    /\ UNCHANGED alive

Gone(cs, from) == /\ alive' = [c \in Classes |-> alive[c] /\ c \notin cs]
                  /\ poisoned' = poisoned \cup cs
                  /\ ripped' = ripped \cup UNION {Functions(c) : c \in cs \ {from}}

UnimportPlain(c, from) ==
  /\ ~lost /\ <<c, from>> \in Plain /\ from \in {None, inside}
  /\ ~Busy(c) /\ Gone({c}, from)
  /\ UNCHANGED <<instances, object, inside, lost>>

\* The class first, then what extends it, in the order of the program: here
\* in any order.
UnimportCascaded(c, from) ==
  /\ ~lost /\ <<c, from>> \in Cascaded /\ from \in {None, inside}
  /\ ~Busy(c)
  /\ LET rest == Family(c) \ {c}
     IN  \E done \in SUBSET rest :
           /\ \A d \in done : ~Busy(d)
           /\ done # rest => \E d \in rest \ done : Busy(d)
           /\ Gone({c} \cup done, from)
  /\ UNCHANGED <<instances, object, inside, lost>>

\* Mutant: the table is left poisoned.
Reimport_m(c, from) ==
  /\ ~lost /\ c \in Unimportable /\ from \in {None, inside}
  /\ BaseFirst /\ Super[c] # None => alive[Super[c]]
  /\ alive' = [alive EXCEPT ![c] = TRUE]
  /\ ripped' = IF c = from THEN ripped ELSE ripped \ Functions(c)
  /\ UNCHANGED <<instances, poisoned, object, inside, lost>>

Reimport(c, from) ==
  /\ ~lost /\ c \in Unimportable /\ from \in {None, inside}
  /\ BaseFirst /\ Super[c] # None => alive[Super[c]]
  /\ alive' = [alive EXCEPT ![c] = TRUE]
  /\ ripped' = IF c = from THEN ripped ELSE ripped \ Functions(c)
  /\ poisoned' = poisoned \ {c}
  /\ UNCHANGED <<instances, object, inside, lost>>

ImportNext ==
  \/ \E o \in Objects, c \in Classes : New(o, c)
  \/ \E o \in Objects : Delete(o)
  \/ \E o \in Objects, s \in Classes :
       \E n \in UNION {Declares[c] : c \in Chain[s]} : Call(o, s, n)
  \/ \E c \in Classes : CallStatic(c)
  \/ GoOn
  \/ \E c \in Classes, from \in Classes \cup {None} :
       UnimportPlain(c, from) \/ UnimportCascaded(c, from) \/ Reimport(c, from)
ImportSpec == ImportInit /\ [][ImportNext]_importVars
-----------------------------------------------------------------------------
ImportTypeOK == /\ alive \in [Classes -> BOOLEAN]
                /\ instances \in [Classes -> Int]
                /\ poisoned \subseteq Classes
                /\ ripped \subseteq UNION {Functions(c) : c \in Classes}
                /\ object \in [Objects -> Classes \cup {None}]
                /\ inside \in Classes \cup {None}
                /\ lost \in BOOLEAN

(* The programs of which the rest holds, where the code stops short: no     *)
(* statement leaves a class without one that it extends, directly or by    *)
(* one more step, and none but its own takes away the code of a static     *)
(* method, which nothing guards.                                           *)
LeavesNoOrphans ==
  /\ BaseFirst
  /\ \A p \in Plain : Family(p[1]) = {p[1]}
  /\ \A p \in Cascaded : \A d \in Family(p[1]) \ {p[1]} : Family(d) = {d}
KeepsItsStatics ==
  /\ \A p \in Plain : "static" \in Declares[p[1]] => p[2] = p[1]
  /\ \A p \in Cascaded : \A d \in Family(p[1]) : "static" \in Declares[d] => p[2] = d

(* "control never branches into the destroyed code" (the guide,            *)
(* 10-metaprogramming-and-prefixes.md:466): whatever is made, deleted,     *)
(* called, unimported and reimported, in any order, no step runs into a    *)
(* trap.                                                                   *)
NeverInDestroyedCode == ~lost

(* A class is taken away whole and comes back whole, and only while none   *)
(* of its objects, or of those that extend it, lives: what the flag says   *)
(* is true of its count, its table and its code.                           *)
WholeOrGone ==
  \A c \in Unimportable :
    /\ instances[c] = Cardinality({o \in Objects : object[o] # None /\ c \in Chain[object[o]]})
    /\ IF alive[c] THEN c \notin poisoned /\ Functions(c) \cap ripped = {}
                   ELSE c \in poisoned /\ instances[c] = 0
=============================================================================
