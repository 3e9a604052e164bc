--------------------------- MODULE UnimportProofs ---------------------------
(* Proofs about Unimport, for any classes, any statements and any number   *)
(* of objects: of a program whose statements leave no class without what   *)
(* it extends and no static method without its code, no step runs into a   *)
(* trap, and a class goes and comes back whole.                            *)
EXTENDS Unimport, FiniteSetTheorems, TLAPS

\* What is asked of a program besides its shape.
CarefulProgram == UnimportAssumption /\ LeavesNoOrphans /\ KeepsItsStatics

\* The objects that c is counted for.
Those(c) == {o \in Objects : object[o] # None /\ c \in Chain[object[o]]}

\* What no statement names is left alone.
RestUntouched == \A c \in Classes \ Unimportable : c \notin poisoned /\ Functions(c) \cap ripped = {}

\* What is there has what it extends.
BasesThere == \A c \in Classes : Guarded(c) => Super[c] = None \/ Guarded(Super[c])

\* The code of static methods stays, and the method that runs is one.
StaticsStay == /\ \A c \in Classes : "static" \in Declares[c] => Functions(c) \cap ripped = {}
               /\ inside # None => "static" \in Declares[inside]

ImportInv == /\ ImportTypeOK /\ NeverInDestroyedCode /\ WholeOrGone
             /\ RestUntouched /\ BasesThere /\ StaticsStay
-----------------------------------------------------------------------------
(* The classes that a class extends.                                       *)

\* A class is in its chain, which has what its classes extend.
LEMMA ChainIsUpward ==
  ASSUME UnimportAssumption, NEW c \in Classes
  PROVE  c \in Chain[c] /\ Chain[c] \in Upward /\ Chain[c] \subseteq Classes
<1>1. Chain[c] = {d \in Classes : \A up \in Upward : c \in up => d \in up}
  BY DEF Chain
<1>2. ASSUME NEW e \in Chain[c], Super[e] # None PROVE Super[e] \in Chain[c]
  <2>1. e \in Classes /\ Super[e] \in Classes
    BY <1>1, <1>2 DEF UnimportAssumption
  <2>2. ASSUME NEW up \in Upward, c \in up PROVE Super[e] \in up
    <3>1. e \in up
      BY <1>1, <2>2
    <3> QED
      BY <3>1, <1>2, <2>2 DEF Upward
  <2> QED
    BY <1>1, <2>1, <2>2
<1>3. Chain[c] \subseteq Classes /\ c \in Chain[c]
  BY <1>1
<1> QED
  BY <1>2, <1>3 DEF Upward

\* A set with a class and with what its classes extend has the whole chain.
LEMMA ChainIsLeast ==
  ASSUME UnimportAssumption, NEW c \in Classes, NEW up \in Upward, c \in up
  PROVE  Chain[c] \subseteq up
BY DEF Chain

\* The chain of what is in a chain is part of it.
LEMMA ChainsNest ==
  ASSUME UnimportAssumption, NEW c \in Classes, NEW d \in Chain[c]
  PROVE  d \in Classes /\ Chain[d] \subseteq Chain[c]
BY ChainIsUpward, ChainIsLeast

\* A chain is the class and the chain of what it extends.
LEMMA ChainGoesOn ==
  ASSUME UnimportAssumption, NEW c \in Classes, Super[c] # None
  PROVE  Super[c] \in Chain[c] /\ Chain[c] \subseteq {c} \cup Chain[Super[c]]
<1>1. Super[c] \in Classes
  BY DEF UnimportAssumption
<1>2. Super[c] \in Chain[c]
  BY ChainIsUpward DEF Upward
<1> DEFINE up == {c} \cup Chain[Super[c]]
<1>3. up \in SUBSET Classes
  BY <1>1, ChainIsUpward
<1>4. ASSUME NEW e \in up PROVE Super[e] \in up \cup {None}
  <2>1. CASE e = c
    BY <2>1, <1>1, ChainIsUpward
  <2>2. CASE e \in Chain[Super[c]]
    BY <2>2, <1>1, ChainIsUpward DEF Upward
  <2> QED
    BY <2>1, <2>2
<1>5. up \in Upward
  BY <1>3, <1>4 DEF Upward
<1> QED
  BY <1>2, <1>5, ChainIsLeast

\* A method that a class has or inherits is found in its chain: at the
\* nearest of the classes that declare it.
LEMMA ImplementationIs ==
  ASSUME UnimportAssumption, NEW c \in Classes, NEW n, Declaring(c, n) # {}
  PROVE  \E d \in Declaring(c, n) : Implementation(c, n) = <<d, n>>
<1> DEFINE D == Declaring(c, n)
           S == {x \in Chain[c] : D \subseteq Chain[x]}
<1>1. D \subseteq Chain[c] /\ Chain[c] \subseteq Classes /\ c \in Chain[c]
  BY ChainIsUpward DEF Declaring
<1>2. \E d \in D : D \subseteq Chain[d]
  <2> SUFFICES ASSUME \A d \in D : ~(D \subseteq Chain[d]) PROVE FALSE
    OBVIOUS
  <2>1. ASSUME NEW x \in S, Super[x] # None PROVE Super[x] \in S
    <3>1. x \in Classes /\ x \in Chain[c] /\ D \subseteq Chain[x] /\ x \notin D
      BY <1>1
    <3>2. Super[x] \in Chain[x] /\ Chain[x] \subseteq {x} \cup Chain[Super[x]]
      BY <2>1, <3>1, ChainGoesOn
    <3>3. Super[x] \in Chain[c]
      BY <3>1, <3>2, ChainsNest
    <3>4. D \subseteq Chain[Super[x]]
      BY <3>1, <3>2
    <3> QED
      BY <3>3, <3>4
  <2>2. S \in Upward /\ c \in S
    <3>1. S \subseteq Classes /\ c \in S
      BY <1>1
    <3> HIDE DEF S
    <3> QED
      BY <3>1, <2>1 DEF Upward
  <2>3. Chain[c] \subseteq S
    <3> HIDE DEF S
    <3> QED
      BY <2>2, ChainIsLeast
  <2> QED
    BY <1>1, <2>3
<1> QED
  BY <1>2 DEF Implementation
-----------------------------------------------------------------------------
(* What the invariant says of the code that a step comes to.               *)

\* What the guard lets pass has its code, and what it extends too.
LEMMA GuardedHasCode ==
  ASSUME CarefulProgram, ImportInv, NEW c \in Classes, Guarded(c), NEW d \in Chain[c]
  PROVE  d \in Classes /\ Guarded(d) /\ Functions(d) \cap ripped = {}
<1> DEFINE up == {e \in Classes : Guarded(e)}
<1>0. UnimportAssumption
  BY DEF CarefulProgram
<1>1. ASSUME NEW e \in up PROVE Super[e] \in up \cup {None}
  BY <1>0 DEF ImportInv, BasesThere, UnimportAssumption
<1>2. up \in Upward /\ c \in up
  <2>1. up \subseteq Classes /\ c \in up
    OBVIOUS
  <2> HIDE DEF up
  <2> QED
    BY <1>1, <2>1 DEF Upward
<1>3. d \in up
  <2> HIDE DEF up
  <2> QED
    BY <1>0, <1>2, ChainIsLeast
<1>4. CASE d \in Unimportable
  BY <1>3, <1>4 DEF Guarded, ImportInv, WholeOrGone
<1>5. CASE d \notin Unimportable
  BY <1>3, <1>5 DEF ImportInv, RestUntouched
<1> QED
  BY <1>3, <1>4, <1>5

\* The objects a class is counted for are finitely many.
LEMMA ThoseFinite == ASSUME UnimportAssumption, NEW c PROVE IsFiniteSet(Those(c))
<1>1. Those(c) \subseteq Objects
  BY DEF Those
<1> QED
  BY <1>1, FS_Subset DEF UnimportAssumption

\* A class that is counted for none has no object, and one that has an
\* object is there.
LEMMA CountIs ==
  ASSUME CarefulProgram, ImportInv, NEW c \in Unimportable
  PROVE  /\ instances[c] = Cardinality(Those(c)) /\ instances[c] \in Nat
         /\ instances[c] = 0 <=> Those(c) = {}
         /\ Those(c) # {} => alive[c]
<1>1. instances[c] = Cardinality(Those(c))
  BY DEF ImportInv, WholeOrGone, Those
<1>2. IsFiniteSet(Those(c))
  BY ThoseFinite DEF CarefulProgram
<1>3. Cardinality(Those(c)) \in Nat /\ (Cardinality(Those(c)) = 0 <=> Those(c) = {})
  BY <1>2, FS_CardinalityType, FS_EmptySet
<1>4. ~alive[c] => instances[c] = 0
  BY DEF ImportInv, WholeOrGone
<1> QED
  BY <1>1, <1>3, <1>4

\* The class of an object is there.
LEMMA OwnClassThere ==
  ASSUME CarefulProgram, ImportInv, NEW o \in Objects, object[o] # None
  PROVE  object[o] \in Classes /\ Guarded(object[o])
<1>1. object[o] \in Classes
  BY DEF ImportInv, ImportTypeOK
<1>2. object[o] \in Chain[object[o]]
  BY <1>1, ChainIsUpward DEF CarefulProgram
<1>3. o \in Those(object[o])
  BY <1>2 DEF Those
<1> QED
  BY <1>1, <1>3, CountIs DEF Guarded

\* What is unimported has no object, nor has what extends it.
LEMMA FamilyIdle ==
  ASSUME CarefulProgram, ImportInv, NEW c \in Classes, NEW from, <<c, from>> \in Cascaded, ~Busy(c)
  PROVE  /\ Family(c) \subseteq Unimportable /\ Family(c) \subseteq Classes
         /\ \A d \in Family(c) : ~Busy(d)
<1>0. UnimportAssumption
  BY DEF CarefulProgram
<1>1. Family(c) \subseteq Classes
  BY DEF Family
<1>2. Family(c) \subseteq Unimportable
  <2>1. \E p \in Cascaded : p[1] = c
    <3>1. <<c, from>>[1] = c
      OBVIOUS
    <3> QED
      BY <3>1
  <2> QED
    BY <2>1 DEF Unimportable
<1>3. c \in Family(c)
  BY DEF Family
<1>4. Those(c) = {}
  BY <1>2, <1>3, CountIs DEF Busy
<1>5. ASSUME NEW d \in Family(c) PROVE Those(d) = {}
  <2>1. CASE d = c
    BY <2>1, <1>4
  <2>2. CASE Super[d] = c
    <3>1. d \in Classes /\ c # None
      BY <1>0, <1>1, <1>5 DEF UnimportAssumption
    <3>2. c \in Chain[d]
      BY <1>0, <2>2, <3>1, ChainGoesOn
    <3>3. ASSUME NEW o \in Those(d) PROVE FALSE
      <4>1. o \in Objects /\ object[o] # None /\ d \in Chain[object[o]] /\ object[o] \in Classes
        BY <3>3 DEF Those, ImportInv, ImportTypeOK
      <4>2. Chain[d] \subseteq Chain[object[o]]
        BY <1>0, <4>1, ChainsNest
      <4>3. o \in Those(c)
        BY <4>1, <4>2, <3>2 DEF Those
      <4> QED
        BY <4>3, <1>4
    <3> QED
      BY <3>3
  <2> QED
    BY <1>5, <2>1, <2>2 DEF Family
<1> QED
  BY <1>1, <1>2, <1>5, CountIs DEF Busy
LEMMA UnimportableAre == ASSUME UnimportAssumption PROVE Unimportable \subseteq Classes
<1>1. \A p \in Plain \cup Cascaded : p[1] \in Classes
  BY DEF UnimportAssumption
<1>2. \A c \in Classes : Family(c) \subseteq Classes
  BY DEF Family
<1> QED
  BY <1>1, <1>2 DEF Unimportable

\* A step that moves control, into code that is there.
LEMMA ControlMoves ==
  ASSUME ImportInv, lost' = FALSE, UNCHANGED <<alive, instances, poisoned, ripped, object>>,
         inside' \in Classes \cup {None}, inside' # None => "static" \in Declares[inside']
  PROVE  ImportInv'
<1>1. ImportTypeOK' /\ NeverInDestroyedCode'
  BY DEF ImportInv, ImportTypeOK, NeverInDestroyedCode, Functions
<1>2. WholeOrGone' /\ RestUntouched'
  BY DEF ImportInv, WholeOrGone, RestUntouched, Functions
<1>3. BasesThere' /\ StaticsStay'
  BY DEF ImportInv, BasesThere, Guarded, StaticsStay, Functions
<1> QED
  BY <1>1, <1>2, <1>3 DEF ImportInv

LEMMA OnlyControlMoves ==
  ASSUME ImportInv, lost' = FALSE, UNCHANGED <<alive, instances, poisoned, ripped, object, inside>>
  PROVE  ImportInv'
BY ControlMoves DEF ImportInv, ImportTypeOK, StaticsStay

\* A step that makes or deletes an object, when the counts follow.
LEMMA CodeUntouched ==
  ASSUME ImportInv, UNCHANGED <<alive, poisoned, ripped, inside>>, lost' = FALSE, ImportTypeOK',
         \A k \in Unimportable : /\ instances'[k] = Cardinality(Those(k)')
                                 /\ ~alive[k] => instances'[k] = 0
  PROVE  ImportInv'
<1>1. NeverInDestroyedCode' /\ RestUntouched'
  BY DEF ImportInv, NeverInDestroyedCode, RestUntouched, Functions
<1>2. BasesThere' /\ StaticsStay'
  BY DEF ImportInv, BasesThere, Guarded, StaticsStay, Functions
<1>3. WholeOrGone'
  BY DEF ImportInv, WholeOrGone, Those, Functions
<1> QED
  BY <1>1, <1>2, <1>3 DEF ImportInv
-----------------------------------------------------------------------------
LEMMA ImportInitInv == ASSUME CarefulProgram, ImportInit PROVE ImportInv
<1>0. UnimportAssumption
  BY DEF CarefulProgram
<1>1. ImportTypeOK
  <2>1. alive \in [Classes -> BOOLEAN] /\ instances \in [Classes -> Int]
    BY DEF ImportInit
  <2>2. poisoned \subseteq Classes /\ ripped \subseteq UNION {Functions(c) : c \in Classes}
    BY DEF ImportInit
  <2>3. object \in [Objects -> Classes \cup {None}]
    BY DEF ImportInit
  <2>4. inside \in Classes \cup {None} /\ lost \in BOOLEAN
    BY DEF ImportInit
  <2> QED
    BY <2>1, <2>2, <2>3, <2>4 DEF ImportTypeOK
<1>2. NeverInDestroyedCode /\ RestUntouched /\ StaticsStay
  BY DEF ImportInit, NeverInDestroyedCode, RestUntouched, StaticsStay
<1>3. Unimportable \subseteq Classes
  BY <1>0, UnimportableAre
<1>4. \A c \in Classes : Guarded(c)
  BY DEF Guarded, ImportInit
<1>5. BasesThere
  BY <1>0, <1>4 DEF BasesThere, UnimportAssumption
<1>6. ASSUME NEW c \in Unimportable
      PROVE  /\ instances[c] = Cardinality({o \in Objects : object[o] # None /\ c \in Chain[object[o]]})
             /\ alive[c] /\ c \notin poisoned /\ Functions(c) \cap ripped = {}
  <2>1. {o \in Objects : object[o] # None /\ c \in Chain[object[o]]} = {}
    BY DEF ImportInit
  <2> QED
    BY <2>1, <1>3, FS_EmptySet DEF ImportInit
<1>7. WholeOrGone
  BY <1>6 DEF WholeOrGone
<1> QED
  BY <1>1, <1>2, <1>5, <1>7 DEF ImportInv
-----------------------------------------------------------------------------
(* Each step keeps it.                                                     *)

\* What has its code is not come to in vain.
LEMMA EntersSafely ==
  ASSUME NEW fs, fs \cap ripped = {}, Enters(fs) PROVE lost' = FALSE
BY DEF Enters

\* A new object.
LEMMA ImportNewKeeps ==
  ASSUME CarefulProgram, ImportInv, NEW o \in Objects, NEW c \in Classes, New(o, c)
  PROVE  ImportInv'
<1>0. UnimportAssumption /\ UNCHANGED <<alive, poisoned, ripped, inside>>
  BY DEF CarefulProgram, New
<1>1. object' = [object EXCEPT ![o] = c] /\ object[o] = None /\ c # None
  BY <1>0 DEF New, UnimportAssumption
<1>2. lost' = FALSE
  <2> DEFINE fs == {<<k, "new">> : k \in Chain[c]}
  <2>1. ASSUME NEW k \in Chain[c] PROVE <<k, "new">> \notin ripped
    <3>1. k \in Classes /\ Functions(k) \cap ripped = {}
      BY <2>1, GuardedHasCode DEF New
    <3>2. <<k, "new">> \in Functions(k)
      BY <1>0, <3>1 DEF UnimportAssumption, Functions
    <3> QED
      BY <3>1, <3>2
  <2>2. fs \cap ripped = {} /\ Enters(fs)
    BY <2>1 DEF New
  <2> QED
    BY <2>2, EntersSafely
<1>3. ImportTypeOK'
  <2>1. instances' \in [Classes -> Int]
    BY DEF New, ImportInv, ImportTypeOK
  <2>2. object' \in [Objects -> Classes \cup {None}]
    BY <1>1 DEF ImportInv, ImportTypeOK
  <2> QED
    BY <1>0, <1>2, <2>1, <2>2 DEF ImportInv, ImportTypeOK, Functions
<1>4. Unimportable \subseteq Classes
  BY <1>0, UnimportableAre
<1>5. ASSUME NEW k \in Unimportable
      PROVE  /\ instances'[k] = Cardinality(Those(k)')
             /\ ~alive[k] => instances'[k] = 0
  <2>1. k \in Classes /\ instances[k] = Cardinality(Those(k)) /\ instances[k] \in Nat
    BY <1>4, <1>5, CountIs
  <2>2. o \notin Those(k)
    BY <1>1 DEF Those
  <2>3. CASE k \in Chain[c]
    <3>1. Those(k)' = Those(k) \cup {o}
      BY <1>1, <2>3 DEF Those, ImportInv, ImportTypeOK
    <3>2. Cardinality(Those(k)') = Cardinality(Those(k)) + 1
      BY <1>0, <2>2, <3>1, ThoseFinite, FS_AddElement
    <3>3. instances'[k] = instances[k] + 1
      BY <1>5, <2>1, <2>3 DEF New, Counted
    <3>4. alive[k]
      BY <1>5, <2>3, GuardedHasCode DEF New, Guarded
    <3> QED
      BY <2>1, <3>2, <3>3, <3>4
  <2>4. CASE k \notin Chain[c]
    <3>1. Those(k)' = Those(k)
      BY <1>1, <2>2, <2>4 DEF Those, ImportInv, ImportTypeOK
    <3>2. instances'[k] = instances[k] + 0
      BY <2>1, <2>4 DEF New, Counted
    <3>3. ~alive[k] => instances[k] = 0
      BY <1>5 DEF ImportInv, WholeOrGone
    <3> QED
      BY <2>1, <3>1, <3>2, <3>3
  <2> QED
    BY <2>3, <2>4
<1> QED
  BY <1>0, <1>2, <1>3, <1>5, CodeUntouched

\* An object's end.
LEMMA ImportDeleteKeeps ==
  ASSUME CarefulProgram, ImportInv, NEW o \in Objects, Delete(o)
  PROVE  ImportInv'
<1> DEFINE c == object[o]
<1>0. UnimportAssumption /\ UNCHANGED <<alive, poisoned, ripped, inside>>
  BY DEF CarefulProgram, Delete
<1>1. object' = [object EXCEPT ![o] = None] /\ c \in Classes /\ c # None /\ Guarded(c)
  BY OwnClassThere DEF Delete
<1>2. lost' = FALSE
  <2> DEFINE fs == {<<k, "~">> : k \in Chain[c]}
  <2>1. ASSUME NEW k \in Chain[c] PROVE <<k, "~">> \notin ripped
    <3>1. k \in Classes /\ Functions(k) \cap ripped = {}
      BY <1>1, <2>1, GuardedHasCode
    <3>2. <<k, "~">> \in Functions(k)
      BY <1>0, <3>1 DEF UnimportAssumption, Functions
    <3> QED
      BY <3>1, <3>2
  <2>2. fs \cap ripped = {} /\ Enters(fs)
    BY <2>1 DEF Delete
  <2> QED
    BY <2>2, EntersSafely
<1>3. ImportTypeOK'
  <2>1. instances' \in [Classes -> Int]
    BY DEF Delete, ImportInv, ImportTypeOK
  <2>2. object' \in [Objects -> Classes \cup {None}]
    BY <1>1 DEF ImportInv, ImportTypeOK
  <2> QED
    BY <1>0, <1>2, <2>1, <2>2 DEF ImportInv, ImportTypeOK, Functions
<1>4. Unimportable \subseteq Classes
  BY <1>0, UnimportableAre
<1>5. ASSUME NEW k \in Unimportable
      PROVE  /\ instances'[k] = Cardinality(Those(k)')
             /\ ~alive[k] => instances'[k] = 0
  <2>1. k \in Classes /\ instances[k] = Cardinality(Those(k)) /\ instances[k] \in Nat
    BY <1>4, <1>5, CountIs
  <2>2. o \in Those(k) <=> k \in Chain[c]
    BY <1>1 DEF Those
  <2>3. CASE k \in Chain[c]
    <3>1. Those(k)' = Those(k) \ {o}
      BY <1>1 DEF Those, ImportInv, ImportTypeOK
    <3>2. Cardinality(Those(k)') = Cardinality(Those(k)) - 1
      BY <1>0, <2>2, <2>3, <3>1, ThoseFinite, FS_RemoveElement
    <3>3. instances'[k] = instances[k] - 1
      BY <1>5, <2>1, <2>3 DEF Delete, Counted
    <3>4. alive[k]
      BY <1>5, <2>2, <2>3, CountIs
    <3> QED
      BY <2>1, <3>2, <3>3, <3>4
  <2>4. CASE k \notin Chain[c]
    <3>1. Those(k)' = Those(k)
      BY <1>1, <2>2, <2>4 DEF Those, ImportInv, ImportTypeOK
    <3>2. instances'[k] = instances[k] - 0
      BY <2>1, <2>4 DEF Delete, Counted
    <3>3. ~alive[k] => instances[k] = 0
      BY <1>5 DEF ImportInv, WholeOrGone
    <3> QED
      BY <2>1, <3>1, <3>2, <3>3
  <2> QED
    BY <2>3, <2>4
<1> QED
  BY <1>0, <1>2, <1>3, <1>5, CodeUntouched

\* A method is called through a handle.
LEMMA ImportCallKeeps ==
  ASSUME CarefulProgram, ImportInv, NEW o \in Objects, NEW s \in Classes, NEW n, Call(o, s, n)
  PROVE  ImportInv'
<1> DEFINE c == object[o]
<1>0. UnimportAssumption /\ UNCHANGED <<alive, instances, poisoned, ripped, object, inside>>
  BY DEF CarefulProgram, Call
<1>1. c \in Classes /\ Guarded(c) /\ s \in Chain[c] /\ Guarded(s)
  BY OwnClassThere DEF Call
<1>2. ASSUME NEW k \in Classes, Guarded(k), Declaring(k, n) # {} PROVE Implementation(k, n) \notin ripped
  <2>1. PICK d \in Declaring(k, n) : Implementation(k, n) = <<d, n>>
    BY <1>0, <1>2, ImplementationIs
  <2>2. d \in Chain[k] /\ <<d, n>> \in Functions(d)
    BY DEF Declaring, Functions
  <2>3. Functions(d) \cap ripped = {}
    BY <1>2, <2>2, GuardedHasCode
  <2> QED
    BY <2>1, <2>2, <2>3
<1>3. Declaring(s, n) # {} /\ Declaring(c, n) # {}
  <2>1. Declaring(s, n) # {}
    BY DEF Call
  <2>2. Chain[s] \subseteq Chain[c]
    BY <1>0, <1>1, ChainsNest
  <2> QED
    BY <2>1, <2>2 DEF Declaring
<1>4. lost' = FALSE
  <2>1. \/ Enters({Implementation(c, n)})
        \/ Enters({Implementation(s, n)})
    BY DEF Call
  <2>2. {Implementation(c, n)} \cap ripped = {} /\ {Implementation(s, n)} \cap ripped = {}
    BY <1>1, <1>2, <1>3
  <2> QED
    BY <2>1, <2>2, EntersSafely
<1> QED
  BY <1>0, <1>4, OnlyControlMoves

\* A static method is called.
LEMMA ImportCallStaticKeeps ==
  ASSUME CarefulProgram, ImportInv, NEW c \in Classes, CallStatic(c)
  PROVE  ImportInv'
<1>1. <<c, "static">> \in Functions(c) /\ Functions(c) \cap ripped = {} /\ "static" \in Declares[c]
  BY DEF CallStatic, Functions, ImportInv, StaticsStay
<1>2. {<<c, "static">>} \cap ripped = {} /\ Enters({<<c, "static">>})
  BY <1>1 DEF CallStatic
<1>3. lost' = FALSE
  BY <1>2, EntersSafely
<1> QED
  BY <1>1, <1>3, ControlMoves DEF CallStatic

\* It goes on.
LEMMA ImportGoOnKeeps ==
  ASSUME CarefulProgram, ImportInv, GoOn
  PROVE  ImportInv'
<1>1. inside \in Classes /\ "static" \in Declares[inside]
  BY DEF GoOn, ImportInv, StaticsStay, ImportTypeOK
<1>2. <<inside, "static">> \in Functions(inside) /\ Functions(inside) \cap ripped = {}
  BY <1>1 DEF Functions, ImportInv, StaticsStay
<1>3. {<<inside, "static">>} \cap ripped = {} /\ Enters({<<inside, "static">>})
  BY <1>2 DEF GoOn
<1>4. lost' = FALSE
  BY <1>3, EntersSafely
<1> QED
  BY <1>4, ControlMoves DEF GoOn

\* Classes without objects are taken away, with what extends them.
LEMMA GoneKeeps ==
  ASSUME CarefulProgram, ImportInv, NEW cs \in SUBSET Unimportable, NEW from \in {None, inside},
         Gone(cs, from), \A d \in cs : ~Busy(d),
         \A e \in Classes : Super[e] \in cs => e \in cs,
         \A d \in cs : "static" \in Declares[d] => from = d,
         UNCHANGED <<instances, object, inside, lost>>
  PROVE  ImportInv'
<1>0. UnimportAssumption /\ cs \subseteq Classes
  BY UnimportableAre DEF CarefulProgram
<1>1. /\ alive' = [k \in Classes |-> alive[k] /\ k \notin cs]
      /\ poisoned' = poisoned \cup cs
      /\ ripped' = ripped \cup UNION {Functions(k) : k \in cs \ {from}}
  BY DEF Gone
<1>2. ImportTypeOK'
  <2>1. alive' \in [Classes -> BOOLEAN]
    BY <1>1
  <2>2. poisoned' \subseteq Classes
    BY <1>0, <1>1 DEF ImportInv, ImportTypeOK
  <2>3. ripped' \subseteq UNION {Functions(k) : k \in Classes}
    <3>1. ripped \subseteq UNION {Functions(k) : k \in Classes}
      BY DEF ImportInv, ImportTypeOK
    <3> QED
      BY <1>0, <1>1, <3>1
  <2> QED
    BY <2>1, <2>2, <2>3 DEF ImportInv, ImportTypeOK, Functions
<1>3. NeverInDestroyedCode'
  BY DEF ImportInv, NeverInDestroyedCode
<1>4. ASSUME NEW k \in Classes, k \notin cs \/ k = from PROVE Functions(k) \cap ripped' = Functions(k) \cap ripped
  <2>1. ASSUME NEW d \in cs \ {from} PROVE Functions(k) \cap Functions(d) = {}
    BY <1>4, <2>1 DEF Functions
  <2> QED
    BY <1>1, <2>1
<1>5. WholeOrGone'
  <2> SUFFICES ASSUME NEW k \in Unimportable
               PROVE  /\ instances'[k] = Cardinality(Those(k)')
                      /\ IF alive'[k] THEN k \notin poisoned' /\ Functions(k) \cap ripped' = {}
                                      ELSE k \in poisoned' /\ instances'[k] = 0
    BY DEF WholeOrGone, Those, Functions
  <2>0. k \in Classes /\ (alive'[k] <=> alive[k] /\ k \notin cs)
    BY <1>0, <1>1, UnimportableAre
  <2>1. instances'[k] = Cardinality(Those(k)')
    BY CountIs DEF Those
  <2>2. CASE k \in cs
    <3>1. k \in poisoned' /\ instances'[k] = 0
      BY <1>1, <2>2 DEF Busy
    <3> QED
      BY <2>0, <2>1, <2>2, <3>1
  <2>3. CASE k \notin cs
    BY <1>1, <1>4, <2>0, <2>1, <2>3 DEF ImportInv, WholeOrGone
  <2> QED
    BY <2>2, <2>3
<1>6. RestUntouched'
  <2> SUFFICES ASSUME NEW k \in Classes \ Unimportable
               PROVE  k \notin poisoned' /\ Functions(k) \cap ripped' = {}
    BY DEF RestUntouched, Functions
  <2>1. k \notin cs
    OBVIOUS
  <2> QED
    BY <1>1, <1>4, <2>1 DEF ImportInv, RestUntouched
<1>7. BasesThere'
  <2> SUFFICES ASSUME NEW k \in Classes, Guarded(k)', Super[k] # None PROVE Guarded(Super[k])'
    BY DEF BasesThere
  <2>1. Guarded(k) /\ k \notin cs /\ Super[k] \in Classes
    BY <1>0, <1>1 DEF Guarded, UnimportAssumption
  <2>2. Guarded(Super[k]) /\ Super[k] \notin cs
    BY <2>1 DEF ImportInv, BasesThere
  <2> QED
    BY <1>1, <2>1, <2>2 DEF Guarded
<1>8. StaticsStay'
  <2>1. ASSUME NEW k \in Classes, "static" \in Declares[k] PROVE Functions(k) \cap ripped' = {}
    BY <1>4, <2>1 DEF ImportInv, StaticsStay
  <2>2. inside' # None => "static" \in Declares[inside']
    BY DEF ImportInv, StaticsStay
  <2> QED
    BY <2>1, <2>2 DEF StaticsStay, Functions
<1> QED
  BY <1>2, <1>3, <1>5, <1>6, <1>7, <1>8 DEF ImportInv

LEMMA ImportPlainKeeps ==
  ASSUME CarefulProgram, ImportInv, NEW c \in Classes, NEW from \in Classes \cup {None},
         UnimportPlain(c, from)
  PROVE  ImportInv'
<1>1. <<c, from>> \in Plain /\ from \in {None, inside}
  BY DEF UnimportPlain
<1>2. <<c, from>>[1] = c /\ <<c, from>>[2] = from
  OBVIOUS
<1>3. {c} \in SUBSET Unimportable
  BY <1>1, <1>2 DEF Unimportable
<1>4. \A e \in Classes : Super[e] \in {c} => e \in {c}
  BY <1>1, <1>2 DEF CarefulProgram, LeavesNoOrphans, Family
<1>5. \A d \in {c} : "static" \in Declares[d] => from = d
  BY <1>1, <1>2 DEF CarefulProgram, KeepsItsStatics
<1>6. \A d \in {c} : ~Busy(d)
  BY DEF UnimportPlain
<1> QED
  BY <1>1, <1>3, <1>4, <1>5, <1>6, GoneKeeps DEF UnimportPlain

\* When the class has no object nothing that extends it has: all goes.
LEMMA ImportCascadedKeeps ==
  ASSUME CarefulProgram, ImportInv, NEW c \in Classes, NEW from \in Classes \cup {None},
         UnimportCascaded(c, from)
  PROVE  ImportInv'
<1>1. <<c, from>> \in Cascaded /\ from \in {None, inside} /\ ~Busy(c)
  BY DEF UnimportCascaded
<1>2. <<c, from>>[1] = c /\ <<c, from>>[2] = from
  OBVIOUS
<1>3. Family(c) \subseteq Unimportable /\ \A d \in Family(c) : ~Busy(d)
  BY <1>1, FamilyIdle
<1>4. Gone(Family(c), from)
  <2>1. PICK done \in SUBSET (Family(c) \ {c}) :
               /\ done # Family(c) \ {c} => \E d \in (Family(c) \ {c}) \ done : Busy(d)
               /\ Gone({c} \cup done, from)
    BY DEF UnimportCascaded
  <2>2. done = Family(c) \ {c}
    BY <1>3, <2>1
  <2>3. {c} \cup done = Family(c)
    BY <2>2 DEF Family
  <2> QED
    BY <2>1, <2>3
<1>5. \A e \in Classes : Super[e] \in Family(c) => e \in Family(c)
  <2> SUFFICES ASSUME NEW e \in Classes, Super[e] \in Family(c) PROVE e \in Family(c)
    OBVIOUS
  <2>1. CASE Super[e] = c
    BY <2>1 DEF Family
  <2>2. CASE Super[e] # c
    <3>1. Family(Super[e]) = {Super[e]}
      BY <1>1, <1>2, <2>2 DEF CarefulProgram, LeavesNoOrphans
    <3>2. e \in Family(Super[e])
      BY DEF Family
    <3> QED
      BY <3>1, <3>2
  <2> QED
    BY <2>1, <2>2
<1>6. \A d \in Family(c) : "static" \in Declares[d] => from = d
  BY <1>1, <1>2 DEF CarefulProgram, KeepsItsStatics
<1>7. Family(c) \in SUBSET Unimportable
  BY <1>3
<1> QED
  BY <1>1, <1>3, <1>4, <1>5, <1>6, <1>7, GoneKeeps DEF UnimportCascaded

\* A class comes back to what it extends.
LEMMA ReimportKeeps ==
  ASSUME CarefulProgram, ImportInv, NEW c \in Classes, NEW from \in Classes \cup {None},
         Reimport(c, from)
  PROVE  ImportInv'
<1>0. /\ UnimportAssumption /\ c \in Unimportable /\ from \in {None, inside}
      /\ alive' = [alive EXCEPT ![c] = TRUE] /\ poisoned' = poisoned \ {c}
      /\ ripped' = IF c = from THEN ripped ELSE ripped \ Functions(c)
      /\ UNCHANGED <<instances, object, inside, lost>>
  BY DEF Reimport, CarefulProgram
<1>1. Functions(c) \cap ripped' = {} /\ ripped' \subseteq ripped
  <2>1. CASE c = from
    <3>1. c = inside /\ c # None
      BY <1>0, <2>1 DEF UnimportAssumption
    <3> QED
      BY <1>0, <2>1, <3>1 DEF ImportInv, StaticsStay
  <2>2. CASE c # from
    BY <1>0, <2>2
  <2> QED
    BY <2>1, <2>2
<1>2. ImportTypeOK'
  <2>1. alive' \in [Classes -> BOOLEAN]
    BY <1>0 DEF ImportInv, ImportTypeOK
  <2>2. poisoned' \subseteq Classes
    BY <1>0 DEF ImportInv, ImportTypeOK
  <2>3. ripped' \subseteq UNION {Functions(k) : k \in Classes}
    BY <1>1 DEF ImportInv, ImportTypeOK
  <2> QED
    BY <1>0, <2>1, <2>2, <2>3 DEF ImportInv, ImportTypeOK, Functions
<1>3. NeverInDestroyedCode'
  BY <1>0 DEF ImportInv, NeverInDestroyedCode
<1>4. alive'[c] /\ \A k \in Classes : k # c => (alive'[k] <=> alive[k])
  BY <1>0 DEF ImportInv, ImportTypeOK
<1>5. WholeOrGone'
  <2> SUFFICES ASSUME NEW k \in Unimportable
               PROVE  /\ instances'[k] = Cardinality(Those(k)')
                      /\ IF alive'[k] THEN k \notin poisoned' /\ Functions(k) \cap ripped' = {}
                                      ELSE k \in poisoned' /\ instances'[k] = 0
    BY DEF WholeOrGone, Those, Functions
  <2>1. instances'[k] = Cardinality(Those(k)')
    BY <1>0, CountIs DEF Those
  <2>2. CASE k = c
    BY <1>0, <1>1, <1>4, <2>1, <2>2
  <2>3. CASE k # c
    <3>1. k \in Classes
      BY <1>0, UnimportableAre
    <3>2. IF alive[k] THEN k \notin poisoned /\ Functions(k) \cap ripped = {}
                      ELSE k \in poisoned /\ instances[k] = 0
      BY DEF ImportInv, WholeOrGone
    <3> QED
      BY <1>0, <1>1, <1>4, <2>1, <2>3, <3>1, <3>2
  <2> QED
    BY <2>2, <2>3
<1>6. RestUntouched'
  <2> SUFFICES ASSUME NEW k \in Classes \ Unimportable
               PROVE  k \notin poisoned' /\ Functions(k) \cap ripped' = {}
    BY DEF RestUntouched, Functions
  <2>1. k \notin poisoned /\ Functions(k) \cap ripped = {}
    BY DEF ImportInv, RestUntouched
  <2> QED
    BY <1>0, <1>1, <2>1
<1>7. BasesThere'
  <2> SUFFICES ASSUME NEW k \in Classes, Guarded(k)', Super[k] # None PROVE Guarded(Super[k])'
    BY DEF BasesThere
  <2>1. Super[k] \in Classes
    BY <1>0 DEF UnimportAssumption
  <2>2. ASSUME NEW d \in Classes PROVE Guarded(d)' <=> d = c \/ Guarded(d)
    BY <1>0, <1>4 DEF Guarded
  <2>3. CASE k = c
    <3>1. alive[Super[c]]
      BY <2>3 DEF Reimport, CarefulProgram, LeavesNoOrphans
    <3> QED
      BY <2>1, <2>2, <2>3, <3>1 DEF Guarded
  <2>4. CASE k # c
    BY <2>1, <2>2, <2>4 DEF ImportInv, BasesThere
  <2> QED
    BY <2>3, <2>4
<1>8. StaticsStay'
  <2>1. ASSUME NEW k \in Classes, "static" \in Declares[k] PROVE Functions(k) \cap ripped' = {}
    BY <1>1, <2>1 DEF ImportInv, StaticsStay
  <2>2. inside' # None => "static" \in Declares[inside']
    BY <1>0 DEF ImportInv, StaticsStay
  <2> QED
    BY <2>1, <2>2 DEF StaticsStay, Functions
<1> QED
  BY <1>2, <1>3, <1>5, <1>6, <1>7, <1>8 DEF ImportInv

LEMMA ImportStepKeeps ==
  ASSUME CarefulProgram, ImportInv, [ImportNext]_importVars PROVE ImportInv'
<1>1. CASE UNCHANGED importVars
  <2>1. lost = FALSE
    BY DEF ImportInv, ImportTypeOK, NeverInDestroyedCode
  <2>2. lost' = FALSE /\ UNCHANGED <<alive, instances, poisoned, ripped, object, inside>>
    BY <1>1, <2>1 DEF importVars
  <2> QED
    BY <2>2, OnlyControlMoves
<1>2. CASE ImportNext
  <2>1. ASSUME NEW o \in Objects, NEW c \in Classes, New(o, c) PROVE ImportInv'
    BY <2>1, ImportNewKeeps
  <2>2. ASSUME NEW o \in Objects, Delete(o) PROVE ImportInv'
    BY <2>2, ImportDeleteKeeps
  <2>3. ASSUME NEW o \in Objects, NEW s \in Classes, NEW n, Call(o, s, n) PROVE ImportInv'
    BY <2>3, ImportCallKeeps
  <2>4. ASSUME NEW c \in Classes, CallStatic(c) PROVE ImportInv'
    BY <2>4, ImportCallStaticKeeps
  <2>5. CASE GoOn
    BY <2>5, ImportGoOnKeeps
  <2>6. ASSUME NEW c \in Classes, NEW from \in Classes \cup {None},
               UnimportPlain(c, from) \/ UnimportCascaded(c, from) \/ Reimport(c, from)
        PROVE  ImportInv'
    BY <2>6, ImportPlainKeeps, ImportCascadedKeeps, ReimportKeeps
  <2> QED
    BY <1>2, <2>1, <2>2, <2>3, <2>4, <2>5, <2>6 DEF ImportNext
<1> QED
  BY <1>1, <1>2

LEMMA ImportInvariance == ASSUME CarefulProgram PROVE ImportSpec => []ImportInv
<1>1. ImportInit => ImportInv
  BY ImportInitInv
<1>2. ImportInv /\ [ImportNext]_importVars => ImportInv'
  BY ImportStepKeeps
<1> QED
  BY <1>1, <1>2, PTL DEF ImportSpec

(* Of any classes and any statements of a program that leaves no class      *)
(* without what it extends and no static method without its code: whatever *)
(* is made, deleted, called, unimported and reimported, no step runs into   *)
(* overwritten code, and a class is there whole or gone whole.              *)
THEOREM ClassesGoWhole ==
  ASSUME UnimportAssumption, LeavesNoOrphans, KeepsItsStatics
  PROVE  ImportSpec => [](ImportTypeOK /\ NeverInDestroyedCode /\ WholeOrGone)
<1>1. CarefulProgram
  BY DEF CarefulProgram
<1>2. ImportInv => ImportTypeOK /\ NeverInDestroyedCode /\ WholeOrGone
  BY DEF ImportInv
<1> QED
  BY <1>1, <1>2, ImportInvariance, PTL
=============================================================================
