----------------------------- MODULE SearchTree ------------------------------
(* TreeMap of Collections.pol, and TreeSet, which has the same tree         *)
(* without values: a search tree that balances itself on the way back from *)
(* an insertion.  Nothing is ever removed.  A node is a tuple of its key,  *)
(* value, stored height and subtrees.                                      *)
(*                                                                         *)
(* An operator X_m or X_n is a plausible mistake in X, not part of the     *)
(* model.                                                                  *)
EXTENDS Integers, FiniteSets, FiniteSetsExt

CONSTANTS Keys,  \* numbers, which compareTo compares
          Values

TreeAssumption == Keys \subseteq Nat

VARIABLES root, size

treeVars == <<root, size>>

Null == << >>
Node(k, v, h, l, r) == <<k, v, h, l, r>>
KeyOf(n) == n[1]
ValueOf(n) == n[2]
Height(n) == IF n = Null THEN 0 ELSE n[3]
Left(n) == n[4]
Right(n) == n[5]

TreeInit == root = Null /\ size = 0

\* fixHeight, of a node with these subtrees.
Joined(n, l, r) ==
  Node(KeyOf(n), ValueOf(n), 1 + (IF Height(l) > Height(r) THEN Height(l) ELSE Height(r)), l, r)
Balance(n) == Height(Left(n)) - Height(Right(n))

\* Mutant: the node that went down keeps the height it had.
RotateRight_m(y) ==
  LET x == Left(y)
  IN  Joined(x, Left(x), Node(KeyOf(y), ValueOf(y), Height(y), Right(x), Right(y)))

RotateRight(y) == LET x == Left(y) IN Joined(x, Left(x), Joined(y, Right(x), Right(y)))
RotateLeft(x) == LET y == Right(x) IN Joined(y, Joined(x, Left(x), Left(y)), Right(y))

\* Mutant: a child that leans the other way is not turned first.
Rebalanced_m(n) ==
  IF Balance(n) > 1 THEN RotateRight(n) ELSE IF Balance(n) < -1 THEN RotateLeft(n) ELSE n

Rebalanced(n) ==
  IF Balance(n) > 1
  THEN RotateRight(IF Balance(Left(n)) < 0 THEN Joined(n, RotateLeft(Left(n)), Right(n)) ELSE n)
  ELSE IF Balance(n) < -1
  THEN RotateLeft(IF Balance(Right(n)) > 0 THEN Joined(n, Left(n), RotateRight(Right(n))) ELSE n)
  ELSE n

RECURSIVE Inserted(_, _, _)
Inserted(n, k, v) ==
  IF n = Null THEN Node(k, v, 1, Null, Null)
  ELSE IF k = KeyOf(n) THEN Node(k, v, Height(n), Left(n), Right(n))
  ELSE IF k < KeyOf(n) THEN Rebalanced(Joined(n, Inserted(Left(n), k, v), Right(n)))
  ELSE Rebalanced(Joined(n, Left(n), Inserted(Right(n), k, v)))

RECURSIVE Find(_, _)
Find(n, k) == IF n = Null \/ k = KeyOf(n) THEN n
              ELSE Find(IF k < KeyOf(n) THEN Left(n) ELSE Right(n), k)

Put(k, v) == /\ root' = Inserted(root, k, v)
             /\ size' = IF Find(root, k) = Null THEN size + 1 ELSE size

TreeNext == \E k \in Keys, v \in Values : Put(k, v)
TreeSpec == TreeInit /\ [][TreeNext]_treeVars
-----------------------------------------------------------------------------
\* floorKey and lowerKey, ceilingKey and higherKey: the last node passed on
\* the one side of k; NoKey for the zero they return when there is none.
NoKey == -1

RECURSIVE Below(_, _, _, _)
Below(n, k, orIt, best) ==
  IF n = Null THEN best
  ELSE IF orIt /\ k = KeyOf(n) THEN k
  ELSE IF k > KeyOf(n) THEN Below(Right(n), k, orIt, KeyOf(n))
  ELSE Below(Left(n), k, orIt, best)

\* Mutant: the best node is the last one passed on either side.
RECURSIVE Above_m(_, _, _, _)
Above_m(n, k, orIt, best) ==
  IF n = Null THEN best
  ELSE IF orIt /\ k = KeyOf(n) THEN k
  ELSE IF k < KeyOf(n) THEN Above_m(Left(n), k, orIt, KeyOf(n))
  ELSE Above_m(Right(n), k, orIt, KeyOf(n))

RECURSIVE Above(_, _, _, _)
Above(n, k, orIt, best) ==
  IF n = Null THEN best
  ELSE IF orIt /\ k = KeyOf(n) THEN k
  ELSE IF k < KeyOf(n) THEN Above(Left(n), k, orIt, KeyOf(n))
  ELSE Above(Right(n), k, orIt, best)

FloorKey(k) == Below(root, k, TRUE, NoKey)
LowerKey(k) == Below(root, k, FALSE, NoKey)
CeilingKey(k) == Above(root, k, TRUE, NoKey)
HigherKey(k) == Above(root, k, FALSE, NoKey)
-----------------------------------------------------------------------------
Here == {k \in Keys : Find(root, k) # Null}

RECURSIVE Nodes(_)
Nodes(n) == IF n = Null THEN {} ELSE {n} \cup Nodes(Left(n)) \cup Nodes(Right(n))
KeysOf(n) == {KeyOf(x) : x \in Nodes(n)}

(* Whatever the order of the keys, every node stores its height, no two    *)
(* subtrees of one differ by more than a level, the left keys are smaller  *)
(* and the right ones greater, and the count is that of the nodes.         *)
StaysBalanced ==
  /\ size = Cardinality(Nodes(root)) /\ KeysOf(root) \subseteq Keys
  /\ \A n \in Nodes(root) :
       /\ Height(n) = 1 + Max({Height(Left(n)), Height(Right(n))}) /\ Balance(n) \in -1..1
       /\ \A k \in KeysOf(Left(n)) : k < KeyOf(n)
       /\ \A k \in KeysOf(Right(n)) : k > KeyOf(n)

(* The neighbours of any key, there or not, are those of the set of keys.  *)
NeighboursRight ==
  \A k \in Keys :
    LET Least(S) == IF S = {} THEN NoKey ELSE Min(S)
        Greatest(S) == IF S = {} THEN NoKey ELSE Max(S)
    IN  /\ FloorKey(k) = Greatest({x \in Here : x <= k})
        /\ LowerKey(k) = Greatest({x \in Here : x < k})
        /\ CeilingKey(k) = Least({x \in Here : x >= k})
        /\ HigherKey(k) = Least({x \in Here : x > k})

\* It answers as a Dictionary would from which nothing is removed.
Map == INSTANCE Dictionary WITH entries <- [k \in Here |-> ValueOf(Find(root, k))]
ImplementsDictionary == Map!Spec
=============================================================================
