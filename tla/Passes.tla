------------------------------- MODULE Passes --------------------------------
(* Three passes of passes.cpp over a program in PIR: which checks go, which *)
(* objects get a place in a frame, which calls become direct and which     *)
(* functions keep their bodies.  What they decide is all there is here:    *)
(* PirRun runs a program next to it.                                       *)
(*                                                                         *)
(* The operators whose names end in _m are mutations, no part of it.       *)
EXTENDS Integers, Sequences, SequencesExt, FiniteSets

(* The compiler's intermediate representation, cut down to what the passes *)
(* look at, with the three tables they share: predecessors, dominators,    *)
(* and where a value was loaded from.                                      *)
(*                                                                         *)
(* A function is [params, blocks]; a block is [insts, succs, cond, ret]: a *)
(* block of two successors goes to the first when the value cond is true,  *)
(* whichever it likes when cond is NoValue; one of none returns ret.  A    *)
(* value is a number, as is the slot of a local: the result of its alloca. *)

NoValue == 0

\* Op, n times over.
Iterate(Grow(_), x, n) == LET turn[i \in 0..n] == IF i = 0 THEN x ELSE Grow(turn[i - 1]) IN turn[n]

Inst(op, res, args) == [op |-> op, res |-> res, args |-> args, heap |-> FALSE, text |-> "", slot |-> 1]

Blocks(fn) == DOMAIN fn.blocks
Positions(fn) == {<<b, k>> \in Blocks(fn) \X (1..8) : k \in DOMAIN fn.blocks[b].insts}
At(fn, pos) == fn.blocks[pos[1]].insts[pos[2]]
Insts(fn) == {At(fn, pos) : pos \in Positions(fn)}

Defs(fn, v) == {in \in Insts(fn) : in.res = v /\ v # NoValue}
Op(fn, v) == IF Defs(fn, v) = {} THEN "none" ELSE (CHOOSE in \in Defs(fn, v) : TRUE).op
Operand(fn, v, i) == (CHOOSE in \in Defs(fn, v) : TRUE).args[i]

\* The edges that lead to a block: a branch with both its edges there is two.
EdgesTo(fn, b) == {e \in Blocks(fn) \X (1..2) : e[2] \in DOMAIN fn.blocks[e[1]].succs
                                               /\ fn.blocks[e[1]].succs[e[2]] = b}
Preds(fn, b) == {e[1] : e \in EdgesTo(fn, b)}

(* The pairs <<d, b>> of a block d that is on every way to b: all of them  *)
(* to begin with, down to the fixed point.                                 *)
Dominators(fn) ==
  LET Pairs == Blocks(fn) \X Blocks(fn)
      Round(dom) == {pair \in Pairs : LET d == pair[1] b == pair[2] IN
                       \/ d = b
                       \/ b # 1 /\ Preds(fn, b) # {} /\ \A p \in Preds(fn, b) : <<d, p>> \in dom}
  IN Iterate(Round, {pair \in Pairs : pair[2] = 1 => pair[1] = 1}, Len(fn.blocks) * Len(fn.blocks))

(* Two loads of one slot are two values, and a change of width makes a     *)
(* third; what they have in common is the slot.                            *)
Origin(fn, v) ==
  LET Narrower(w) == IF Op(fn, w) = "convert" THEN Operand(fn, w, 1) ELSE w
      from == Iterate(Narrower, v, 3)
  IN IF Op(fn, from) = "load" THEN Operand(fn, from, 1) ELSE from
-----------------------------------------------------------------------------
(* eliminateGuards: a run-time check is taken out where the same check was *)
(* made, or a branch or a contract has proved it, on every way that leads  *)
(* there.  A fact is named by the slots its values were loaded from.       *)

IsGuard(in) == in.op \in {"guard.bounds", "guard.divisor"}

Key(fn, in) == <<in.op>> \o [i \in DOMAIN in.args |-> Origin(fn, in.args[i])]

(* A condition that is true proves index < length: the comparison may be   *)
(* written either way round, with a change of width before the length.     *)
ProvenBy(fn, cond) ==
  LET sides == CASE Op(fn, cond) = "less" -> <<1, 2>>
                 [] Op(fn, cond) = "greater" -> <<2, 1>>
                 [] OTHER -> <<>>
      wide == Operand(fn, cond, sides[2])
      length == IF Op(fn, wide) = "convert" THEN Operand(fn, wide, 1) ELSE wide
  IN IF sides = <<>> \/ Op(fn, length) # "length" THEN {}
     ELSE {<<"guard.bounds", Origin(fn, Operand(fn, cond, sides[1])),
                             Origin(fn, Operand(fn, length, 1))>>}

\* What is checked somewhere in a block.
Established(fn, b) ==
  UNION {CASE IsGuard(in) -> {Key(fn, in)}
           [] in.op = "guard.contract" -> ProvenBy(fn, in.args[1])
           [] OTHER -> {} : in \in ToSet(fn.blocks[b].insts)}

Proven_m(fn, b) == UNION {ProvenBy(fn, fn.blocks[e[1]].cond) : e \in EdgesTo(fn, b)}
\* What a branch proved: on its true edge, and if no other edge leads there.
Proven(fn, b) ==
  UNION {ProvenBy(fn, fn.blocks[p].cond) :
           p \in {q \in Preds(fn, b) : /\ EdgesTo(fn, b) = {<<q, 1>>}
                                       /\ Len(fn.blocks[q].succs) = 2}}

\* A block starts with what every block that dominates it has shown.
Holding(fn, b) ==
  LET over == {d \in Blocks(fn) : <<d, b>> \in Dominators(fn) /\ d # b}
  IN Proven(fn, b) \cup UNION {Established(fn, d) \cup Proven(fn, d) : d \in over}

(* Down the block: a store ends the facts that name its slot, a call all   *)
(* of them; a check already made goes, any other is made and remembered.   *)
Walk(fn, b) ==
  LET insts == fn.blocks[b].insts
      Step(s, k) ==
        LET in == insts[k]
            holds == CASE in.op = "store" -> {f \in s.holds : Origin(fn, in.args[2]) \notin
                                                               {f[i] : i \in 2..Len(f)}}
                       [] in.op = "call" -> {}
                       [] OTHER -> s.holds
        IN CASE IsGuard(in) -> [holds |-> holds \cup {Key(fn, in)},
                                gone |-> IF Key(fn, in) \in holds THEN s.gone \cup {<<b, k>>} ELSE s.gone]
             [] in.op = "guard.contract" -> [s EXCEPT !.holds = holds \cup ProvenBy(fn, in.args[1])]
             [] OTHER -> [s EXCEPT !.holds = holds]
      upTo[k \in 0..Len(insts)] == IF k = 0 THEN [holds |-> Holding(fn, b), gone |-> {}]
                                   ELSE Step(upTo[k - 1], k)
  IN upTo[Len(insts)]

EliminateGuards(fn) == UNION {Walk(fn, b).gone : b \in Blocks(fn)}

-----------------------------------------------------------------------------
(* analyseEscapes: an object made on the heap that provably stays in its   *)
(* function is given a place in the frame, by taking the note "heap" off   *)
(* the allocation and off each drop that may be handed it.                 *)

(* A local that is only loaded from and stored to: what is put there has   *)
(* not left the function.                                                  *)
IsPrivateSlot(fn, slot) ==
  /\ \E in \in Defs(fn, slot) : in.op = "alloca" /\ ~in.heap
  /\ \A in \in Insts(fn) : \A i \in DOMAIN in.args :
       in.args[i] = slot => <<in.op, i>> \in {<<"load", 1>>, <<"store", 2>>}
  /\ \A b \in Blocks(fn) : slot \notin {fn.blocks[b].ret, fn.blocks[b].cond}

\* Every value that may be the pointer root, or one into its object.
Reaching(fn, root) ==
  LET Slots(vals) == {in.args[2] : in \in {s \in Insts(fn) :
                        s.op = "store" /\ s.args[1] \in vals /\ IsPrivateSlot(fn, s.args[2])}}
      Grow(vals) == vals \cup {in.res : in \in {d \in Insts(fn) :
                        \/ d.op = "load" /\ d.args[1] \in Slots(vals)
                        \/ d.op = "gep" /\ Last(d.args) \in vals}}
  IN Iterate(Grow, {root}, Cardinality(Positions(fn)))

IsContained_m(fn, in, i, same, safe) ==
  CASE in.op \in {"load", "drop"} -> i = 1
    [] in.op \in {"store", "gep"} -> TRUE
    [] in.op = "call" -> <<in.text, i>> \in safe
    [] OTHER -> FALSE
\* Whether operand i stays in, when it is the pointer.  safe: see SafeParams.
IsContained(fn, in, i, same, safe) ==
  CASE in.op \in {"load", "drop"} -> i = 1
    [] in.op = "store" -> i = 2 \/ IsPrivateSlot(fn, in.args[2])
    [] in.op = "gep" -> TRUE
    [] in.op = "call" -> <<in.text, i>> \in safe
    [] OTHER -> FALSE

Escapes(fn, root, safe) ==
  LET same == Reaching(fn, root)
  IN \/ \E in \in Insts(fn) : \E i \in DOMAIN in.args :
          in.args[i] \in same /\ ~IsContained(fn, in, i, same, safe)
     \/ \E b \in Blocks(fn) : fn.blocks[b].ret \in same \/ fn.blocks[b].cond \in same

DropsOf(fn, root) == {pos \in Positions(fn) : At(fn, pos).op = "drop"
                                              /\ At(fn, pos).args[1] \in Reaching(fn, root)}
Frees_m(fn, root) == FALSE
Frees(fn, root) == DropsOf(fn, root) # {}

(* The pairs <<f, i>> of a parameter that its function neither lets out    *)
(* nor frees.  None to begin with; what one round finds may help the next. *)
SafeParams(prog) ==
  LET Params == UNION {{f} \X DOMAIN prog[f].params : f \in DOMAIN prog}
      Round(safe) == {pair \in Params : LET fn == prog[pair[1]] v == fn.params[pair[2]] IN
                        ~Escapes(fn, v, safe) /\ ~Frees(fn, v)}
  IN Iterate(Round, {}, Cardinality(Params))

InALoop(fn, b) ==
  LET Grow(seen) == seen \cup UNION {ToSet(fn.blocks[s].succs) : s \in seen}
  IN b \in Iterate(Grow, ToSet(fn.blocks[b].succs), Len(fn.blocks))

DiesInItsIteration_m(fn, pos) == TRUE
\* Dropped further down the block it is made in.
DiesInItsIteration(fn, pos) ==
  \E d \in DropsOf(fn, At(fn, pos).res) : d[1] = pos[1] /\ d[2] > pos[2]

\* The allocations of a function that get a place in its frame.
Framed(fn, safe) ==
  {pos \in Positions(fn) :
     /\ At(fn, pos).op = "alloca" /\ At(fn, pos).heap
     /\ ~Escapes(fn, At(fn, pos).res, safe)
     /\ InALoop(fn, pos[1]) => DiesInItsIteration(fn, pos)}

Unnoted_m(fn, safe) == Framed(fn, safe)
\* Where the note is taken off.
Unnoted(fn, safe) == Framed(fn, safe) \cup UNION {DropsOf(fn, At(fn, pos).res) : pos \in Framed(fn, safe)}

-----------------------------------------------------------------------------
(* devirtualise and reachability: a call through a table becomes a call of *)
(* the one body that can answer it, and a function that nothing can reach  *)
(* loses its body.                                                         *)
(*                                                                         *)
(* A program is [fns, classes]; a class is [over, permits, open, const,    *)
(* table, dtor]: what it extends and implements, the subtypes it names     *)
(* when it is sealed, whether other compilations may extend it, whether    *)
(* its table stays as it is, the table ("" where it has no body, empty if  *)
(* the class has none), and its destructor.                                *)

NoBody == ""

Candidates_m(classes, c) == {c} \cup {k \in DOMAIN classes : c \in classes[k].over}
\* Every class that an object seen as a c may be of: down all edges, and what a seal names.
Candidates(classes, c) ==
  LET Grow(seen) == seen \cup {k \in DOMAIN classes : classes[k].over \cap seen # {}}
                         \cup UNION {classes[k].permits : k \in seen \cap DOMAIN classes}
  IN Iterate(Grow, {c}, Cardinality(DOMAIN classes) + 1)

\* The one body they all have for a slot; NoBody if there are two, or any doubt.
SoleImplementation(prog, c, slot) ==
  LET all == Candidates(prog.classes, c)
      shapes == {prog.classes[k] : k \in all \cap DOMAIN prog.classes}
      bodies == {s.table[slot] : s \in {t \in shapes : slot \in DOMAIN t.table}} \ {NoBody}
  IN IF /\ all \subseteq DOMAIN prog.classes
        /\ \A s \in shapes : ~s.open /\ (s.table # <<>> => s.const)
        /\ Cardinality(bodies) = 1 /\ bodies \subseteq DOMAIN prog.fns
     THEN CHOOSE body \in bodies : TRUE ELSE NoBody

\* What a call through a table calls once the passes have run; NoBody if it still asks the table.
Direct(prog, fn, in) ==
  LET from == CHOOSE load \in Defs(fn, in.args[1]) : TRUE
  IN SoleImplementation(prog, from.text, from.slot)

Enters_m(prog, fn, in) ==
  CASE in.op = "call" -> {in.text}
    [] in.op = "call.indirect" -> {Direct(prog, fn, in)}
    [] in.op = "alloca" /\ in.text \in DOMAIN prog.classes -> ToSet(prog.classes[in.text].table)
    [] OTHER -> {}
(* What an instruction keeps.  A call through a table does not say whom it *)
(* calls: making an object keeps the table of its class, and the lookup    *)
(* the methods of the class it is written for.  A lookup nobody uses any   *)
(* more is gone by now.                                                    *)
Enters(prog, fn, in) ==
  CASE in.op = "call" -> {in.text}
    [] in.op = "call.indirect" -> {Direct(prog, fn, in)}
    [] in.op = "vtable.load" -> IF SoleImplementation(prog, in.text, in.slot) = NoBody
                                THEN {g \in DOMAIN prog.fns : prog.fns[g].class = in.text} ELSE {}
    [] in.op = "drop" /\ in.text \in DOMAIN prog.classes -> {prog.classes[in.text].dtor}
    [] in.op = "alloca" /\ in.text \in DOMAIN prog.classes -> ToSet(prog.classes[in.text].table)
    [] OTHER -> {}

\* From main and from whatever the outside can enter.
Reachable(prog) ==
  LET Grow(live) == live \cup (DOMAIN prog.fns \cap UNION {
                      UNION {Enters(prog, prog.fns[f], in) : in \in Insts(prog.fns[f])} : f \in live})
  IN Iterate(Grow, {f \in DOMAIN prog.fns : f = "main" \/ prog.fns[f].root},
             Cardinality(DOMAIN prog.fns))
=============================================================================
