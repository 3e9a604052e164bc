------------------------------- MODULE PirRun --------------------------------
(* A program runs, as it was written, next to what the passes decided for  *)
(* it: the checks that are gone, the objects that got a place in a frame,  *)
(* the calls that ask no table, the functions that kept their bodies.  A   *)
(* run ends where a check fails, and where the program itself is wrong: it *)
(* uses an object after its delete.                                        *)
EXTENDS Passes

CONSTANTS Programs,    \* each [fns, classes, outside]: the last are classes of other compilations
          Ints,        \* what an int may be; lengths are those not below 0
          MaxObjects   \* bound of the model

VARIABLES prog, plan,  \* the program, and what the passes decided for it
          stack,       \* the calls: [f, b, k, env], the running one last
          mem,         \* what is stored: at a slot, the global, or an object's field
          objs,        \* the objects made: [live, place, class]
          patched      \* the classes whose table was rewritten

vars == <<prog, plan, stack, mem, objs, patched>>

Null == <<"null">>
Global == <<"global">>
HeapPlace == <<"heap">>
LostPlace == <<"popped">>     \* in the frame of a call that is over

Called(f, args) == [f |-> f, b |-> 1, k |-> 1, env |-> args]

\* The passes, in their order; a position of a function is <<f, <<block, k>>>>.
Optimise(p) ==
  LET safe == SafeParams(p.fns)
      Of(Decide(_)) == UNION {{f} \X Decide(p.fns[f]) : f \in DOMAIN p.fns}
  IN [gone |-> Of(EliminateGuards),
      unnoted |-> Of(LAMBDA fn : Unnoted(fn, safe)),
      kept |-> Reachable(p)]

Init == /\ prog \in Programs
        /\ plan = Optimise(prog)
        /\ stack = <<Called("main", <<>>)>>
        /\ mem = Global :> Null
        /\ objs = <<>>
        /\ patched = {}
-----------------------------------------------------------------------------
Running == stack # <<>>
Depth == Len(stack)
Top == stack[Depth]
Fn == prog.fns[Top.f]
Block == Fn.blocks[Top.b]
AtInst == Running /\ Top.k \in DOMAIN Block.insts
Now == Block.insts[Top.k]
Here == <<Top.f, <<Top.b, Top.k>>>>
Arg(i) == Top.env[Now.args[i]]
Doing(op) == AtInst /\ Now.op = op

IsObject(val) == val[1] = "object"
Live(val) == IsObject(val) /\ objs[val[2]].live
\* An address there is something at: a local's, the global's, a living object's.
Readable(val) == val \in DOMAIN mem /\ (IsObject(val) => Live(val))
ClassOf(val) == (prog.classes @@ prog.outside)[objs[val[2]].class]

Advanced(bound) == [stack EXCEPT ![Depth].k = @ + 1, ![Depth].env = bound @@ @]
Goes == stack' = Advanced(<<>>)
Gives(val) == stack' = Advanced(Now.res :> val)

\* The slot of a local is there once for each call, however often it is passed.
Alloca == /\ Doing("alloca") /\ ~Now.heap
          /\ LET slot == <<"slot", Depth, Now.res>> IN Gives(slot) /\ mem' = mem @@ (slot :> Null)
          /\ UNCHANGED <<prog, plan, objs, patched>>

FramePlace == <<"frame", Depth, Now.res>>

\* An object is made here, or outside and handed in.
New == /\ (Doing("alloca") /\ Now.heap) \/ Doing("receive")
       /\ Len(objs) < MaxObjects
       /\ LET o == <<"object", Len(objs) + 1>> IN Gives(o) /\ mem' = mem @@ (o :> Null)
       /\ objs' = Append(objs, [live |-> TRUE, class |-> Now.text,
                                place |-> IF Here \in plan.unnoted THEN FramePlace ELSE HeapPlace])
       /\ UNCHANGED <<prog, plan, patched>>

Load == /\ Doing("load") /\ Readable(Arg(1)) /\ Gives(mem[Arg(1)])
        /\ UNCHANGED <<prog, plan, mem, objs, patched>>

Store == /\ Doing("store") /\ Readable(Arg(2)) /\ Goes
         /\ mem' = [mem EXCEPT ![Arg(2)] = Arg(1)]
         /\ UNCHANGED <<prog, plan, objs, patched>>

\* Values made or derived.  An array is its length; a field is its object.
Compute == /\ \/ Doing("int") /\ \E n \in Ints : Gives(<<"int", n>>)
              \/ Doing("array") /\ \E n \in Ints : n >= 0 /\ Gives(<<"array", n>>)
              \/ Doing("global") /\ Gives(Global)
              \/ Doing("length") /\ Gives(<<"int", Arg(1)[2]>>)
              \/ AtInst /\ Now.op \in {"convert", "gep"} /\ Gives(Arg(1))
              \/ Doing("less") /\ Gives(<<"bool", Arg(1)[2] < Arg(2)[2]>>)
              \/ Doing("greater") /\ Gives(<<"bool", Arg(1)[2] > Arg(2)[2]>>)
           /\ UNCHANGED <<prog, plan, mem, objs, patched>>

\* What a check asks.  One comparison, unsigned, finds a negative index too.
Passes == CASE Now.op = "guard.bounds" -> Arg(1)[2] \in 0..Arg(2)[2] - 1
            [] Now.op = "guard.divisor" -> Arg(1)[2] # 0
            [] Now.op = "guard.contract" -> Arg(1)[2]
            [] OTHER -> TRUE

Check == /\ AtInst /\ Now.op \in {"guard.bounds", "guard.divisor", "guard.contract"}
         /\ Passes /\ Goes
         /\ UNCHANGED <<prog, plan, mem, objs, patched>>

Drop == /\ Doing("drop") /\ Live(Arg(1)) /\ Goes
        /\ objs' = [objs EXCEPT ![Arg(1)[2]].live = FALSE]
        /\ UNCHANGED <<prog, plan, mem, patched>>

\* methods.replace: the slot of a class whose table is no constant gets another body.
Replace == /\ Doing("replace") /\ Goes
           /\ patched' = patched \cup {Now.text}
           /\ UNCHANGED <<prog, plan, mem, objs>>

TableEntry(val, slot) ==
  IF objs[val[2]].class \in patched THEN "patch" ELSE ClassOf(val).table[slot]

LookUp == /\ Doing("vtable.load") /\ Live(Arg(1))
          /\ Gives(<<"code", TableEntry(Arg(1), Now.slot)>>)
          /\ UNCHANGED <<prog, plan, mem, objs, patched>>

Target == IF Now.op = "call" THEN Now.text ELSE Arg(1)[2]
Passed == IF Now.op = "call" THEN Now.args ELSE Tail(Now.args)

\* A function of another compilation runs and returns.
Call == /\ Doing("call") \/ Doing("call.indirect")
        /\ IF Target \in DOMAIN prog.fns
           THEN LET params == prog.fns[Target].params
                IN stack' = Append(Advanced(<<>>), Called(Target,
                     [v \in ToSet(params) |-> Top.env[Passed[CHOOSE i \in DOMAIN params : params[i] = v]]]))
           ELSE Goes
        /\ UNCHANGED <<prog, plan, mem, objs, patched>>

AtEnd == Running /\ Top.k > Len(Block.insts)

\* A branch takes the side of its condition.
Jump == /\ AtEnd
        /\ \E e \in DOMAIN Block.succs :
             /\ (Len(Block.succs) = 2 /\ Block.cond # NoValue) => (e = 1 <=> Top.env[Block.cond][2])
             /\ stack' = [stack EXCEPT ![Depth].b = Block.succs[e], ![Depth].k = 1]
        /\ UNCHANGED <<prog, plan, mem, objs, patched>>

\* The name of what a call returned.
Returned == 99

\* The frame goes, with the slots and the objects that are in it.
Return == /\ AtEnd /\ Block.succs = <<>>
          /\ LET rest == SubSeq(stack, 1, Depth - 1)
                 val == IF Block.ret = NoValue THEN Null ELSE Top.env[Block.ret]
             IN stack' = IF rest = <<>> THEN rest
                         ELSE [rest EXCEPT ![Depth - 1].env = (Returned :> val) @@ @]
          /\ mem' = [a \in {x \in DOMAIN mem : x[1] = "slot" => x[2] < Depth} |-> mem[a]]
          /\ objs' = [o \in DOMAIN objs |->
                        IF objs[o].place[1] = "frame" /\ objs[o].place[2] = Depth
                        THEN [objs[o] EXCEPT !.place = LostPlace] ELSE objs[o]]
          /\ UNCHANGED <<prog, plan, patched>>

Next == \/ Alloca \/ New \/ Load \/ Store \/ Compute \/ Check \/ Drop \/ Replace \/ LookUp
        \/ Call \/ Jump \/ Return

Spec == Init /\ [][Next]_vars
-----------------------------------------------------------------------------
(* A check that was taken out would have passed.                           *)
GuardsSound == AtInst /\ Here \in plan.gone => Passes

(* A place in the frame is given to an object while nothing living has it: *)
(* two turns of a loop never hold the same place at once.                  *)
PlacesApart == \A o, q \in DOMAIN objs :
                 o # q /\ objs[o].live /\ objs[q].live /\ objs[o].place[1] = "frame"
                   => objs[o].place # objs[q].place

(* What is freed came from the heap, and what came from there is freed:    *)
(* the two notes go together or not at all.                                *)
NotesAgree == Doing("drop") /\ Live(Arg(1))
                => (Here \in plan.unnoted <=> objs[Arg(1)[2]].place # HeapPlace)

(* A living object whose place went with its frame is not to be found any  *)
(* more: not in the global, a living object, a local or a value.           *)
NothingOutlives ==
  \A o \in DOMAIN objs : objs[o].live /\ objs[o].place = LostPlace =>
    LET it == <<"object", o>>
        Found(a) == IsObject(a) => Live(a) /\ objs[a[2]].place # LostPlace
    IN /\ \A a \in DOMAIN mem : mem[a] = it => ~Found(a)
       /\ \A d \in DOMAIN stack : \A v \in DOMAIN stack[d].env : stack[d].env[v] # it

(* Objects are where their code says they are, each in a place of its own, *)
(* and no longer than their places.                                        *)
PlacesSound == PlacesApart /\ NotesAgree /\ NothingOutlives

(* A call made direct calls what the table of the object holds.            *)
DispatchAgrees == Doing("call.indirect")
                    => Direct(prog, Fn, Now) \in {NoBody, Target}

(* What is called, and the destructor of what is deleted, has its body.    *)
CallsLand ==
  /\ (Doing("call") \/ Doing("call.indirect"))
       => Target # NoBody /\ (Target \in DOMAIN prog.fns => Target \in plan.kept)
  /\ Doing("drop") /\ Live(Arg(1)) /\ objs[Arg(1)[2]].class \in DOMAIN prog.classes
       => ClassOf(Arg(1)).dtor \in {NoBody} \cup plan.kept

\* A call arrives where the source sent it.
CallsSound == DispatchAgrees /\ CallsLand
=============================================================================
