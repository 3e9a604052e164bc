-------------------------------- MODULE MCPir --------------------------------
(* Programs for PirRun: every way to fill a few flow graphs with a few     *)
(* statements.  A statement is compiled to instructions whose results are  *)
(* the numbers from n up.                                                  *)
EXTENDS PirRun

\* Statements about an index in the slot 1 and an array in the slot 2.
Both(n) == <<Inst("load", n, <<1>>), Inst("load", n + 1, <<2>>)>>
Compare(n) == Both(n) \o <<Inst("length", n + 2, <<n + 1>>), Inst("convert", n + 3, <<n + 2>>),
                           Inst("less", n + 4, <<n, n + 3>>)>>
CompareBack(n) == Both(n) \o <<Inst("length", n + 2, <<n + 1>>),
                               Inst("greater", n + 4, <<n + 2, n>>)>>
\* Statements about the objects in the slots 1 and 2.
Take(slot, n) == <<Inst("load", n, <<slot>>)>>

Code(name, n) ==
  CASE name = "nothing" -> <<>>
    [] name = "index" -> Both(n) \o <<Inst("guard.bounds", NoValue, <<n, n + 1>>)>>
    [] name = "divide" -> Take(1, n) \o <<Inst("guard.divisor", NoValue, <<n>>)>>
    [] name = "require" -> Compare(n) \o <<Inst("guard.contract", NoValue, <<n + 4>>)>>
    [] name = "count" -> <<Inst("int", n, <<>>), Inst("store", NoValue, <<n, 1>>)>>
    [] name = "setup" -> <<Inst("alloca", 1, <<>>), Inst("alloca", 2, <<>>), Inst("int", 3, <<>>),
                           Inst("store", NoValue, <<3, 1>>), Inst("array", 4, <<>>),
                           Inst("store", NoValue, <<4, 2>>)>>
    [] name = "locals" -> <<Inst("alloca", 1, <<>>), Inst("alloca", 2, <<>>)>>
    [] name = "call" -> <<[Inst("call", NoValue, <<>>) EXCEPT !.text = "nop"]>>
    [] name = "make" -> <<[Inst("alloca", n, <<>>) EXCEPT !.heap = TRUE],
                          Inst("store", NoValue, <<n, 1>>)>>
    [] name = "make2" -> <<[Inst("alloca", n, <<>>) EXCEPT !.heap = TRUE],
                           Inst("store", NoValue, <<n, 2>>)>>
    [] name = "copy" -> Take(1, n) \o <<Inst("store", NoValue, <<n, 2>>)>>
    [] name = "delete" -> Take(1, n) \o <<[Inst("drop", NoValue, <<n>>) EXCEPT !.heap = TRUE]>>
    [] name = "delete2" -> Take(2, n) \o <<[Inst("drop", NoValue, <<n>>) EXCEPT !.heap = TRUE]>>
    [] name = "pass" -> Both(n) \o <<[Inst("call", NoValue, <<n, n + 1>>) EXCEPT !.text = "use"]>>
    [] name = "link" -> Both(n) \o <<Inst("gep", n + 2, <<n + 1>>), Inst("store", NoValue, <<n, n + 2>>)>>
    [] name = "publish" -> Take(1, n) \o <<Inst("global", n + 1, <<>>),
                                           Inst("store", NoValue, <<n, n + 1>>)>>

Codes(names, n) == FlattenSeq([i \in DOMAIN names |-> Code(names[i], n + 3 * (i - 1))])

Straight(insts, succs) == [insts |-> insts, succs |-> succs, cond |-> NoValue, ret |-> NoValue]
Fun(params, blocks) == [params |-> params, blocks |-> blocks, class |-> "", root |-> FALSE]
Plain(fns) == [fns |-> fns, classes |-> <<>>, outside |-> <<>>]
Nop == Fun(<<>>, <<Straight(<<>>, <<>>)>>)
-----------------------------------------------------------------------------
Graphs == { <<<<2>>, <<3>>, <<4>>, <<>>>>, <<<<2, 3>>, <<4>>, <<4>>, <<>>>>,
            <<<<2, 3>>, <<3>>, <<4>>, <<>>>>, <<<<2, 2>>, <<3, 4>>, <<4>>, <<>>>>,
            <<<<2>>, <<3, 4>>, <<2>>, <<>>>>, <<<<2>>, <<3, 4>>, <<2, 4>>, <<>>>> }

Tests == {"less", "greater", "opaque"}

Checked(graph, test, names) ==
  Plain([main |-> Fun(<<>>, [b \in 1..4 |->
     LET two == Len(graph[b]) = 2 /\ test # "opaque"
     IN [Straight(Code(IF b = 1 THEN "setup" ELSE "nothing", 0) \o Codes(names[b], 10 * b)
                    \o (IF ~two THEN <<>> ELSE IF test = "less" THEN Compare(10 * b + 5)
                                                               ELSE CompareBack(10 * b + 5)), graph[b])
           EXCEPT !.cond = IF two THEN 10 * b + 9 ELSE NoValue]]),
   nop |-> Nop])

(* Index and array are written once, or the index is counted at the end of *)
(* the block that goes back to the test: a foreach, and locals that stay.  *)
Counted == {Checked(graph, test, <<<<one>>, <<two>>, <<three>>, <<four>>>>) :
              graph \in Graphs, test \in Tests, one \in {"nothing", "index", "require"},
              two \in {"nothing", "index", "call"}, three \in {"index", "divide"},
              four \in {"index", "divide"}}
           \cup
           {Checked(<<<<2>>, <<3, 4>>, <<2>>, <<>>>>, test, <<<<one>>, <<two>>, <<"index", "count">>, <<four>>>>) :
              test \in Tests, one \in {"nothing", "divide"}, two \in {"nothing", "call"},
              four \in {"index", "divide"}}

\* The index is counted anywhere.
Recounted == {Checked(graph, test, <<<<one>>, <<two>>, <<"index">>, <<"index">>>>) :
                graph \in Graphs, test \in Tests, one \in {"nothing", "index", "require"},
                two \in {"nothing", "count"}}
-----------------------------------------------------------------------------
\* What the function "use" may do with its parameters 5 and 8, and "keep" with its one.
Publishes == Straight(<<Inst("global", 6, <<>>), Inst("store", NoValue, <<5, 6>>)>>, <<>>)
Reads == Straight(<<Inst("gep", 6, <<5>>), Inst("load", 7, <<6>>)>>, <<>>)
Frees5 == Straight(<<Inst("alloca", 1, <<>>), Inst("store", NoValue, <<5, 1>>), Inst("load", 6, <<1>>),
                     [Inst("drop", NoValue, <<6>>) EXCEPT !.heap = TRUE]>>, <<>>)
Stores8In5 == Straight(<<Inst("gep", 6, <<5>>), Inst("store", NoValue, <<8, 6>>)>>, <<>>)
Passes5 == Straight(<<[Inst("call", NoValue, <<5>>) EXCEPT !.text = "keep"]>>, <<>>)
Returns5 == [Straight(<<>>, <<>>) EXCEPT !.ret = 5]

Objects(first, turn, after, use, keep, loop) ==
  Plain([main |-> Fun(<<>>, <<Straight(Code("locals", 0) \o Codes(first, 10), <<2>>),
                        Straight(Codes(turn, 20), IF loop THEN <<2, 3>> ELSE <<3>>),
                        Straight(Codes(after, 30), <<>>)>>),
   use |-> Fun(<<5, 8>>, <<use>>), keep |-> Fun(<<5>>, <<keep>>)])

Helpers == ({Publishes, Reads, Frees5, Stores8In5, Returns5} \X {Reads})
             \cup ({Passes5} \X {Publishes, Reads, Frees5})

\* Every local gets its object from one new.
Owned == {Objects(first, turn, after, help[1], help[2], loop) :
            first \in {<<>>, <<"make2">>},
            turn \in {<<"make">> \o rest : rest \in {<<"delete">>, <<"pass">>, <<"pass", "delete">>,
                                                    <<"publish">>, <<"publish", "delete">>}}
                     \cup {<<"delete", "make">>},
            after \in {<<>>, <<"delete">>, <<"delete2">>, <<"link">>},
            help \in Helpers, loop \in BOOLEAN}

\* A local may get what another one has.
Handed == {Objects(<<"make2">>, <<"make", "delete2", "copy">>, <<"delete2">>, Reads, Reads, TRUE)}

-----------------------------------------------------------------------------
(* Shapes: an interface, an abstract class under it, two classes that draw *)
(* and a third under one of them; slot 1 draws, slot 2 is the destructor.  *)
Class(over, table) == [over |-> over, permits |-> {}, open |-> FALSE, const |-> TRUE,
                       table |-> table, dtor |-> IF table = <<>> THEN NoBody ELSE table[2]]

Shapes(derived, names, open, replaced, permits) ==
  LET all == [Drawable |-> Class({}, <<>>),
              Shape |-> Class({"Drawable"}, <<NoBody, NoBody>>),
              Circle |-> Class({"Shape"}, <<"Circle.draw", "Circle.~">>),
              Square |-> Class({"Shape"}, <<"Square.draw", NoBody>>),
              Derived |-> Class({"Circle"}, <<derived, "Circle.~">>)]
  IN [c \in names |-> [all[c] EXCEPT !.open = c \in open, !.const = c \notin replaced,
                                     !.permits = IF c = "Shape" THEN permits ELSE {}]]

MethodOf(class, open, calls) ==
  [Fun(<<7>>, <<Straight([i \in DOMAIN calls |-> [Inst("call", NoValue, <<7>>) EXCEPT !.text = calls[i]]],
                         <<>>)>>) EXCEPT !.class = class, !.root = class \in open]

Source(op, c) == <<[Inst(op, 10, <<>>) EXCEPT !.heap = op = "alloca", !.text = c], Inst("store", NoValue, <<10, 1>>)>>

\* A call and a delete of what one of two sources gave, seen as a static.
Drawing(classes, outside, open, left, right, static, also) ==
  [classes |-> classes, outside |-> outside,
   fns |-> [main |-> Fun(<<>>,
              <<Straight(Code("locals", 0) \o also, <<2, 3>>), Straight(left, <<4>>), Straight(right, <<4>>),
                Straight(<<Inst("load", 20, <<1>>),
                           [Inst("vtable.load", 21, <<20>>) EXCEPT !.text = static],
                           Inst("call.indirect", NoValue, <<21, 20>>),
                           [Inst("drop", NoValue, <<20>>) EXCEPT !.heap = TRUE, !.text = static]>>, <<>>)>>),
            patch |-> [MethodOf("", open, <<>>) EXCEPT !.root = TRUE]]
           @@ ("Circle.draw" :> MethodOf("Circle", open, <<"Circle.help">>))
           @@ ("Circle.help" :> MethodOf("Circle", open, <<>>)) @@ ("Circle.~" :> MethodOf("Circle", open, <<>>))
           @@ ("Square.draw" :> MethodOf("Square", open, <<>>)) @@ ("Derived.draw" :> MethodOf("Derived", open, <<>>))]

Concrete == {"Circle", "Square", "Derived"}
Statics == {"Drawable", "Shape", "Circle"}
IsA(c, static) == static \in {"Drawable", "Shape"} \/ c \in {"Circle", "Derived"}

\* A whole program; a class in it may be given another body for its slot while it runs.
Closed ==
  UNION {{Drawing(Shapes(derived, {"Drawable", "Shape", "Circle"} \cup more, {}, replaced, permits),
                  <<>>, {}, Source("alloca", left), Source("alloca", right), static,
                  [i \in 1..(IF replaced = {} THEN 0 ELSE 1) |-> [Inst("replace", NoValue, <<>>) EXCEPT !.text = "Circle"]]) :
            left \in {c \in Concrete : c \in more \cup {"Circle"} /\ IsA(c, static)},
            right \in {c \in Concrete : c \in more \cup {"Circle"} /\ IsA(c, static)},
            derived \in {"Circle.draw", "Derived.draw"}, replaced \in {{}, {"Circle", "Derived"}},
            permits \in {{}, {"Circle"}}} :
         more \in SUBSET {"Square", "Derived"}, static \in Statics}

\* A library, which others may extend where it is open or where its seal names them.
Libraries ==
  UNION {{Drawing(Shapes("Circle.draw", Statics, open, {}, {}),
                  [Alien |-> Class({under}, <<"Alien.draw", "Alien.~">>)], open,
                  Source("alloca", "Circle"), Source("receive", "Alien"), static, <<>>) :
            under \in open \cap (IF static = "Drawable" THEN Statics ELSE {"Shape", "Circle"})} :
         open \in SUBSET Statics, static \in {"Drawable", "Shape"}}
  \cup {Drawing(Shapes("Circle.draw", Statics, open, {}, {"Alien"}),
                [Alien |-> Class({"Shape"}, <<"Alien.draw", "Alien.~">>)], open,
                Source("alloca", "Circle"), Source("receive", "Alien"), static, <<>>) :
          open \in SUBSET {"Drawable", "Circle"}, static \in {"Drawable", "Shape"}}

\* A class without a table, whose destructor is called by name.
Named == {[classes |-> [Cell |-> [Class({}, <<>>) EXCEPT !.dtor = "Cell.~"]], outside |-> <<>>,
           fns |-> [main |-> Fun(<<>>, <<Straight(Code("locals", 0) \o Source("alloca", "Cell")
                     \o <<Inst("load", 20, <<1>>),
                          [Inst("drop", NoValue, <<20>>) EXCEPT !.heap = TRUE, !.text = "Cell"]>>, <<>>)>>)]
                   @@ ("Cell.~" :> MethodOf("Cell", {}, <<"Cell.free">>)) @@ ("Cell.free" :> MethodOf("Cell", {}, <<>>))]}

Dispatched == Closed \cup Libraries \cup Named
Tame == Counted \cup Owned \cup Dispatched
Wild == Recounted
=============================================================================
