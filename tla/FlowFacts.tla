------------------------------ MODULE FlowFacts ------------------------------
(* What the analyzer knows of a local variable at each place of a method:  *)
(* whether it has a value, whether that may be null, whether the object    *)
(* was moved away or deleted.  The facts of one name never depend on those *)
(* of another, so a method is what it does to one, `x`, of a nullable      *)
(* pointer type.                                                           *)
(*                                                                         *)
(* A method is written statement by statement; a statement the analyzer    *)
(* refuses is not written.  Beside it is worked out what x can really be   *)
(* there: conditions go either way, unless they ask whether x is null, a   *)
(* call may throw, and a loop runs any number of times.                    *)
(*                                                                         *)
(* Gaps names the statements the analyzer is known to get wrong, as the    *)
(* README tells.  A statement it gets wrong in another way is refused here *)
(* where the analyzer accepts it:                                          *)
(*   "proof"    a `while` or `for` that gives back, behind it, a proof its *)
(*              body has falsified;                                        *)
(*   "head"     what is read or written between two runs of a loop's body; *)
(*   "jump"     a `break` or `continue` in a loop that changes x;          *)
(*   "foreach"  a `foreach` that proves something, and may not run;        *)
(*   "switch"   a `switch` whose cases change x;                           *)
(*   "try"      a `catch` that finds x changed, or changes it and goes on. *)
(*                                                                         *)
(* The operators whose names end in _m are mutations, no part of it.       *)
EXTENDS Naturals, Sequences, FiniteSets

CONSTANTS MaxSize,    \* bound: the statements of a method, those inside others too
          Arms,       \* by their size, from one up: the blocks there are
          Bodies,     \*   in a condition, and in a loop
          Gaps        \* what the analyzer is known to get wrong, left in

VARIABLES last,      \* the statement just written
          size,      \* how many there are
          facts,     \* what the analyzer knows behind them
          values,    \* what x can be there
          wrong      \* whether one of them used x as it must not be used

flowVars == <<last, size, facts, values, wrong>>

\* Statements: `op` on x, or a block or two behind a condition on x.
Stmt(op, on, body, other) == [op |-> op, on |-> on, body |-> body, other |-> other]
Leaf(op) == Stmt(op, "none", <<>>, <<>>)
Loops == {"while", "do", "for", "foreach"}
Uses == {"read", "give", "move", "delete"}
Writes == {"new", "null"}
Jumps == {"break", "continue"}
Exits == Jumps \cup {"return"}

RECURSIVE Inside(_)
\* The operations of a block, with those of the blocks in it.
Inside(block) ==
  UNION {{block[i].op, block[i].on} \cup Inside(block[i].body) \cup Inside(block[i].other) : i \in DOMAIN block}
Changes(block) == Inside(block) \cap (Writes \cup {"move", "delete"}) # {}
Mentions(block) == Inside(block) \cap (Uses \cup {"null?", "object?"}) # {}
-----------------------------------------------------------------------------
(* The facts, and what the analyzer complains of: "ended" is what it says  *)
(* of a variable whose object is gone, "other" all the rest; "gap" is only *)
(* ours.                                                                   *)
Start(init, nonNull) ==
  [init |-> init, nonNull |-> nonNull, moved |-> FALSE, gone |-> FALSE, errors |-> {}]

Complain(f, kind) == [f EXCEPT !.errors = @ \cup {kind}]
Gap(f, gap, hit) == IF hit /\ gap \notin Gaps THEN Complain(f, "gap") ELSE f
\* The facts of f, said after everything that was said up to g.
After(f, g) == [f EXCEPT !.errors = @ \cup g.errors]

Read(f) == IF f.moved \/ f.gone THEN Complain(f, "ended")
           ELSE IF f.init # "yes" THEN Complain(f, "other") ELSE f

Assign(f, nonNull) == [Start("yes", nonNull) EXCEPT !.errors = f.errors]

Join_m(f, g) ==
  [init |-> IF f.init = g.init THEN f.init ELSE "maybe",
   nonNull |-> f.nonNull /\ g.nonNull,
   moved |-> f.moved /\ g.moved,
   gone |-> f.gone /\ g.gone,
   errors |-> f.errors \cup g.errors]

\* Known on both ways, or owed on either.
Join(f, g) ==
  [init |-> IF f.init = g.init THEN f.init ELSE "maybe",
   nonNull |-> f.nonNull /\ g.nonNull,
   moved |-> f.moved \/ g.moved,
   gone |-> f.gone \/ g.gone,
   errors |-> f.errors \cup g.errors]

\* g claims nothing that f does not.
AtMost(g, f) == /\ g.init = "yes" => f.init = "yes"
                /\ g.nonNull => f.nonNull
                /\ f.moved => g.moved
                /\ f.gone => g.gone

RECURSIVE AlwaysExits(_)
AlwaysExits(block) ==
  \E i \in DOMAIN block : \/ block[i].op \in Exits
                          \/ /\ block[i].op = "if" /\ block[i].other # <<>>
                             /\ AlwaysExits(block[i].body) /\ AlwaysExits(block[i].other)

RECURSIVE Assigns(_)
\* What the walk over a loop's body finds: it does not look into every statement.
Assigns(block) ==
  \E i \in DOMAIN block :
     \/ block[i].op \in Writes \/ block[i].on \in Writes
     \/ block[i].op \in {"if"} \cup Loops
        /\ (Assigns(block[i].body) \/ Assigns(block[i].other))

Narrowed(f, proven) == IF proven THEN [f EXCEPT !.nonNull = TRUE] ELSE f
KillProofs_m(f, block) == f
KillProofs(f, block) == IF Assigns(block) THEN [f EXCEPT !.nonNull = FALSE] ELSE f

KeepObligations_m(entry, end) == [entry EXCEPT !.errors = end.errors]
\* Behind a loop that may not run: the facts before it, and what the body owes.
KeepObligations(entry, end) ==
  [entry EXCEPT !.moved = @ \/ end.moved, !.gone = @ \/ end.gone, !.errors = end.errors]
-----------------------------------------------------------------------------
(* The analyzer, statement by statement.  `again` is set in the replay of  *)
(* a loop's body: there is none inside one.                                *)
RECURSIVE Analyze(_, _, _), AnalyzeBlock(_, _, _)
AnalyzeBlock(block, f, again) ==
  IF block = <<>> THEN f ELSE AnalyzeBlock(Tail(block), Analyze(Head(block), f, again), again)

AnalyzeLeaf(op, f) ==
  CASE op = "read" -> Read(f)
    [] op = "give" -> LET r == Read(f) IN IF f.nonNull THEN r ELSE Complain(r, "other")
    [] op = "move" -> [Read(f) EXCEPT !.moved = TRUE]
    [] op = "delete" -> [Read(f) EXCEPT !.gone = TRUE]
    [] op = "new" -> Assign(f, TRUE)
    [] op = "null" -> Assign(f, FALSE)
    [] OTHER -> f

\* A condition on x reads it.
Ask(f, on) == IF on \in {"null?", "object?"} THEN Read(f) ELSE f

\* Each arm from the same facts; one that always exits tells nothing to what follows.
AnalyzeIf(st, f, again) ==
  LET asked == Ask(f, st.on)
      then == AnalyzeBlock(st.body, Narrowed(asked, st.on = "object?"), again)
      else == AnalyzeBlock(st.other, After(Narrowed(asked, st.on = "null?"), then), again)
  IN CASE AlwaysExits(st.body) /\ ~AlwaysExits(st.other) -> else
       [] AlwaysExits(st.other) -> After(then, else)
       [] OTHER -> Join(then, else)

Replayed_m(body, entry, end, again) == end
\* The body once more, owing what it owed at its end; only "ended" counts.
Replayed(body, entry, end, again) ==
  LET owes == \/ end.gone /\ ~entry.gone
              \/ end.moved /\ ~entry.moved
      twice == AnalyzeBlock(body, [KeepObligations(entry, end) EXCEPT !.errors = {}], TRUE)
  IN IF owes /\ ~again THEN [end EXCEPT !.errors = @ \cup (twice.errors \ {"other"})] ELSE end

\* `while`, and `for` with its update, which the analyzer takes before the body.
AnalyzeWhile(st, f, again) ==
  LET entry == IF st.op = "for" THEN AnalyzeLeaf(st.on, f) ELSE Ask(f, st.on)
      end == AnalyzeBlock(st.body, Narrowed(KillProofs(entry, st.body), st.on = "object?"), again)
      left == KeepObligations(entry, Replayed(st.body, entry, end, again))
      proof == Gap(left, "proof", entry.nonNull /\ "null" \in Inside(st.body))
  IN Gap(proof, "head", \/ ~AtMost(entry, f)
                        \/ st.on \in Uses \cup {"null?", "object?"} /\ (end.moved \/ end.gone))

AnalyzeDo(st, f, again) ==
  LET end == AnalyzeBlock(st.body, KillProofs(f, st.body), again)
      back == [end EXCEPT !.nonNull = @ /\ f.nonNull]
  IN Gap(Replayed(st.body, f, back, again), "proof",
         f.nonNull /\ "null" \in Inside(st.body) /\ ~Assigns(st.body))

\* Whatever holds at the end of the body is believed behind the loop.
AnalyzeForeach(st, f, again) ==
  LET entry == KillProofs(f, st.body)
      end == AnalyzeBlock(st.body, entry, again)
      proof == Gap(Replayed(st.body, entry, end, again), "proof",
                   entry.nonNull /\ "null" \in Inside(st.body))
  IN Gap(proof, "foreach", ~AtMost(end, f))

\* The cases one behind the other.
AnalyzeSwitch(st, f, again) ==
  LET first == AnalyzeBlock(st.body, f, again)
      second == AnalyzeBlock(st.other, first, again)
  IN Gap(second, "switch", ~AtMost(first, f) \/ ~AtMost(second, first))

\* The `catch` from what held before; behind it, what the body came to.
AnalyzeTry(st, f, again) ==
  LET after == AnalyzeBlock(st.body, f, again)
      caught == AnalyzeBlock(st.other, After(f, after), again)
      goesOn == ~AlwaysExits(st.other)
  IN Gap(After(after, caught), "try",
         /\ "call" \in Inside(st.body)
         /\ \/ Changes(st.body) /\ (goesOn \/ Mentions(st.other))
            \/ goesOn /\ ~AtMost(after, caught))

Analyze(st, f, again) ==
  LET g == CASE st.op = "if" -> AnalyzeIf(st, f, again)
             [] st.op \in {"while", "for"} -> AnalyzeWhile(st, f, again)
             [] st.op = "do" -> AnalyzeDo(st, f, again)
             [] st.op = "foreach" -> AnalyzeForeach(st, f, again)
             [] st.op = "switch" -> AnalyzeSwitch(st, f, again)
             [] st.op = "try" -> AnalyzeTry(st, f, again)
             [] OTHER -> AnalyzeLeaf(st.op, f)
  IN Gap(g, "jump", st.op \in Loops /\ Changes(st.body) /\ Inside(st.body) \cap Jumps # {})
-----------------------------------------------------------------------------
(* What really happens: the values x can have behind a statement, on each  *)
(* way out of it, from those it can have before.                           *)
Ways(on, brk, cont, thrown, bad) ==
  [on |-> on, brk |-> brk, cont |-> cont, thrown |-> thrown, bad |-> bad]
OnlyOn(from) == Ways(from, {}, {}, {}, FALSE)

Usable(from) == from \ {"uninit", "moved", "deleted"}
Becomes(from, v) == IF from = {} THEN {} ELSE {v}
Used(from, into) == Ways(into, {}, {}, {}, from # Usable(from))

\* p, and then q instead of going on.
Then(p, q) == Ways(q.on, p.brk \cup q.brk, p.cont \cup q.cont, p.thrown \cup q.thrown, p.bad \/ q.bad)
Either(p, q) == [Then(p, q) EXCEPT !.on = p.on \cup q.on]

RunLeaf(op, from) ==
  CASE op = "read" -> Used(from, Usable(from))
    [] op = "give" -> Ways(from \cap {"object"}, {}, {}, {}, from # from \cap {"object"})
    [] op = "move" -> Used(from, Becomes(Usable(from), "moved"))
    [] op = "delete" -> Used(from, Becomes(Usable(from), "deleted"))
    [] op = "new" -> OnlyOn(Becomes(from, "object"))
    [] op = "null" -> OnlyOn(Becomes(from, "null"))
    [] op = "call" -> Ways(from, {}, {}, from, FALSE)
    [] op = "return" -> OnlyOn({})
    [] op = "break" -> Ways({}, from, {}, {}, FALSE)
    [] op = "continue" -> Ways({}, {}, from, {}, FALSE)
    [] OTHER -> OnlyOn(from)

\* The values with which a condition holds, and those with which it does not.
Holding(from, on) == CASE on = "object?" -> Usable(from) \ {"null"}
                       [] on = "null?" -> from \cap {"null"}
                       [] OTHER -> from
Failing(from, on) == IF on \in {"null?", "object?"} THEN Usable(from) \ Holding(from, on) ELSE from
Asked(from, on) == Used(from, from).bad /\ on \in {"null?", "object?"}

RECURSIVE Run(_, _), RunBlock(_, _), Heads(_, _)
RunBlock(block, from) ==
  IF block = <<>> THEN OnlyOn(from)
  ELSE LET first == Run(Head(block), from) IN Then(first, RunBlock(Tail(block), first.on))

\* Once round a loop, with the update of a `for`, from where it starts again.
Round(st, from) ==
  LET body == RunBlock(st.body, Holding(from, st.on))
  IN Then(body, RunLeaf(IF st.op = "for" THEN st.on ELSE "none", body.on \cup body.cont))

\* The values at the top of a loop, the first time and every other.
Heads(st, from) ==
  LET more == from \cup Round(st, from).on IN IF more = from THEN from ELSE Heads(st, more)

RunLoop(st, from) ==
  LET heads == Heads(st, from)
      round == Round(st, heads)
      done == IF st.op = "do" THEN round.on ELSE Failing(heads, st.on)
  IN Ways(done \cup round.brk, {}, {}, round.thrown, round.bad \/ Asked(heads, st.on))

Run(st, from) ==
  CASE st.op = "if" ->
         [Either(RunBlock(st.body, Holding(from, st.on)), RunBlock(st.other, Failing(from, st.on)))
            EXCEPT !.bad = @ \/ Asked(from, st.on)]
    [] st.op = "switch" -> Either(RunBlock(st.body, from), RunBlock(st.other, from))
    [] st.op = "try" -> LET body == RunBlock(st.body, from)
                        IN Either([body EXCEPT !.thrown = {}], RunBlock(st.other, body.thrown))
    [] st.op \in Loops -> RunLoop(st, from)
    [] OTHER -> RunLeaf(st.op, from)
-----------------------------------------------------------------------------
\* x is declared without a value, with a new object, or is a parameter.
FlowInit == /\ last = Leaf("none") /\ size = 0 /\ wrong = FALSE
            /\ \/ facts = Start("no", FALSE) /\ values = {"uninit"}
               \/ facts = Start("yes", TRUE) /\ values = {"object"}
               \/ facts = Start("yes", FALSE) /\ values = {"object", "null"}

\* Another statement of n, which the analyzer accepts.
Write(st, n) ==
  LET known == Analyze(st, facts, FALSE)
      ran == Run(st, values)
  IN /\ known.errors = {}
     /\ last' = st
     /\ size' = size + n
     /\ facts' = known /\ values' = ran.on
     /\ wrong' = (wrong \/ ran.bad)

Room(n) == size + n <= MaxSize
Tests == {"none", "null?", "object?"}
Simple == Uses \cup Writes \cup {"call", "return"}

WriteSimple == Room(1) /\ \E op \in Simple : Write(Leaf(op), 1)

WriteIf(n) == Room(n + 1) /\ \E on \in Tests, b \in Arms[n] : Write(Stmt("if", on, b, <<>>), n + 1)

WriteLoop(n) ==
  /\ Room(n + 1)
  /\ \E b \in Bodies[n] : \/ \E on \in Tests : Write(Stmt("while", on, b, <<>>), n + 1)
                          \/ \E op \in {"do", "for", "foreach"} : Write(Stmt(op, "none", b, <<>>), n + 1)

WriteUpdated(n) ==
  /\ Room(n + 2)
  /\ \E update \in Writes \cup {"read"}, b \in Bodies[n] : Write(Stmt("for", update, b, <<>>), n + 2)

WriteIfElse(n, m) ==
  /\ Room(n + m + 1)
  /\ \E on \in Tests, b \in Arms[n], c \in Arms[m] : Write(Stmt("if", on, b, c), n + m + 1)

WriteSwitchOrTry(n, m) ==
  /\ Room(n + m + 1)
  /\ \E op \in {"switch", "try"}, b \in Arms[n], c \in Arms[m] : Write(Stmt(op, "none", b, c), n + m + 1)

FlowNext == \/ WriteSimple
            \/ \E n \in DOMAIN Arms : WriteIf(n) \/ WriteLoop(n) \/ WriteUpdated(n)
            \/ \E n, m \in DOMAIN Arms : WriteIfElse(n, m) \/ WriteSwitchOrTry(n, m)
FlowSpec == FlowInit /\ [][FlowNext]_flowVars
-----------------------------------------------------------------------------
(* What was accepted never reads a variable without a value, nor one whose *)
(* object was moved or deleted, nor hands on a null as something else; and *)
(* the facts hold on every path that comes here.                           *)
FactsHold == /\ ~wrong
             /\ facts.init = "yes" => "uninit" \notin values
             /\ facts.nonNull => "null" \notin values
             /\ "moved" \in values => facts.moved
             /\ "deleted" \in values => facts.gone
=============================================================================
