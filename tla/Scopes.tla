------------------------------- MODULE Scopes -------------------------------
(* What a method set up is taken down when it is left: how lower.cpp       *)
(* compiles `defer`, destructors, `finally` and `synchronized`, and how    *)
(* the method runs that comes out.                                         *)
(*                                                                         *)
(* First the method is lowered, statement by statement.  Nothing at run    *)
(* time knows what is open: the lists are the compiler's, and each way out *)
(* of a block gets its own copy of the code that takes things down.  Then  *)
(* the code runs; a call may throw and a branch may go either way.  What   *)
(* is deferred neither throws nor jumps.                                   *)
(*                                                                         *)
(* Gaps names the programs that the code gets wrong, as the README tells:  *)
(*   "locked"   a `synchronized` block is left by a jump or an exception;  *)
(*   "catch"    a `catch` with a `finally` behind it is left so;           *)
(*   "late"     a `defer` in a `try` may be left out, or come twice;       *)
(*   "caught"   a `catch` declares something of its own;                   *)
(*   "deleted"  a `delete` takes another block's object, or one that an    *)
(*              exception before it would have had destroyed;              *)
(*   "through"  an exception passes through the method.                    *)
(*                                                                         *)
(* The operators whose names end in _m are mutations, no part of it.       *)
EXTENDS Naturals, Sequences, SequencesExt

CONSTANTS MaxStatements,  \* bound: the statements of a method
          MaxDepth,       \* bound: the blocks around one of them
          Gaps            \* programs the code is known to get wrong, left in

VARIABLES open,         \* the blocks around the next statement, the innermost last
          deferred,     \* deferred_: the blocks to run at the next exit
          scoped,       \* scoped_: the objects to destroy there
          lateDefers,   \* unwindDefers_ and unwindObjects_: the same, of the
          lateObjects,  \*   `try` bodies that are open, kept when a scope closes
          code,         \* the instructions so far
          written,      \* how many statements there are; one is known by its number
          pc,           \* where the method is, Lowering or Over
          built,        \* the objects whose slot is not null
          ran,          \* the `defer`s whose flag is set
          owed          \* history: what was set up and not yet taken down

lists == <<deferred, scoped, lateDefers, lateObjects>>
running == <<pc, built, ran, owed>>
vars == <<open, lists, code, written, running>>

Lowering == 0
Over == Len(code) + 1
NoLabel == <<>>
Unchecked == <<<<"anywhere", 0>>>>

Init == /\ open = <<>> /\ deferred = <<>> /\ scoped = <<>>
        /\ lateDefers = <<>> /\ lateObjects = <<>>
        /\ code = <<>> /\ written = 0
        /\ pc = Lowering /\ built = {} /\ ran = {} /\ owed = <<>>
-----------------------------------------------------------------------------
(* Instructions.  `in` is the path of scopes the source is in at this      *)
(* place; code that takes things down is between two places and has none.  *)
Path(blocks) == <<<<"method", 0>>>> \o FlattenSeq([i \in DOMAIN blocks |-> blocks[i].scopes])
Instr(op, arg, to, in) == [op |-> op, arg |-> arg, to |-> to, in |-> in]
Stmt(op, arg, to) == Instr(op, arg, to, Path(open))
Mark(label, in) == Instr("label", 0, label, in)
Goto(label) == Instr("goto", 0, label, Unchecked)
Fork(label, in) == Instr("fork", 0, label, in)
Finally(n) == Instr("finally", n, NoLabel, Unchecked)

RunOneDefer_m(site, guarded) == Instr("run", site, NoLabel, Unchecked)
\* One `defer`, with or without a look at its flag; and one destructor.
RunOneDefer(site, guarded) ==
  Instr(IF guarded /\ site.flagged THEN "guarded" ELSE "run", site, NoLabel, Unchecked)
Destroy(object) == Instr("destroy", object, NoLabel, Unchecked)

Above(list, keep) == SubSeq(list, keep + 1, Len(list))
Backwards(list, Do(_)) == LET r == Reverse(list) IN [i \in DOMAIN r |-> Do(r[i])]

RunDeferred_m(sites) == [i \in DOMAIN sites |-> RunOneDefer(sites[i], FALSE)]
RunDeferred(sites) == Backwards(sites, LAMBDA s : RunOneDefer(s, FALSE))
DestroyEach(objects) == Backwards(objects, Destroy)

\* What every way out emits: the deferred blocks, then the destructors.
TakeDown(sites, objects) == RunDeferred(sites) \o DestroyEach(objects)
TakeDownTo(defers, objects) == TakeDown(Above(deferred, defers), Above(scoped, objects))

\* The `try` whose body this is in, and the loop; 0 where there is none.
InnermostOf(kind) ==
  LET those == {i \in DOMAIN open : open[i].kind = kind}
  IN IF those = {} THEN 0 ELSE CHOOSE i \in those : \A j \in those : j <= i
Handler == InnermostOf("try")
Landing == IF Handler = 0 THEN NoLabel ELSE <<"landing", open[Handler].n>>
KeptDefers_m(i) == open[i].defers
\* A handler is as deep as its `try`, above the `finally`.
KeptDefers(i) == open[i].defers + (IF open[i].finally THEN 1 ELSE 0)

\* The next statement, where one can be reached.
Writes == /\ pc = Lowering /\ written < MaxStatements
          /\ code # <<>> => Last(code).op \notin {"goto", "raise", "return"}
          /\ written' = written + 1
          /\ UNCHANGED running
New == written + 1
-----------------------------------------------------------------------------
Permitted(gap, hit) == hit => gap \in Gaps

\* Blocks are left from the innermost down to and without the i-th.
LeftAbove(i) == {open[j] : j \in i + 1 .. Len(open)}
LeavesWell(i) ==
  /\ Permitted("locked", \E c \in LeftAbove(i) : c.kind = "synchronized")
  /\ Permitted("catch", \E c \in LeftAbove(i) : c.kind = "catch" /\ c.finally)

\* A `defer` in a `try` that may be left before the `defer`, go past it, or come again.
DefersWell ==
  Permitted("late", /\ Handler # 0
                    /\ \/ \E i \in DOMAIN code : code[i].to = Landing
                       \/ \E c \in LeftAbove(Handler) : c.kind \in {"if", "catch"}
                       \/ InnermostOf("loop") # 0)

\* A `delete` of another block's object, or in a `try` that may be left before it.
DeletesWell(k) ==
  Permitted("deleted", \/ open # <<>> /\ k <= Last(open).objects
                       \/ Handler # 0 /\ \E i \in DOMAIN code : code[i].to = Landing)

\* A block's own declarations: not those of a `catch`, which has no scope of its own.
DeclaresWell == Permitted("caught", open # <<>> /\ Last(open).kind = "catch")
-----------------------------------------------------------------------------
\* A flag only inside a `try`, where the block can be left twice.
LowerDefer ==
  /\ Writes /\ DefersWell /\ DeclaresWell
  /\ LET site == [body |-> New, flagged |-> Handler # 0]
     IN /\ deferred' = Append(deferred, site)
        /\ lateDefers' = IF Handler # 0 THEN Append(lateDefers, site) ELSE lateDefers
  /\ code' = Append(code, Stmt("defer", New, NoLabel))
  /\ UNCHANGED <<open, scoped, lateObjects>>

LowerObject_m ==
  /\ Writes /\ DeclaresWell
  /\ scoped' = Append(scoped, New)
  /\ code' = Append(code, Stmt("new", New, NoLabel))
  /\ UNCHANGED <<open, deferred, lateDefers, lateObjects>>

LowerObject ==
  /\ Writes /\ DeclaresWell
  /\ scoped' = Append(scoped, New)
  /\ lateObjects' = IF Handler # 0 THEN Append(lateObjects, New) ELSE lateObjects
  /\ code' = Append(code, Stmt("new", New, NoLabel))
  /\ UNCHANGED <<open, deferred, lateDefers>>

\* `delete` takes the object off the lists, wherever it stands in them.
LowerDelete ==
  /\ Writes
  /\ \E k \in DOMAIN scoped :
       /\ DeletesWell(k)
       /\ LET Kept(list) == SelectSeq(list, LAMBDA o : o # scoped[k])
          IN scoped' = Kept(scoped) /\ lateObjects' = Kept(lateObjects)
       /\ code' = Append(code, Stmt("delete", scoped[k], NoLabel))
  /\ UNCHANGED <<open, deferred, lateDefers>>

LowerCall ==
  /\ Writes /\ LeavesWell(0)
  /\ Handler # 0 \/ "through" \in Gaps
  /\ code' = Append(code, Stmt("call", New, Landing))
  /\ UNCHANGED <<open, lists>>

\* A throw takes down what its own method has up to the handler, and leaves.
LowerThrow ==
  /\ Writes /\ LeavesWell(0)
  /\ code' = code
       \o (IF Handler = 0 THEN TakeDown(deferred, scoped) \o <<Instr("raise", New, NoLabel, <<>>)>>
           ELSE TakeDownTo(KeptDefers(Handler), open[Handler].objects)
                \o <<Instr("raise", New, Landing, Front(Path(SubSeq(open, 1, Handler))))>>)
  /\ UNCHANGED <<open, lists>>

LowerReturn ==
  /\ Writes /\ LeavesWell(0)
  /\ code' = code \o TakeDown(deferred, scoped) \o <<Instr("return", New, NoLabel, <<>>)>>
  /\ UNCHANGED <<open, lists>>

LowerJump_m(to) ==
  /\ Writes /\ InnermostOf("loop") # 0
  /\ LET loop == InnermostOf("loop")
     IN /\ LeavesWell(loop - 1)
        /\ code' = code \o TakeDownTo(Last(open).defers, Last(open).objects)
                        \o <<Goto(<<to, open[loop].n>>)>>
  /\ UNCHANGED <<open, lists>>

\* `break` and `continue`.
LowerJump(to) ==
  /\ Writes /\ InnermostOf("loop") # 0
  /\ LET loop == InnermostOf("loop")
     IN /\ LeavesWell(loop - 1)
        /\ code' = code \o TakeDownTo(open[loop].defers, open[loop].objects)
                        \o <<Goto(<<to, open[loop].n>>)>>
  /\ UNCHANGED <<open, lists>>
-----------------------------------------------------------------------------
\* A block starts; it knows how long the lists were.
Opens(kind, finally, catches, scopes) ==
  /\ Writes /\ Len(open) < MaxDepth
  /\ open' = Append(open, [kind |-> kind, n |-> New, finally |-> finally, catches |-> catches,
                           scopes |-> scopes,
                           defers |-> Len(deferred), objects |-> Len(scoped),
                           lateDefers |-> Len(lateDefers), lateObjects |-> Len(lateObjects)])

OpenIf == /\ Opens("if", FALSE, FALSE, <<<<"body", New>>>>)
          /\ code' = Append(code, Fork(<<"done", New>>, Path(open)))
          /\ UNCHANGED lists

OpenLoop == /\ Opens("loop", FALSE, FALSE, <<<<"body", New>>>>)
            /\ code' = code \o <<Mark(<<"head", New>>, Path(open)), Fork(<<"done", New>>, Path(open))>>
            /\ UNCHANGED lists

Locked == <<"locked", New>>
OpenSynchronized ==
  /\ Opens("synchronized", FALSE, FALSE, <<Locked, <<"body", New>>>>)
  /\ code' = Append(code, Instr("acquire", New, NoLabel, Append(Path(open), Locked)))
  /\ UNCHANGED lists

\* The resource is an object of the block, wherever it is stored.
OpenUsing ==
  /\ Opens("using", FALSE, FALSE, <<<<"body", New>>>>)
  /\ scoped' = Append(scoped, New)
  /\ lateObjects' = IF Handler # 0 THEN Append(lateObjects, New) ELSE lateObjects
  /\ code' = Append(code, Instr("new", New, NoLabel, Append(Path(open), <<"body", New>>)))
  /\ UNCHANGED <<deferred, lateDefers>>

\* `finally` is deferred as long as the body is lowered.
OpenTry(finally, catches) ==
  /\ finally \/ catches
  /\ Opens("try", finally, catches, <<<<"try", New>>, <<"body", New>>>>)
  /\ IF finally
     THEN /\ deferred' = Append(deferred, [body |-> New, flagged |-> FALSE])
          /\ code' = Append(code, Instr("try", New, NoLabel, Append(Path(open), <<"try", New>>)))
     ELSE UNCHANGED <<deferred, code>>
  /\ UNCHANGED <<scoped, lateDefers, lateObjects>>

\* No block is empty.
Closes(kinds) == /\ pc = Lowering /\ open # <<>>
                 /\ Last(open).kind \in kinds /\ written > Last(open).n
\* Back to the length the block found, not longer: a `delete` may have shortened the list.
Shrunk(list, to) == SubSeq(list, 1, IF to < Len(list) THEN to ELSE Len(list))
Shrinks(c) == deferred' = Shrunk(deferred, c.defers) /\ scoped' = Shrunk(scoped, c.objects)

\* lowerScope, and what the statement around it emits behind it.
CloseScope ==
  /\ Closes({"if", "loop", "synchronized", "using"})
  /\ LET c == Last(open)
         back == CASE c.kind \in {"if", "using"} -> <<>>
                   [] c.kind = "loop" -> <<Goto(<<"head", c.n>>)>>
                   [] c.kind = "synchronized" -> <<Instr("release", c.n, NoLabel, Unchecked)>>
     IN /\ Shrinks(c)
        /\ code' = code \o TakeDownTo(c.defers, c.objects) \o back
                        \o <<Mark(<<"done", c.n>>, Path(Front(open)))>>
  /\ open' = Front(open)
  /\ UNCHANGED <<lateDefers, lateObjects, written, running>>

Ends(c) == IF c.finally THEN <<Finally(c.n)>> ELSE <<>>

Rethrow_m(c, sites, objects) ==
  LET outer == SelectSeq(Front(open), LAMBDA b : b.kind = "try")
  IN Ends(c) \o (IF outer = <<>> THEN <<Instr("resume", c.n, NoLabel, <<>>)>>
                 ELSE <<Instr("resume", c.n, <<"landing", Last(outer).n>>, Unchecked)>>)

\* No clause took it: the exception goes on, out of the method or to the next handler.
Rethrow(c, sites, objects) ==
  LET outer == SelectSeq(Front(open), LAMBDA b : b.kind = "try")
  IN Ends(c) \o (IF outer = <<>> THEN TakeDown(sites, objects) \o <<Instr("resume", c.n, NoLabel, <<>>)>>
                 ELSE <<Instr("resume", c.n, <<"landing", Last(outer).n>>, Unchecked)>>)

\* The end of a `try` body: once for the closing brace, once for the landing.
CloseTry ==
  /\ Closes({"try"})
  /\ LET c == Last(open)
         after == Mark(<<"after", c.n>>, Path(Front(open)))
         catch == [c EXCEPT !.kind = "catch", !.scopes = <<<<"try", c.n>>, <<"catch", c.n>>>>]
         fell == TakeDownTo(KeptDefers(Len(open)), c.objects) \o Ends(c) \o <<Goto(<<"after", c.n>>)>>
         landed == <<Mark(<<"landing", c.n>>, Unchecked)>>
                     \o Backwards(Above(lateDefers, c.lateDefers), LAMBDA s : RunOneDefer(s, TRUE))
                     \o DestroyEach(Above(lateObjects, c.lateObjects))
         unwinds == \E i \in DOMAIN code : code[i].to = <<"landing", c.n>>
     IN /\ Shrinks(c)
        /\ lateDefers' = Shrunk(lateDefers, c.lateDefers)
        /\ lateObjects' = Shrunk(lateObjects, c.lateObjects)
        /\ \/ /\ ~unwinds
              /\ open' = Front(open)
              /\ code' = code \o fell \o <<after>>
           \/ /\ unwinds /\ c.catches
              /\ open' = Append(Front(open), catch)
              /\ code' = code \o fell \o landed
                              \o <<Fork(<<"next", c.n>>, Front(Path(open)))>>
           \/ /\ unwinds /\ ~c.catches
              /\ open' = Front(open)
              /\ code' = code \o fell \o landed \o Rethrow(c, deferred', scoped') \o <<after>>
  /\ UNCHANGED <<written, running>>

CloseCatch ==
  /\ Closes({"catch"})
  /\ LET c == Last(open)
     IN code' = code \o Ends(c) \o <<Goto(<<"after", c.n>>), Mark(<<"next", c.n>>, Unchecked)>>
                     \o Rethrow(c, deferred, scoped) \o <<Mark(<<"after", c.n>>, Path(Front(open)))>>
  /\ open' = Front(open)
  /\ UNCHANGED <<lists, written, running>>

\* Falling off the end is an exit like any other.
CloseMethod ==
  /\ pc = Lowering /\ open = <<>> /\ written > 0
  /\ code' = code \o TakeDown(deferred, scoped) \o <<Instr("return", 0, NoLabel, <<>>)>>
  /\ pc' = 1
  /\ UNCHANGED <<open, lists, written, built, ran, owed>>
-----------------------------------------------------------------------------
\* The method runs.
At(ops) == pc \in DOMAIN code /\ code[pc].op \in ops
Now == code[pc]
Goes == pc' = pc + 1
Jumps == pc' = IF Now.to = NoLabel THEN Over
               ELSE CHOOSE i \in DOMAIN code : code[i].op = "label" /\ code[i].to = Now.to
Lowered == UNCHANGED <<open, lists, code, written>>

\* What a piece of code takes down.
Due == CASE Now.op \in {"run", "guarded"} -> Now.arg.body
         [] OTHER -> Now.arg
Rest == SelectSeq(owed, LAMBDA d : d.n # Due)

Pass == At({"label"}) /\ Goes /\ Lowered /\ UNCHANGED <<built, ran, owed>>

\* A `defer` is passed, an object built, a lock taken, a `try` with a `finally` entered.
SetUp == /\ At({"defer", "new", "acquire", "try"}) /\ Goes
         /\ owed' = Append(owed, [n |-> Now.arg, kind |-> Now.op, scope |-> Last(Now.in)])
         /\ built' = IF Now.op = "new" THEN built \cup {Now.arg} ELSE built
         /\ Lowered /\ UNCHANGED ran

Skips == \/ Now.op = "guarded" /\ Now.arg.body \in ran
         \/ Now.op \in {"destroy", "delete"} /\ Now.arg \notin built

\* A deferred block runs and sets its flag, unless it asks and the flag is set.
RunDefer == /\ At({"run", "guarded"}) /\ Goes
            /\ IF Skips THEN UNCHANGED <<owed, ran>>
               ELSE /\ owed' = Rest
                    /\ ran' = IF Now.arg.flagged THEN ran \cup {Now.arg.body} ELSE ran
            /\ Lowered /\ UNCHANGED built

DestroyObject_m == /\ At({"destroy", "delete"}) /\ Goes
                   /\ owed' = IF Skips THEN owed ELSE Rest
                   /\ Lowered /\ UNCHANGED <<built, ran>>

\* An object is destroyed and its slot emptied, unless it is.
DestroyObject == /\ At({"destroy", "delete"}) /\ Goes
                 /\ IF Skips THEN UNCHANGED <<owed, built>>
                    ELSE owed' = Rest /\ built' = built \ {Now.arg}
                 /\ Lowered /\ UNCHANGED ran

EndBlock == /\ At({"finally", "release"}) /\ Goes
            /\ owed' = Rest
            /\ Lowered /\ UNCHANGED <<built, ran>>

\* A condition, or whether the clause takes the exception.
Branch == /\ At({"fork"})
          /\ Goes \/ Jumps
          /\ Lowered /\ UNCHANGED <<built, ran, owed>>

\* Outside a `try` an exception passes through the method as if it were not there.
Call == /\ At({"call"})
        /\ Goes \/ ((Now.to # NoLabel \/ "through" \in Gaps) /\ Jumps)
        /\ Lowered /\ UNCHANGED <<built, ran, owed>>

Leave == /\ At({"goto", "raise", "resume", "return"})
         /\ Jumps
         /\ Lowered /\ UNCHANGED <<built, ran, owed>>

Next == \/ LowerDefer \/ LowerObject \/ LowerDelete \/ LowerCall \/ LowerThrow \/ LowerReturn
        \/ LowerJump("done") \/ LowerJump("head")
        \/ OpenIf \/ OpenLoop \/ OpenSynchronized \/ OpenUsing
        \/ \E finally, catches \in BOOLEAN : OpenTry(finally, catches)
        \/ CloseScope \/ CloseTry \/ CloseCatch \/ CloseMethod
        \/ Pass \/ SetUp \/ RunDefer \/ DestroyObject \/ EndBlock \/ Branch \/ Call \/ Leave

Spec == Init /\ [][Next]_vars
-----------------------------------------------------------------------------
Places == pc = Over \/ (pc \in DOMAIN code /\ Now.in # Unchecked)
Around == IF pc = Over THEN {} ELSE ToSet(Now.in)

(* Wherever the source goes on, and when the method is over, nothing of a  *)
(* block that was left is still to be taken down.                          *)
NothingLeft == Places => \A i \in DOMAIN owed : owed[i].scope \in Around

TakesDown == At({"run", "guarded", "destroy", "delete", "finally", "release"}) /\ ~Skips

(* What is taken down was set up and not taken down since: the flag and    *)
(* the emptied slot stop the landing where the body was left in order.     *)
OnlyOwed == TakesDown => \E i \in DOMAIN owed : owed[i].n = Due

Class(kind) == CASE kind = "new" -> "objects" [] kind = "acquire" -> "locks" [] OTHER -> "blocks"

(* Deferred blocks and `finally`s run, and objects are destroyed, in the   *)
(* order opposite to that in which they were set up.                       *)
NewestFirst == TakesDown /\ Now.op # "delete" => \A i, j \in DOMAIN owed :
                 owed[i].n = Due /\ i < j => Class(owed[j].kind) # Class(owed[i].kind)

\* Everything is taken down once, in turn.
InTurn == OnlyOwed /\ NewestFirst

(* "Registered as a scope cleanup, which means it runs on both normal exit *)
(* and exception unwinding": nobody has the lock who is not in the block.  *)
HeldOnlyInside == Places => \A i \in DOMAIN owed :
                    owed[i].kind = "acquire" => owed[i].scope \in Around

(* "The deferred block runs whether the method returns normally or an      *)
(* exception tears through it": none is owed when the method is over.      *)
DefersRun == pc = Over => \A i \in DOMAIN owed : owed[i].kind # "defer"
=============================================================================
