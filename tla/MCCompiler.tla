----------------------------- MODULE MCCompiler ------------------------------
(* The compiler: what the analyzer knows of a variable, how the blocks of  *)
(* a method are taken down, what the passes may leave out, and what the    *)
(* loader of a bundle keeps compiled.  They share no state; Init says      *)
(* which of them a behaviour is about, and the others stay as they are.    *)
EXTENDS MCPir, BundleCache, FiniteSets

CONSTANTS MaxStatements, MaxDepth, MaxSize

VARIABLES kind,
          last, size, facts, values, wrong,
          open, deferred, scoped, lateDefers, lateObjects, code, written,
          pc, built, ran, owed

scopeVars == <<open, deferred, scoped, lateDefers, lateObjects, code, written, pc, built, ran, owed>>

(* The blocks of up to three statements, those inside others counted; none *)
(* has one behind a jump, and no jump is out of a loop.                    *)
St(op, on, body, other) == [op |-> op, on |-> on, body |-> body, other |-> other]
Simple(ops) == {St(op, "none", <<>>, <<>>) : op \in ops}
Going == Simple({"read", "give", "move", "delete", "new", "null", "call"})

\* What holds a block, and what holds two; the first may be a loop's.
One(b, loop) == {St("if", on, x, <<>>) : on \in {"none", "null?", "object?"}, x \in b}
                  \cup {St("while", on, x, <<>>) : on \in {"none", "object?"}, x \in loop}
                  \cup {St(op, "none", x, <<>>) : op \in {"do", "foreach", "for"}, x \in loop}
Update(loop) == {St("for", on, x, <<>>) : on \in {"new", "null", "read"}, x \in loop}
Two(b, c) == {St("if", on, x, y) : on \in {"none", "null?", "object?"}, x \in b, y \in c}
               \cup {St(op, "none", x, y) : op \in {"switch", "try"}, x \in b, y \in c}

Ending(s) == {<<x>> : x \in s}
Before(s, b) == {<<x>> \o y : x \in s, y \in b}

\* B for blocks, L for the bodies of loops; S and T for what goes on in them.
B1 == Ending(Going \cup Simple({"return"}))
L1 == Ending(Going \cup Simple({"return", "break", "continue"}))
S2 == One(B1, L1)
T2 == One(L1, L1)
B2 == Ending(S2) \cup Before(Going, B1)
L2 == Ending(T2) \cup Before(Going, L1)
S3 == One(B2, L2) \cup Update(L1) \cup Two(B1, B1)
T3 == One(L2, L2) \cup Update(L1) \cup Two(L1, L1)
B3 == Ending(S3) \cup Before(Going, B2) \cup Before(S2, B1)
L3 == Ending(T3) \cup Before(Going, L2) \cup Before(T2, L1)
AllBlocks == <<B1, B2, B3>>
AllBodies == <<L1, L2, L3>>
-----------------------------------------------------------------------------
\* Every method but those that Scopes tells the code gets wrong.
Method == INSTANCE Scopes WITH Gaps <- {}

\* Every statement but those that FlowFacts tells the analyzer gets wrong.
Local == INSTANCE FlowFacts WITH Arms <- AllBlocks, Bodies <- AllBodies, Gaps <- {}
flowVars == <<last, size, facts, values, wrong>>

\* A bundle whose code changes only with its interface.
Published == {[interface |-> i, code |-> i] : i \in Interfaces}
allVars == <<vars, scopeVars, flowVars, bundleVars>>

ASSUME CacheFits == CacheAssumption /\ OneOfAnInterface /\ OneLoader

NoProgram == /\ prog = <<>> /\ plan = <<>> /\ stack = <<>>
             /\ mem = <<>> /\ objs = <<>> /\ patched = {}

NoLocal == /\ last = "none" /\ size = 0 /\ wrong = FALSE
           /\ facts = Local!Start("yes", FALSE) /\ values = {"object", "null"}

CompilerInit == /\ Method!Init /\ BundleInit
                /\ \/ kind = "facts" /\ Local!FlowInit /\ NoProgram
                   \/ kind = "passes" /\ Init /\ NoLocal
                   \/ kind \in {"scopes", "bundles"} /\ NoProgram /\ NoLocal
                /\ kind # "bundles" => published.interface = 1

CompilerNext ==
  /\ \/ kind = "facts" /\ Local!FlowNext /\ UNCHANGED <<vars, scopeVars, bundleVars>>
     \/ kind = "passes" /\ Next /\ UNCHANGED <<scopeVars, flowVars, bundleVars>>
     \/ kind = "scopes" /\ Method!Next /\ UNCHANGED <<vars, flowVars, bundleVars>>
     \/ kind = "bundles" /\ BundleNext /\ UNCHANGED <<vars, scopeVars, flowVars>>
  /\ UNCHANGED kind

CompilerSpec == CompilerInit /\ [][CompilerNext]_<<kind, allVars>>
-----------------------------------------------------------------------------
\* The analyzer accepts no wrong use of a variable: see FlowFacts.
FactsHold == Local!FactsHold

(* Whatever way a block is left, nothing of it is still to be taken down,  *)
(* and everything is taken down once, the newest first: see Scopes.        *)
TakenDownInTurn == Method!NothingLeft /\ Method!InTurn
=============================================================================
