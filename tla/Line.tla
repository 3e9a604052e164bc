-------------------------------- MODULE Line ---------------------------------
(* What a double-ended queue promises: a line of items with two ends.      *)
EXTENDS Integers, Sequences

CONSTANTS Items, Nothing

VARIABLES line, taken

Init == line = << >> /\ taken = Nothing

Add(x) == line' \in {Append(line, x), <<x>> \o line} /\ UNCHANGED taken
RemoveFirst == line # << >> /\ taken' = Head(line) /\ line' = Tail(line)
RemoveLast == line # << >> /\ taken' = line[Len(line)] /\ line' = SubSeq(line, 1, Len(line) - 1)

Next == (\E x \in Items : Add(x)) \/ RemoveFirst \/ RemoveLast
Spec == Init /\ [][Next]_<<line, taken>>
=============================================================================
