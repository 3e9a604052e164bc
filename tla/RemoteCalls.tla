----------------------------- MODULE RemoteCalls ------------------------------
(* What a caller in one program may rely on when the object is in another: *)
(* a call it was told has succeeded was carried out, once and for it; one  *)
(* that failed may have been carried out, may be later, or never.          *)
CONSTANTS Calls

VARIABLES run,      \* the calls that were carried out
          ended     \* what the callers were told: a set of <<call, outcome>>

Init == run = {} /\ ended = {}

Known(call) == \E end \in ended : end[1] = call

Run(call) == call \notin run /\ run' = run \cup {call} /\ UNCHANGED ended

Succeed(call) == /\ call \in run /\ ~Known(call)
                 /\ ended' = ended \cup {<<call, "succeeded">>} /\ UNCHANGED run

Fail(call) == /\ ~Known(call)
              /\ ended' = ended \cup {<<call, "failed">>} /\ UNCHANGED run

Next == \E call \in Calls : Run(call) \/ Succeed(call) \/ Fail(call)

Spec == Init /\ [][Next]_<<run, ended>>
=============================================================================
