----------------------------- MODULE TestVerdict -----------------------------
(***************************************************************************)
(* What the manual promises of one test (docs/HsaPrmConformance.md): "The  *)
(* test is deemed passed if all scenario steps (including validation) are  *)
(* successful."  Steps succeed one at a time, then the verdict is given,   *)
(* once; it is PASSED exactly when nothing is left to succeed.             *)
(***************************************************************************)
EXTENDS Naturals

VARIABLES
    steps,      \* the steps of the scenario, of all its threads
    done,       \* those that were executed and succeeded
    verdict     \* "none" while the test is running

vars == <<steps, done, verdict>>

Init == done = {} /\ verdict = "none"

Succeed ==
    /\ verdict = "none"
    /\ \E s \in steps \ done : done' = done \cup {s}
    /\ UNCHANGED <<steps, verdict>>

Decide ==
    /\ verdict = "none"
    /\ verdict' \in (IF done = steps THEN {"PASSED"} ELSE {"FAILED", "NA"})
    /\ UNCHANGED <<steps, done>>

Next == Succeed \/ Decide

Spec == Init /\ [][Next]_vars
=============================================================================
