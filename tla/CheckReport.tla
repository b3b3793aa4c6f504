---------------------------- MODULE CheckReport ----------------------------
(***************************************************************************)
(* The shape in which the input gateway and the verifier report their      *)
(* checks (passport/check.go).  A list of checks is given by its outcomes: *)
(* outcomes[i] is what the i-th check returns when it is run, NoError when  *)
(* it passes.  The checks of this program read state and never write it,   *)
(* so a check that is skipped may as well have an outcome.                 *)
(***************************************************************************)
EXTENDS Integers, Sequences

NoError == "nil"

(* What the caller learns of the i-th check.                               *)
Status(outcomes, i) ==
    IF \E j \in 1..(i - 1) : outcomes[j] # NoError THEN "skipped"
    ELSE IF outcomes[i] = NoError THEN "ok" ELSE "fail"

Report(outcomes) == [i \in 1..Len(outcomes) |-> Status(outcomes, i)]

Passed(outcomes) == \A i \in 1..Len(outcomes) : outcomes[i] = NoError

(* The failure that stopped the run, or NoError.                           *)
FirstError(outcomes) ==
    IF Passed(outcomes) THEN NoError
    ELSE outcomes[CHOOSE i \in 1..Len(outcomes) :
                    /\ outcomes[i] # NoError
                    /\ \A j \in 1..(i - 1) : outcomes[j] = NoError]
=============================================================================
