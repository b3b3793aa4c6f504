------------------------------ MODULE CheckRun ------------------------------
(***************************************************************************)
(* passport/check.go: one CheckRun, filled by successive calls of Do.      *)
(* The caller's functions are the environment: each call of Do brings the  *)
(* outcome its function would return.  `outcomes` remembers them, so that  *)
(* the report the code builds step by step can be compared with the        *)
(* declarative one of CheckReport, which the gateway and the verifier use. *)
(* Its formulas have names of their own, so that a module about one of     *)
(* those two can extend it.                                                *)
(***************************************************************************)
EXTENDS CheckReport

CONSTANTS
    Errors,     \* the failures a check may return
    MaxChecks   \* bound on the number of checks in one run

ASSUME ErrorsAssumption == NoError \notin Errors
ASSUME MaxChecksAssumption == MaxChecks \in Nat

VARIABLES
    checks,     \* CheckRun.checks, the statuses in call order
    err,        \* CheckRun.err
    outcomes    \* history: what each function passed to Do would return

runVars == <<checks, err, outcomes>>

RunInit ==
    /\ checks = <<>>
    /\ err = NoError
    /\ outcomes = <<>>

(* Mutant: a Do that runs the check although an earlier one failed.        *)
StatusWithoutSkip(outcome) == IF outcome # NoError THEN "fail" ELSE "ok"

StatusOf(outcome) ==
    IF err # NoError THEN "skipped"
    ELSE IF outcome # NoError THEN "fail" ELSE "ok"

(* Mutant: a later failure overwrites the one that stopped the run.        *)
LastError(outcome) == IF outcome # NoError THEN outcome ELSE err

ErrorAfter(outcome) == IF err # NoError THEN err ELSE outcome

Do(outcome) ==
    /\ Len(checks) < MaxChecks
    /\ checks' = Append(checks, StatusOf(outcome))
    /\ err' = ErrorAfter(outcome)
    /\ outcomes' = Append(outcomes, outcome)

RunNext == \E outcome \in Errors \cup {NoError} : Do(outcome)

RunSpec == RunInit /\ [][RunNext]_runVars

-----------------------------------------------------------------------------
(* Types of the run.                                                       *)
RunTypeOK ==
    /\ checks \in Seq({"ok", "fail", "skipped"})
    /\ err \in Errors \cup {NoError}
    /\ outcomes \in Seq(Errors \cup {NoError})

(* The report has one entry per check, in order: ok up to the first        *)
(* failure, fail there, skipped after it (the comment on CheckRun).        *)
ReportIsDeclarative == checks = Report(outcomes)

(* Err is the failure that stopped the run, whatever later checks return.  *)
ErrIsFirstFailure == err = FirstError(outcomes)
=============================================================================
