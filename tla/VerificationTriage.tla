------------------------- MODULE VerificationTriage -------------------------
(***************************************************************************)
(* What a test run before a change and one after it say of the change      *)
(* (services/verification_triage.py).                                      *)
(*                                                                         *)
(* A result is [code, failures, noTests]: the exit code, the test files    *)
(* and tests its output names as FAILED or ERROR, and whether it has       *)
(* pytest's summary of a run without tests.  A command is a sequence of    *)
(* tokens, without directories and in lower case.                          *)
(*                                                                         *)
(* A definition named Seeded... is the one after it with a bug.            *)
(***************************************************************************)
EXTENDS Naturals, Sequences

NoTests == "pytest:no_tests_collected"

Passed(result) == result.code = 0

(* uv run is looked through, python -m as well.                            *)
Unwrapped(command) ==
  IF command[1] = "uv" THEN SubSeq(command, 3, Len(command)) ELSE command

VerificationTool(command) ==
  IF \/ command = << >>
     \/ command[1] = "uv" /\ (Len(command) < 3 \/ command[2] # "run")
    THEN "none"
    ELSE LET tokens == Unwrapped(command)
         IN  IF tokens[1] = "python" /\ Len(tokens) >= 3 /\ tokens[2] = "-m"
               THEN tokens[3] ELSE tokens[1]

IsPytest(command) == VerificationTool(command) = "pytest"

FailureIdentities(result) ==
  result.failures \cup (IF result.code = 5 /\ result.noTests THEN {NoTests} ELSE {})

(* Only what pytest names can be interpreted in a failed run.              *)
Summarize(command, result) ==
  LET failures == IF Passed(result) \/ ~IsPytest(command) THEN {}
                  ELSE FailureIdentities(result)
  IN  [passed |-> Passed(result),
       failures |-> failures,
       interpretable |-> Passed(result) \/ failures # {}]

SeededNewFailures(baseline, post) ==
  IF baseline.failures # {} THEN {} ELSE post.failures

NewFailures(baseline, post) ==
  IF baseline.passed THEN post.failures ELSE post.failures \ baseline.failures

(* compare_verification.                                                   *)
Allowed(baseline, post) ==
  /\ baseline.interpretable
  /\ post.interpretable
  /\ post.passed \/ (~baseline.passed /\ NewFailures(baseline, post) = {})

(* establish_baseline, of the workspace [repository, dirty] and what the   *)
(* run does: it raises, or has a result and moves HEAD or changes files    *)
(* (moved, changed).  Outside of a repository nothing is guarded.          *)
SeededUntouched(workspace, run) == workspace.repository => ~run.changed

Untouched(workspace, run) == workspace.repository => ~run.moved /\ ~run.changed

Established(workspace, command, run) ==
  /\ workspace.repository => ~workspace.dirty
  /\ ~run.raised
  /\ Untouched(workspace, run)
  /\ Summarize(command, run.result).interpretable
=============================================================================
