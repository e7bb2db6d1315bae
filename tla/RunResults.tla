----------------------------- MODULE RunResults -----------------------------
(***************************************************************************)
(* What a runner returns of a command (internal/diag/transport, fake.go)   *)
(* and the status the service makes of it (internal/diag/service.go).      *)
(***************************************************************************)
EXTENDS Integers

\* A runner's result: the error it returned ("none", or which of the words
\* statusFromRun looks for its text holds) and the exit code.
Errors  == {"none", "timeout", "unreachable", "other"}
Outcome == [err : Errors, exit : {-1, 0, 1}]

\* What a runner can return once the device (or the script) answers. A real
\* runner's error is nil exactly when the exit code is 0; an exec.ExitError
\* ("exit status 1") has none of the words statusFromRun looks for.
AnswersOf(runner) ==
  {o \in Outcome : /\ runner \in {"ssh", "exec"} => (o.err = "none" <=> o.exit = 0)
                   /\ runner = "exec" => o.err \in {"none", "other"}}

\* The errors of a command that was not run: the dial's, or "exit status 255" of the
\* ssh process.
FailuresOf(runner) == IF runner = "exec" THEN {"other"} ELSE Errors \ {"none"}

\* Mutant of StatusFromRun: a login the device rejects is reported as denied
StatusFromRunDenied(ctx, run, kind) ==
  IF ctx = "expired" THEN "timeout"
  ELSE IF run.err = "other" THEN "denied"
  ELSE IF run.err # "none" THEN run.err
  ELSE IF run.exit = 0 THEN "ok"
  ELSE IF kind = "ping" THEN "unreachable" ELSE "error"

\* statusFromRun; ctx is why the command's context ended, or "live"
StatusFromRun(ctx, run, kind) ==
  CASE ctx = "expired"                                     -> "timeout"
    [] ctx # "expired" /\ run.err = "timeout"              -> "timeout"
    [] ctx # "expired" /\ run.err = "unreachable"          -> "unreachable"
    [] ctx # "expired" /\ run.err = "other"                -> "error"
    [] ctx # "expired" /\ run.err = "none" /\ run.exit = 0 -> "ok"
    [] ctx # "expired" /\ run.err = "none" /\ run.exit # 0 ->
         IF kind = "ping" THEN "unreachable" ELSE "error"

Statuses == {"ok", "unreachable", "timeout", "denied", "needs_approval", "error"}
=============================================================================
