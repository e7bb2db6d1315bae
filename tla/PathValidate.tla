---------------------------- MODULE PathValidate ----------------------------
(***************************************************************************)
(* Service.ValidatePath (internal/diag/service.go): the path of a flow is  *)
(* traced, then every device on it is asked to ping the next one, and the  *)
(* verdict is compared with what the pings show. Each ping is a request of *)
(* its own to Service.Diagnose, one after the other; sessions, deadlines   *)
(* and audit entries are those of DiagService.                             *)
(***************************************************************************)
EXTENDS PathTrace, RunResults

CONSTANTS
  Runners,   \* the runners a service may be built with, or "none"
  Formats,   \* how devices print a ping: see Printed
  Count      \* echo requests of a check: 3 in the code

ASSUME PathValidateAssumption ==
  /\ Runners \subseteq {"ssh", "exec", "simulate", "none"}
  /\ Formats \subseteq {"rate", "stats", "marks", "bare", "table"}
  /\ Count \in Nat \ {0}
  /\ \A f \in Flows : f.dst # Unset   \* an empty address is a Malformed one

-----------------------------------------------------------------------------
(***************************************************************************)
(* A text is what the parsers look for in it: the replies counted by a     *)
(* "Success rate" line and by a "packets transmitted" line (-1 without     *)
(* one), whether it has a bare "min/avg/max =", how many "!" it has and    *)
(* whether it has a "." or a "?".                                          *)
(***************************************************************************)
PingText == [rate : -1..Count, stats : -1..Count, rtt : BOOLEAN, marks : Nat, dots : BOOLEAN]

NoText == [rate |-> -1, stats |-> -1, rtt |-> FALSE, marks |-> 0, dots |-> FALSE]
Prose  == [NoText EXCEPT !.dots = TRUE]   \* a sentence, or an address
Banner == [Prose EXCEPT !.marks = 3]      \* "!!! authorised use only !!!"

\* What a device prints of n replies
Printed(format, n) ==
  CASE format = "rate"  -> [Prose EXCEPT !.rate = n, !.rtt = n > 0, !.marks = n]  \* IOS
    [] format = "stats" -> [Prose EXCEPT !.stats = n]                             \* Junos, Linux
    [] format = "marks" -> [NoText EXCEPT !.marks = n, !.dots = n < Count]        \* "!!!"
    [] format = "bare"  -> [Prose EXCEPT !.stats = n, !.rtt = n > 0]              \* FortiOS
    [] format = "table" -> Prose                                                  \* RouterOS

\* A format that prints "!" at each reply, not a line
PrintsMarks(format) == format \in {"rate", "marks"}

\* ... and what it can have printed when it is cut off after n, before its last line:
\* a line of a reply has dots in it, what comes before the first may have some
PrintedSoFar(format, n) ==
  IF PrintsMarks(format)
  THEN {[NoText EXCEPT !.marks = n, !.dots = d] : d \in BOOLEAN}
  ELSE {[NoText EXCEPT !.dots = d] : d \in {n > 0, TRUE}}

\* The parsers return the replies received, or -1 when they find nothing. The
\* loss says no more: it is 100 % exactly when a counted line shows no reply.
ParseCiscoPing(text)       == IF text.rate = -1 /\ text.rtt THEN 0 ELSE text.rate
ParseLinuxPing(text)       == text.stats
ParseExclamationPing(text) == IF text.marks = 0 /\ ~text.dots THEN -1 ELSE text.marks

\* Mutant of ParsePing: an answer that shows nothing counts as a reply
ParsePingOptimistic(text) ==
  IF ParseCiscoPing(text) # -1 THEN ParseCiscoPing(text)
  ELSE IF ParseLinuxPing(text) # -1 THEN ParseLinuxPing(text)
  ELSE IF text.dots THEN 1 ELSE ParseExclamationPing(text)

ParsePing(text) ==
  IF ParseCiscoPing(text) # -1 THEN ParseCiscoPing(text)
  ELSE IF ParseLinuxPing(text) # -1 THEN ParseLinuxPing(text)
  ELSE ParseExclamationPing(text)

\* Mutant of Observed: the status decides before the output
ObservedByStatus(text, status) ==
  IF status = "ok" THEN "reachable"
  ELSE IF status = "unreachable" THEN "unreachable"
  ELSE IF ParsePing(text) > 0 THEN "reachable"
  ELSE "inconclusive"

\* observedFromPing, and the status when nothing was parsed
Observed(text, status) ==
  IF ParsePing(text) > 0 THEN "reachable"
  ELSE IF ParsePing(text) = 0 THEN "unreachable"
  ELSE IF status = "ok" THEN "reachable"
  ELSE IF status = "unreachable" THEN "unreachable"
  ELSE "inconclusive"

-----------------------------------------------------------------------------
VARIABLES
  runner,     \* Service.Runner
  client,     \* whether the request's context is "live" or "cancelled"
  vpc,        \* "trace", "check", "answered", or "failed" with an error
  checks,     \* PathValidation.Checks
  observed,   \* PathValidation.ObservedVerdict
  agreement,  \* PathValidation.Agreement
  pings       \* what happened at the check of that place (history)

validateVars == <<runner, client, vpc, checks, observed, agreement, pings>>

ValidateInit ==
  /\ PathInit
  /\ runner \in Runners
  /\ client = "live"
  /\ vpc = "trace"
  /\ checks = << >>
  /\ observed = "none"
  /\ agreement = "none"
  /\ pings = << >>

Tracing == PathNext /\ UNCHANGED validateVars

TraceFails ==
  /\ vpc = "trace" /\ pc = "error"
  /\ vpc' = "failed"
  /\ UNCHANGED <<pathVars, runner, client, checks, observed, agreement, pings>>

Traced ==
  /\ vpc = "trace" /\ pc = "done"
  /\ vpc' = "check"
  /\ UNCHANGED <<pathVars, runner, client, checks, observed, agreement, pings>>

Disconnect ==
  /\ client = "live" /\ vpc = "check"
  /\ client' = "cancelled"
  /\ UNCHANGED <<pathVars, runner, vpc, checks, observed, agreement, pings>>

-----------------------------------------------------------------------------
\* The check of the next hop

Here == Len(checks) + 1

\* Mutants of PingTarget: the last hop is like the others
PingTargetNext(k) == hops[k].next

\* ... or every hop pings the destination
PingTargetDst(k) == flow.dst

PingTarget(k) == IF k = Len(hops) THEN flow.dst ELSE hops[k].next

\* resolveTarget looks the hop's device up by its name, and an empty name fails
Asked(k) == FirstOf({d \in DOMAIN inventory : inventory[d].host = inventory[hops[k].device].host})

CanPing(k) == inventory[hops[k].device].host # NoName /\ PingTarget(k) # Unset

Unpingable ==
  /\ vpc = "check" /\ Here <= Len(hops)
  /\ ~CanPing(Here)
  /\ vpc' = "failed"
  /\ UNCHANGED <<pathVars, runner, client, checks, observed, agreement, pings>>

\* What the pings remember of a text: marks of a greeting, or nothing that a parser
\* reads from a command that went well
Greets(text)         == text = Banner
Silent(text, status) == text = NoText /\ status = "ok"

\* pingCheck; text and result are the runner's, replies are the device's when it did
\* ping and 0 otherwise, told is whether the device got to say how many they are.
PingCheck(text, ctx, result, replies, told) ==
  LET status == StatusFromRun(ctx, result, "ping")
  IN
  /\ vpc = "check" /\ Here <= Len(hops)
  /\ CanPing(Here)
  /\ checks' = Append(checks, [from |-> hops[Here].device, target |-> PingTarget(Here),
                               observed |-> Observed(text, status)])
  /\ pings' = Append(pings, [from |-> Asked(Here), replies |-> replies, told |-> told,
                             unshown |-> Greets(text) \/ Silent(text, status)])
  /\ UNCHANGED <<pathVars, runner, client, vpc, observed, agreement>>

Contexts == {"live", "expired"}

PingRuns ==
  /\ runner # "none" /\ client = "live"
  /\ \E format \in Formats, n \in 0..Count, ctx \in Contexts, o \in AnswersOf(runner) :
       PingCheck(Printed(format, n), ctx, o, n, TRUE)

\* The device answers, but not with a ping: nothing, "Unknown command", "% Invalid
\* input detected ...". The exit code may be 0 all the same.
PingRefused ==
  /\ runner # "none" /\ client = "live"
  /\ \E text \in {NoText, Prose, Banner}, ctx \in Contexts, o \in AnswersOf(runner) :
       PingCheck(text, ctx, o, 0, TRUE)

\* The process of the exec runner dies with the context, its output so far stays.
PingKilled ==
  /\ runner = "exec"
  /\ \E format \in Formats, n \in 0..Count : \E text \in PrintedSoFar(format, n) :
       PingCheck(text, IF client = "live" THEN "expired" ELSE client,
                 [err |-> "other", exit |-> -1], n, PrintsMarks(format))

\* No session with the device: a dial or a login that fails, no script for the
\* simulation, a cancelled context. The exec runner returns what ssh printed.
Unsent ==
  IF runner = "exec" THEN {NoText, Prose, Banner} ELSE {NoText}

PingUnsent ==
  /\ runner # "none"
  /\ \E text \in Unsent, ctx \in Contexts, e \in FailuresOf(runner) :
       PingCheck(text, ctx, [err |-> e, exit |-> -1], 0, TRUE)

\* Diagnose returns the status "error" with its error, which pingCheck ignores.
NoRunner ==
  /\ runner = "none"
  /\ PingCheck(NoText, "live", [err |-> "other", exit |-> -1], 0, TRUE)

-----------------------------------------------------------------------------
Seen == {checks[k].observed : k \in DOMAIN checks}

ObservedVerdict ==
  IF checks = << >> THEN "inconclusive"
  ELSE IF checks[Len(checks)].observed = "unreachable" THEN "unreachable"
  ELSE IF "unreachable" \in Seen
       THEN IF "reachable" \in Seen THEN "partial" ELSE "unreachable"
  ELSE IF Seen = {"reachable"} THEN "reachable"
  ELSE "inconclusive"

\* computeAgreement
ComputeAgreement(predicted, seen) ==
  IF (predicted = "delivered") = (seen = "reachable") THEN "match"
  ELSE IF predicted # "delivered" /\ seen \in {"unreachable", "partial"} THEN "match"
  ELSE "mismatch"

Answer ==
  /\ vpc = "check" /\ Here > Len(hops)
  /\ observed' = ObservedVerdict
  /\ agreement' = ComputeAgreement(verdict, ObservedVerdict)
  /\ vpc' = "answered"
  /\ UNCHANGED <<pathVars, runner, client, checks, pings>>

Ping == PingRuns \/ PingRefused \/ PingKilled \/ PingUnsent \/ NoRunner

ValidateNext ==
  \/ Tracing \/ TraceFails \/ Traced
  \/ Disconnect
  \/ Unpingable \/ Ping
  \/ Answer

ValidateSpec == ValidateInit /\ [][ValidateNext]_<<pathVars, validateVars>>

-----------------------------------------------------------------------------
\* An agreement that says the flow got through, a "match" on a delivered flow or a
\* "mismatch" on a stopped one, was observed: every device of the path got a reply to
\* its ping. Parsing, the fallback on the status, the verdict and the comparison
\* (service.go:254-372) all lie between the two. The code knows two exceptions: the
\* exclamation marks of a greeting, which parseExclamationPing counts as replies, and a
\* command that went well with nothing in its output that a parser reads, which
\* pingCheck takes for a reply (service.go:310).
MatchIsObserved ==
  vpc = "answered" /\ (verdict = "delivered" <=> agreement = "match") =>
    /\ Len(pings) = Len(hops)
    /\ \A k \in DOMAIN pings : pings[k].replies > 0 \/ pings[k].unshown

\* A ping that lost nothing is not shown as unreachable, in whichever of the
\* devices' formats it was printed (docs/agent-prompts/diag-engine.md: parsers
\* "tolerant of the vendors' formats"). Of a ping that is cut off the device got to
\* tell when it marks each reply; where the replies are counted in a last line, a ping
\* cut off before it is shown as unreachable however many came back.
RepliesSeen ==
  \A k \in DOMAIN pings :
    pings[k].told /\ pings[k].replies = Count => checks[k].observed # "unreachable"

DistinctHosts ==
  \A d, e \in DOMAIN inventory : d # e => inventory[d].host # inventory[e].host

\* The checks follow the path: each is run on its hop's device when hostnames
\* differ, and pings the address by which the next hop was entered, the last the
\* flow's destination (docs/diag-json-schema.md:78).
ChecksFollowPath ==
  \A k \in DOMAIN checks :
    /\ DistinctHosts => pings[k].from = hops[k].device
    /\ IF k = Len(hops) THEN checks[k].target = flow.dst
       ELSE Reaches(inventory, [hops[k] EXCEPT !.next = checks[k].target],
                    hops[k + 1].device, hops[k + 1].ingress)

\* A flow that can be traced can be validated: no hop of a path leaves a check
\* without a destination, although a hop that drops the flow has no next hop.
TracedNeverFails ==
  vpc = "failed" /\ pc = "done" => \E d \in DOMAIN inventory : inventory[d].host = NoName
=============================================================================
