------------------------- MODULE PathValidateProofs -------------------------
(***************************************************************************)
(* Proofs about PathValidate, for any inventories, flows, runners and      *)
(* formats. The path underneath is that of PathTraceProofs: PathInv holds  *)
(* throughout, and its variables rest once the checks begin.               *)
(***************************************************************************)
EXTENDS PathValidate, PathTraceProofs

(***************************************************************************)
(* What a text shows.                                                      *)
(***************************************************************************)

\* The parsers in their order, by what a text holds
LEMMA Parsed ==
  ASSUME NEW text
  PROVE  /\ text.rate = 0 => ParsePing(text) = 0
         /\ text.rate = -1 /\ ~text.rtt /\ text.stats = 0 => ParsePing(text) = 0
         /\ text.rate = -1 /\ ~text.rtt /\ text.stats = -1 /\ text.marks = 0 =>
              ParsePing(text) = IF text.dots THEN 0 ELSE -1
BY DEF ParsePing, ParseCiscoPing, ParseLinuxPing, ParseExclamationPing

\* Texts that are not a ping's
LEMMA OtherTexts == ParsePing(NoText) = -1 /\ ParsePing(Prose) = 0
<1>1. /\ NoText.rate = -1 /\ ~NoText.rtt /\ NoText.stats = -1 /\ NoText.marks = 0
      /\ ~NoText.dots
  BY DEF NoText
<1>2. /\ Prose.rate = -1 /\ ~Prose.rtt /\ Prose.stats = -1 /\ Prose.marks = 0
      /\ Prose.dots
  BY DEF Prose, NoText
<1>3. QED
  BY <1>1, <1>2, Parsed

\* A ping that got no reply is printed as one that lost everything, in every format.
LEMMA NoReplyPrinted ==
  ASSUME NEW format \in Formats
  PROVE  ParsePing(Printed(format, 0)) = 0
<1>1. 0 < Count /\ ~(0 > 0)
  BY PathValidateAssumption
<1>2. CASE format = "rate"
  <2>1. Printed(format, 0).rate = 0
    BY <1>2 DEF Printed, Prose, NoText
  <2>2. QED
    BY <2>1, Parsed
<1>3. CASE format \in {"stats", "bare"}
  <2>1. Printed(format, 0).rate = -1 /\ Printed(format, 0).stats = 0
    BY <1>3 DEF Printed, Prose, NoText
  <2>2. ~Printed(format, 0).rtt
    <3>1. CASE format = "stats"
      BY <3>1 DEF Printed, Prose, NoText
    <3>2. CASE format = "bare"
      BY <1>1, <3>2 DEF Printed, Prose, NoText
    <3>3. QED
      BY <1>3, <3>1, <3>2
  <2>3. QED
    BY <2>1, <2>2, Parsed
<1>4. CASE format = "marks"
  <2>1. /\ Printed(format, 0).rate = -1 /\ ~Printed(format, 0).rtt
        /\ Printed(format, 0).stats = -1 /\ Printed(format, 0).marks = 0
        /\ Printed(format, 0).dots
    BY <1>1, <1>4 DEF Printed, NoText
  <2>2. QED
    BY <2>1, Parsed
<1>5. CASE format = "table"
  BY <1>5, OtherTexts DEF Printed
<1>6. QED
  BY <1>2, <1>3, <1>4, <1>5, PathValidateAssumption

\* ... and a ping cut off before a reply shows none.
LEMMA NoReplySoFar ==
  ASSUME NEW format \in Formats, NEW text \in PrintedSoFar(format, 0)
  PROVE  ParsePing(text) \in {-1, 0}
<1>1. CASE PrintsMarks(format)
  <2>1. PICK d \in BOOLEAN : text = [NoText EXCEPT !.marks = 0, !.dots = d]
    BY <1>1 DEF PrintedSoFar
  <2>2. text.rate = -1 /\ ~text.rtt /\ text.stats = -1 /\ text.marks = 0
    BY <2>1 DEF NoText
  <2>3. QED
    BY <2>2, Parsed
<1>2. CASE ~PrintsMarks(format)
  <2>1. PICK d \in {0 > 0, TRUE} : text = [NoText EXCEPT !.dots = d]
    BY <1>2 DEF PrintedSoFar
  <2>2. text.rate = -1 /\ ~text.rtt /\ text.stats = -1 /\ text.marks = 0
    BY <2>1 DEF NoText
  <2>3. QED
    BY <2>2, Parsed
<1>3. QED
  BY <1>1, <1>2

\* ... while one that marks its replies shows those there were.
LEMMA MarksSoFar ==
  ASSUME NEW format \in Formats, PrintsMarks(format), NEW n \in Nat \ {0},
         NEW text \in PrintedSoFar(format, n)
  PROVE  ParsePing(text) = n
<1>1. PICK d \in BOOLEAN : text = [NoText EXCEPT !.marks = n, !.dots = d]
  BY DEF PrintedSoFar
<1>2. text.rate = -1 /\ ~text.rtt /\ text.stats = -1 /\ text.marks = n
  BY <1>1 DEF NoText
<1>3. ParseCiscoPing(text) = -1 /\ ParseLinuxPing(text) = -1
  BY <1>2 DEF ParseCiscoPing, ParseLinuxPing
<1>4. ParseExclamationPing(text) = n
  BY <1>2 DEF ParseExclamationPing
<1>5. QED
  BY <1>3, <1>4 DEF ParsePing

\* A command that failed is never "ok".
LEMMA FailureNotOk ==
  ASSUME NEW ctx, NEW e \in Errors \ {"none"}, NEW x
  PROVE  StatusFromRun(ctx, [err |-> e, exit |-> x], "ping")
           \in {"timeout", "unreachable", "error"}
BY DEF StatusFromRun, Errors

-----------------------------------------------------------------------------
(***************************************************************************)
(* The path underneath: a step of the validation is one of the trace, or   *)
(* leaves it alone; a trace that ended does not go on.                     *)
(***************************************************************************)
validate == <<pathVars, validateVars>>

LEMMA PathBelow ==
  ASSUME [ValidateNext]_validate
  PROVE  /\ [PathNext]_pathVars
         /\ ~Tracing => UNCHANGED pathVars /\ inventory' = inventory
<1>1. ASSUME UNCHANGED pathVars
      PROVE  inventory' = inventory
  BY <1>1 DEF pathVars, inventory
<1>2. CASE Tracing
  BY <1>2 DEF Tracing
<1>3. CASE ~Tracing
  <2>1. UNCHANGED pathVars
    BY <1>3 DEF ValidateNext, Ping, TraceFails, Traced, Disconnect, Unpingable, PingRuns,
                PingRefused, PingKilled, PingUnsent, NoRunner, PingCheck, Answer, validate
  <2>2. QED
    BY <1>1, <1>3, <2>1
<1>4. QED
  BY <1>2, <1>3

LEMMA TraceOver == PathNext => pc \in {"start", "hop"}
BY DEF PathNext, RefuseFlow, NoSource, Begin, TooManyHops, Revisit, DropACL, NoRoute, DropPolicy,
       Deliver, Unresolved, Forward, Leaves, Visit

LEMMA PathUnderneath == ValidateSpec => []PathInv
<1>1. ValidateInit => PathInv
  BY PathInvInit DEF ValidateInit
<1>2. PathInv /\ [ValidateNext]_<<pathVars, validateVars>> => PathInv'
  BY PathBelow, PathInvStep DEF validate
<1>3. QED
  BY <1>1, <1>2, PTL DEF ValidateSpec

-----------------------------------------------------------------------------
(***************************************************************************)
(* The checks so far: one per ping and at most one per hop, each on its    *)
(* hop's device and to its hop's next one, and none shown as reachable     *)
(* without a reply.                                                        *)
(***************************************************************************)
Check == [from : Nat, target : NextHops(inventory, flow.dst),
          observed : {"reachable", "unreachable", "inconclusive"}]

PingMade == [from : Nat, replies : Nat, told : BOOLEAN, unshown : BOOLEAN]

CheckTypeOK ==
  /\ vpc \in {"trace", "check", "answered", "failed"}
  /\ checks \in Seq(Check)
  /\ pings \in Seq(PingMade)

ChecksInStep ==
  /\ Len(pings) = Len(checks)
  /\ Len(checks) <= Len(hops)
  /\ vpc = "trace" => checks = << >>
  /\ vpc \in {"check", "answered"} => pc = "done"
  /\ vpc = "failed" => pc \in {"done", "error"}

ChecksMade ==
  \A k \in DOMAIN checks :
    /\ checks[k].target = PingTarget(k)
    /\ pings[k].from = Asked(k)
    /\ checks[k].observed = "reachable" => pings[k].replies > 0 \/ pings[k].unshown

AnswerTold ==
  vpc = "answered" =>
    /\ Len(checks) = Len(hops)
    /\ agreement = ComputeAgreement(verdict, ObservedVerdict)

\* A hop the flow left by has a next hop.
HandsOn == \A k \in DOMAIN hops : k < Len(hops) \/ pc = "hop" => hops[k].next # Unset

NoFailure ==
  vpc = "failed" /\ pc = "done" => \E d \in DOMAIN inventory : inventory[d].host = NoName

ValidateInv == CheckTypeOK /\ ChecksInStep /\ ChecksMade /\ AnswerTold /\ HandsOn /\ NoFailure

LEMMA ValidateInvInit == ValidateInit => ValidateInv
<1> SUFFICES ASSUME ValidateInit
             PROVE  ValidateInv
  OBVIOUS
<1>1. /\ checks = << >> /\ pings = << >> /\ hops = << >> /\ vpc = "trace" /\ pc = "start"
      /\ Len(checks) = 0 /\ Len(pings) = 0 /\ Len(hops) = 0
      /\ DOMAIN checks = {} /\ DOMAIN hops = {}
  BY DEF ValidateInit, PathInit
<1>2. CheckTypeOK
  BY <1>1 DEF CheckTypeOK
<1>3. ChecksInStep /\ ChecksMade /\ AnswerTold /\ HandsOn /\ NoFailure
  BY <1>1 DEF ChecksInStep, ChecksMade, AnswerTold, HandsOn, NoFailure
<1>4. QED
  BY <1>2, <1>3 DEF ValidateInv

\* A step of the trace: a hop that goes on goes somewhere ...
LEMMA HandsOnStep ==
  ASSUME PathInv, PathInv', HandsOn, PathNext
  PROVE  HandsOn'
<1>1. /\ hops \in Seq(Hop(inventory, flow.dst)) /\ Len(hops) \in Nat
      /\ DOMAIN hops = 1..Len(hops)
  BY DEF PathInv, PathTypeOK
<1>2. CASE RefuseFlow \/ NoSource \/ Begin
  <2>1. hops = << >> /\ hops' = hops
    BY <1>2 DEF RefuseFlow, NoSource, Begin, Conclude, PathInv, OnTheWay
  <2>2. QED
    BY <2>1 DEF HandsOn
<1>3. CASE TooManyHops \/ Revisit
  <2>1. hops' = hops /\ pc = "hop"
    BY <1>3 DEF TooManyHops, Revisit, Conclude
  <2>2. QED
    BY <2>1 DEF HandsOn
<1>4. ASSUME NEW h, pc = "hop", hops' = Append(hops, h), pc' = "hop" => h.next # Unset
      PROVE  HandsOn'
  <2>1. /\ Len(hops') = Len(hops) + 1 /\ DOMAIN hops' = 1..(Len(hops) + 1)
        /\ \A k \in DOMAIN hops : hops'[k] = hops[k]
        /\ hops'[Len(hops) + 1] = h
    BY <1>1, <1>4
  <2>2. ASSUME NEW k \in DOMAIN hops', k < Len(hops') \/ pc' = "hop"
        PROVE  hops'[k].next # Unset
    <3>1. CASE k \in DOMAIN hops
      BY <1>4, <2>1, <3>1 DEF HandsOn
    <3>2. CASE k = Len(hops) + 1
      BY <1>1, <1>4, <2>1, <2>2, <3>2
    <3>3. QED
      BY <1>1, <2>1, <3>1, <3>2
  <2>3. QED
    BY <2>2 DEF HandsOn
<1>5. CASE DropACL \/ NoRoute \/ DropPolicy \/ Deliver \/ Unresolved
  <2>1. /\ pc = "hop" /\ pc' = "done"
        /\ \E h \in {EmptyHop, ExitHop} : hops' = Append(hops, h)
    BY <1>5 DEF DropACL, NoRoute, DropPolicy, Deliver, Unresolved, Leaves, Visit, Conclude
  <2>2. QED
    BY <1>4, <2>1
<1>6. CASE Forward
  <2>1. pc = "hop" /\ hops' = Append(hops, ExitHop) /\ flow \in Flows
    BY <1>6 DEF Forward, Leaves, Visit, PathInv, PathTypeOK
  <2>2. ExitHop.next # Unset
    BY <2>1, PathValidateAssumption DEF ExitHop, NextHop
  <2>3. QED
    BY <1>4, <2>1, <2>2
<1>7. QED
  BY <1>2, <1>3, <1>5, <1>6 DEF PathNext

\* ... and there are no checks yet.
LEMMA TraceStep ==
  ASSUME PathInv, PathInv', ValidateInv, Tracing
  PROVE  ValidateInv'
<1>1. PathNext /\ UNCHANGED <<vpc, checks, pings>> /\ pc \in {"start", "hop"}
  BY TraceOver DEF Tracing, validateVars
<1>2. vpc = "trace" /\ checks = << >>
  BY <1>1 DEF ValidateInv, CheckTypeOK, ChecksInStep
<1>3. vpc' = "trace" /\ checks' = << >> /\ pings' = pings /\ DOMAIN checks' = {}
      /\ Len(checks') = 0 /\ Len(pings') = 0 /\ Len(hops') \in Nat
  BY <1>1, <1>2 DEF PathInv, PathTypeOK, ValidateInv, ChecksInStep
<1>4. HandsOn'
  BY <1>1, HandsOnStep DEF ValidateInv
<1>5. CheckTypeOK'
  BY <1>3 DEF ValidateInv, CheckTypeOK
<1>6. (ChecksInStep /\ ChecksMade /\ AnswerTold /\ NoFailure)'
  BY <1>3 DEF ChecksInStep, ChecksMade, AnswerTold, NoFailure
<1>7. QED
  BY <1>4, <1>5, <1>6 DEF ValidateInv

\* The definitions of the state that a step which leaves the path alone keeps
LEMMA PathKept ==
  ASSUME UNCHANGED pathVars
  PROVE  /\ inventory' = inventory
         /\ Check' = Check
         /\ HandsOn => HandsOn'
         /\ \A k \in Nat : PingTarget(k)' = PingTarget(k) /\ Asked(k)' = Asked(k)
<1>1. inventory' = inventory /\ UNCHANGED <<hops, flow, pc>>
  BY DEF pathVars, inventory
<1>2. Check' = Check
  BY <1>1 DEF Check
<1>3. HandsOn => HandsOn'
  BY <1>1 DEF HandsOn
<1>4. \A k \in Nat : PingTarget(k)' = PingTarget(k) /\ Asked(k)' = Asked(k)
  BY <1>1 DEF PingTarget, Asked
<1>5. QED
  BY <1>1, <1>2, <1>3, <1>4

\* Every ping goes through PingCheck, and a text that shows a reply had one, greets or
\* is silent.
Unshown(text, status) == Greets(text) \/ Silent(text, status)

SoundCheck(text, ctx, result, replies, told) ==
  /\ replies \in Nat /\ told \in BOOLEAN
  /\ PingCheck(text, ctx, result, replies, told)
  /\ Observed(text, StatusFromRun(ctx, result, "ping")) = "reachable" =>
       replies > 0 \/ Unshown(text, StatusFromRun(ctx, result, "ping"))

LEMMA PingMakesCheck ==
  ASSUME Ping
  PROVE  \E text, ctx, result, replies, told : SoundCheck(text, ctx, result, replies, told)
<1>1. CASE PingRuns
  <2>1. PICK format \in Formats, n \in 0..Count, ctx \in Contexts, o \in AnswersOf(runner) :
          PingCheck(Printed(format, n), ctx, o, n, TRUE)
    BY <1>1 DEF PingRuns
  <2>2. n \in Nat
    BY PathValidateAssumption
  <2>3. Observed(Printed(format, n), StatusFromRun(ctx, o, "ping")) = "reachable" => n > 0
    <3>1. n = 0 => ParsePing(Printed(format, n)) = 0
      BY NoReplyPrinted
    <3>2. QED
      BY <2>2, <3>1 DEF Observed
  <2>4. SoundCheck(Printed(format, n), ctx, o, n, TRUE)
    BY <2>1, <2>2, <2>3 DEF SoundCheck
  <2>5. QED
    BY <2>4
<1>2. CASE PingRefused
  <2>1. PICK text \in {NoText, Prose, Banner}, ctx \in Contexts, o \in AnswersOf(runner) :
          PingCheck(text, ctx, o, 0, TRUE)
    BY <1>2 DEF PingRefused
  <2>2. PICK status : status = StatusFromRun(ctx, o, "ping")
    OBVIOUS
  <2>3. Observed(text, status) = "reachable" => Unshown(text, status)
    <3>1. CASE text = NoText
      BY <3>1, OtherTexts DEF Observed, Unshown, Silent
    <3>2. CASE text = Prose
      BY <3>2, OtherTexts DEF Observed
    <3>3. CASE text = Banner
      BY <3>3 DEF Unshown, Greets
    <3>4. QED
      BY <3>1, <3>2, <3>3
  <2>4. SoundCheck(text, ctx, o, 0, TRUE)
    BY <2>1, <2>2, <2>3 DEF SoundCheck
  <2>5. QED
    BY <2>4
<1>3. ASSUME NEW text, NEW ctx, NEW e \in Errors \ {"none"}, ParsePing(text) \in {-1, 0}
      PROVE  Observed(text, StatusFromRun(ctx, [err |-> e, exit |-> -1], "ping")) # "reachable"
  <2> DEFINE status == StatusFromRun(ctx, [err |-> e, exit |-> -1], "ping")
  <2>1. status # "ok"
    BY FailureNotOk
  <2> HIDE DEF status
  <2>2. Observed(text, status) # "reachable"
    BY <1>3, <2>1 DEF Observed
  <2>3. QED
    BY <2>2 DEF status
<1>4. CASE PingKilled
  <2>0. PICK format \in Formats, n \in 0..Count : \E text \in PrintedSoFar(format, n) :
          PingCheck(text, IF client = "live" THEN "expired" ELSE client,
                    [err |-> "other", exit |-> -1], n, PrintsMarks(format))
    BY <1>4 DEF PingKilled
  <2>1. PICK text \in PrintedSoFar(format, n) :
          PingCheck(text, IF client = "live" THEN "expired" ELSE client,
                    [err |-> "other", exit |-> -1], n, PrintsMarks(format))
    BY <2>0
  <2>2. n \in Nat /\ PrintsMarks(format) \in BOOLEAN
    BY PathValidateAssumption DEF PrintsMarks
  <2>3. n = 0 => ParsePing(text) \in {-1, 0}
    BY <2>1, NoReplySoFar
  <2>4. SoundCheck(text, IF client = "live" THEN "expired" ELSE client,
                   [err |-> "other", exit |-> -1], n, PrintsMarks(format))
    BY <1>3, <2>1, <2>2, <2>3 DEF Errors, SoundCheck
  <2>5. QED
    BY <2>4
<1>5. CASE PingUnsent
  <2>1. PICK text \in Unsent, ctx \in Contexts, e \in FailuresOf(runner) :
          PingCheck(text, ctx, [err |-> e, exit |-> -1], 0, TRUE)
    BY <1>5 DEF PingUnsent
  <2>2. e \in Errors \ {"none"} /\ (text = Banner \/ ParsePing(text) \in {-1, 0})
    BY OtherTexts DEF Unsent, FailuresOf, Errors
  <2>3. SoundCheck(text, ctx, [err |-> e, exit |-> -1], 0, TRUE)
    BY <1>3, <2>1, <2>2 DEF Unshown, Greets, SoundCheck
  <2>4. QED
    BY <2>3
<1>6. CASE NoRunner
  <2>1. PingCheck(NoText, "live", [err |-> "other", exit |-> -1], 0, TRUE)
    BY <1>6 DEF NoRunner
  <2>2. SoundCheck(NoText, "live", [err |-> "other", exit |-> -1], 0, TRUE)
    BY <1>3, <2>1, OtherTexts DEF Errors, SoundCheck
  <2>3. QED
    BY <2>2
<1>7. QED
  BY <1>1, <1>2, <1>4, <1>5, <1>6 DEF Ping

\* A ping adds the check of the next hop.
LEMMA PingStep ==
  ASSUME PathInv, ValidateInv, Ping
  PROVE  ValidateInv'
<1>1. PICK text, ctx, result, replies, told : SoundCheck(text, ctx, result, replies, told)
  BY PingMakesCheck
<1>2. /\ replies \in Nat /\ told \in BOOLEAN
      /\ PingCheck(text, ctx, result, replies, told)
      /\ Observed(text, StatusFromRun(ctx, result, "ping")) = "reachable" =>
           replies > 0 \/ Unshown(text, StatusFromRun(ctx, result, "ping"))
  BY <1>1 DEF SoundCheck
<1> DEFINE check == [from |-> hops[Here].device, target |-> PingTarget(Here),
                     observed |-> Observed(text, StatusFromRun(ctx, result, "ping"))]
           ping  == [from |-> Asked(Here), replies |-> replies, told |-> told,
                     unshown |-> Unshown(text, StatusFromRun(ctx, result, "ping"))]
<1>3. /\ vpc = "check" /\ vpc' = vpc /\ Here <= Len(hops)
      /\ checks' = Append(checks, check) /\ pings' = Append(pings, ping)
      /\ UNCHANGED pathVars
  BY <1>2 DEF PingCheck, Unshown
<1>4. /\ net \in DOMAIN Inventories /\ inventory = Inventories[net]
      /\ hops \in Seq(Hop(inventory, flow.dst)) /\ Len(hops) \in Nat
      /\ DOMAIN hops = 1..Len(hops)
      /\ checks \in Seq(Check) /\ Len(checks) \in Nat /\ DOMAIN checks = 1..Len(checks)
      /\ pings \in Seq(PingMade) /\ Len(pings) = Len(checks)
      /\ Here = Len(checks) + 1
  BY DEF PathInv, PathTypeOK, inventory, ValidateInv, CheckTypeOK, ChecksInStep, Here
<1>5. Here \in DOMAIN hops /\ hops[Here] \in Hop(inventory, flow.dst)
  BY <1>3, <1>4
<1>6. check \in Check
  <2>1. hops[Here].device \in Nat /\ hops[Here].next \in NextHops(inventory, flow.dst)
    BY <1>4, <1>5, PathTraceAssumption DEF Hop
  <2>2. PingTarget(Here) \in NextHops(inventory, flow.dst)
    BY <2>1 DEF PingTarget, NextHops
  <2>3. Observed(text, StatusFromRun(ctx, result, "ping"))
          \in {"reachable", "unreachable", "inconclusive"}
    BY DEF Observed
  <2>4. QED
    BY <2>1, <2>2, <2>3 DEF Check
<1>7. ping \in PingMade
  <2>1. {d \in DOMAIN inventory : inventory[d].host = inventory[hops[Here].device].host}
          \subseteq Nat \ {0}
    BY <1>4, PathTraceAssumption
  <2>2. Asked(Here) \in Nat /\ replies \in Nat /\ told \in BOOLEAN
    BY <1>2, <2>1, FirstOfFound DEF Asked
  <2>3. Unshown(text, StatusFromRun(ctx, result, "ping")) \in BOOLEAN
    BY DEF Unshown, Greets, Silent
  <2>4. QED
    BY <2>2, <2>3 DEF PingMade
<1>8. /\ check.target = PingTarget(Here) /\ ping.from = Asked(Here)
      /\ check.observed = "reachable" => ping.replies > 0 \/ ping.unshown
  BY <1>2
<1> HIDE DEF check, ping
<1>9. /\ checks' \in Seq(Check) /\ pings' \in Seq(PingMade)
      /\ Len(checks') = Len(checks) + 1 /\ Len(pings') = Len(checks) + 1
      /\ DOMAIN checks' = 1..(Len(checks) + 1)
      /\ \A k \in DOMAIN checks : checks'[k] = checks[k] /\ pings'[k] = pings[k]
      /\ checks'[Here] = check /\ pings'[Here] = ping
  BY <1>3, <1>4, <1>6, <1>7
<1>10. CheckTypeOK'
  BY <1>3, <1>9, PathKept DEF CheckTypeOK
<1>11. ChecksInStep'
  BY <1>3, <1>4, <1>9 DEF ValidateInv, ChecksInStep, pathVars
<1>12. ChecksMade'
  <2>1. ASSUME NEW k \in DOMAIN checks'
        PROVE  /\ checks'[k].target = PingTarget(k)
               /\ pings'[k].from = Asked(k)
               /\ checks'[k].observed = "reachable" => pings'[k].replies > 0 \/ pings'[k].unshown
    <3>1. CASE k \in DOMAIN checks
      <4>1. checks'[k] = checks[k] /\ pings'[k] = pings[k]
        BY <1>9, <3>1
      <4>2. QED
        BY <3>1, <4>1 DEF ValidateInv, ChecksMade
    <3>2. CASE k = Here
      BY <1>8, <1>9, <3>2
    <3>3. QED
      BY <1>4, <1>9, <3>1, <3>2
  <2>2. \A k \in DOMAIN checks' : k \in Nat
    BY <1>4, <1>9
  <2>3. QED
    BY <1>3, <2>1, <2>2, PathKept DEF ChecksMade
<1>13. HandsOn' /\ AnswerTold' /\ NoFailure'
  BY <1>3, PathKept DEF ValidateInv, AnswerTold, NoFailure
<1>14. QED
  BY <1>10, <1>11, <1>12, <1>13 DEF ValidateInv

\* What a step that leaves the path and the checks alone keeps
LEMMA ChecksKept ==
  ASSUME ValidateInv, UNCHANGED pathVars, checks' = checks, pings' = pings
  PROVE  /\ checks' \in Seq(Check') /\ pings' \in Seq(PingMade)
         /\ Len(pings') = Len(checks') /\ Len(checks') <= Len(hops')
         /\ ChecksMade' /\ HandsOn' /\ pc' = pc
<1>1. hops' = hops /\ pc' = pc
  BY DEF pathVars
<1>2. \A k \in DOMAIN checks : k \in Nat
  BY DEF ValidateInv, CheckTypeOK
<1>3. ChecksMade'
  BY <1>2, PathKept DEF ValidateInv, ChecksMade
<1>4. HandsOn'
  BY PathKept DEF ValidateInv
<1>5. checks' \in Seq(Check') /\ pings' \in Seq(PingMade)
  BY PathKept DEF ValidateInv, CheckTypeOK
<1>6. QED
  BY <1>1, <1>3, <1>4, <1>5 DEF ValidateInv, ChecksInStep

LEMMA ValidateInvStep ==
  ASSUME PathInv, PathInv', ValidateInv, [ValidateNext]_validate
  PROVE  ValidateInv'
<1>1. CASE Tracing
  BY <1>1, TraceStep
<1>2. CASE Ping
  BY <1>2, PingStep
<1>3. CASE TraceFails
  <2>1. /\ vpc' = "failed" /\ pc = "error"
        /\ UNCHANGED pathVars /\ checks' = checks /\ pings' = pings
    BY <1>3 DEF TraceFails
  <2>2. QED
    BY <2>1, ChecksKept DEF ValidateInv, CheckTypeOK, ChecksInStep, AnswerTold, NoFailure
<1>4. CASE Traced
  <2>1. /\ vpc' = "check" /\ pc = "done"
        /\ UNCHANGED pathVars /\ checks' = checks /\ pings' = pings
    BY <1>4 DEF Traced
  <2>2. QED
    BY <2>1, ChecksKept DEF ValidateInv, CheckTypeOK, ChecksInStep, AnswerTold, NoFailure
<1>5. CASE Disconnect
  <2>1. /\ vpc = "check" /\ vpc' = "check"
        /\ UNCHANGED pathVars /\ checks' = checks /\ pings' = pings
    BY <1>5 DEF Disconnect
  <2>2. QED
    BY <2>1, ChecksKept DEF ValidateInv, CheckTypeOK, ChecksInStep, AnswerTold, NoFailure
<1>6. CASE Unpingable
  <2>1. /\ vpc = "check" /\ vpc' = "failed" /\ Here <= Len(hops) /\ ~CanPing(Here)
        /\ UNCHANGED pathVars /\ checks' = checks /\ pings' = pings
    BY <1>6 DEF Unpingable
  <2>2. /\ pc = "done" /\ hops \in Seq(Hop(inventory, flow.dst)) /\ flow \in Flows
        /\ Len(hops) \in Nat /\ Here \in DOMAIN hops /\ (Here # Len(hops) => Here < Len(hops))
    BY <2>1 DEF ValidateInv, CheckTypeOK, ChecksInStep, PathInv, PathTypeOK, Here
  <2>3. PingTarget(Here) # Unset
    BY <2>2, PathValidateAssumption DEF PingTarget, ValidateInv, HandsOn
  <2>4. inventory[hops[Here].device].host = NoName /\ hops[Here].device \in DOMAIN inventory
    <3>1. hops[Here] \in Hop(inventory, flow.dst)
      BY <2>2
    <3>2. hops[Here].device \in DOMAIN inventory
      BY <3>1 DEF Hop
    <3>3. QED
      BY <2>1, <2>3, <3>2 DEF CanPing
  <2>5. NoFailure'
    BY <2>1, <2>4, PathKept DEF NoFailure
  <2>6. QED
    BY <2>1, <2>2, <2>5, ChecksKept
    DEF ValidateInv, CheckTypeOK, ChecksInStep, AnswerTold
<1>7. CASE Answer
  <2>1. /\ vpc = "check" /\ vpc' = "answered" /\ Here > Len(hops)
        /\ agreement' = ComputeAgreement(verdict, ObservedVerdict)
        /\ UNCHANGED pathVars /\ checks' = checks /\ pings' = pings
    BY <1>7 DEF Answer
  <2>2. Len(checks) = Len(hops)
    BY <2>1 DEF ValidateInv, CheckTypeOK, ChecksInStep, PathInv, PathTypeOK, Here
  <2>3. verdict' = verdict /\ Len(checks') = Len(hops') /\ ObservedVerdict' = ObservedVerdict
    BY <2>1, <2>2 DEF pathVars, ObservedVerdict, Seen
  <2>4. AnswerTold'
    BY <2>1, <2>3 DEF AnswerTold, ComputeAgreement
  <2>5. QED
    BY <2>1, <2>4, ChecksKept DEF ValidateInv, CheckTypeOK, ChecksInStep, NoFailure
<1>8. CASE UNCHANGED validate
  <2>1. UNCHANGED pathVars /\ UNCHANGED <<vpc, checks, pings, agreement>>
    BY <1>8 DEF validate, validateVars
  <2>2. AnswerTold' /\ NoFailure'
    BY <2>1, PathKept DEF ValidateInv, AnswerTold, NoFailure, pathVars, ObservedVerdict, Seen
  <2>3. QED
    BY <2>1, <2>2, ChecksKept DEF ValidateInv, CheckTypeOK, ChecksInStep
<1>9. QED
  BY <1>1, <1>2, <1>3, <1>4, <1>5, <1>6, <1>7, <1>8 DEF ValidateNext

LEMMA ValidateInvariant == ValidateSpec => [](PathInv /\ ValidateInv)
<1>1. ValidateInit => ValidateInv
  BY ValidateInvInit
<1>2. PathInv /\ PathInv' /\ ValidateInv /\ [ValidateNext]_<<pathVars, validateVars>>
        => ValidateInv'
  BY ValidateInvStep DEF validate
<1>3. QED
  BY <1>1, <1>2, PathUnderneath, PTL DEF ValidateSpec

-----------------------------------------------------------------------------
\* An answer that says the flow got through rests at every hop on a reply, or on one of
\* the two exceptions of MatchIsObserved, whatever the runner, the formats, and the place
\* where an output is cut off.
THEOREM AgreementObserved == ValidateSpec => []MatchIsObserved
<1>1. ASSUME PathInv, ValidateInv
      PROVE  MatchIsObserved
  <2> SUFFICES ASSUME vpc = "answered", verdict = "delivered" <=> agreement = "match"
               PROVE  /\ Len(pings) = Len(hops)
                      /\ \A k \in DOMAIN pings : pings[k].replies > 0 \/ pings[k].unshown
    BY DEF MatchIsObserved
  <2>1. ObservedVerdict = "reachable"
    BY <1>1 DEF ValidateInv, AnswerTold, ComputeAgreement
  <2>2. Seen = {"reachable"}
    BY <2>1 DEF ObservedVerdict
  <2>3. DOMAIN pings = DOMAIN checks /\ Len(pings) = Len(hops)
    BY <1>1 DEF ValidateInv, CheckTypeOK, ChecksInStep, AnswerTold
  <2>4. \A k \in DOMAIN checks : checks[k].observed = "reachable"
    BY <2>2 DEF Seen
  <2>5. QED
    BY <1>1, <2>3, <2>4 DEF ValidateInv, ChecksMade
<1>2. QED
  BY <1>1, ValidateInvariant, PTL

\* For every path, check k runs on the device of hop k and pings the address by which
\* hop k + 1 is entered, the last the flow's destination.
THEOREM ChecksAlwaysFollowPath == ValidateSpec => []ChecksFollowPath
<1>1. ASSUME PathInv, ValidateInv, NEW k \in DOMAIN checks
      PROVE  /\ DistinctHosts => pings[k].from = hops[k].device
             /\ IF k = Len(hops) THEN checks[k].target = flow.dst
                ELSE Reaches(inventory, [hops[k] EXCEPT !.next = checks[k].target],
                             hops[k + 1].device, hops[k + 1].ingress)
  <2>1. /\ hops \in Seq(Hop(inventory, flow.dst)) /\ k \in DOMAIN hops
        /\ k # Len(hops) => k + 1 \in DOMAIN hops
    BY <1>1 DEF PathInv, PathTypeOK, ValidateInv, CheckTypeOK, ChecksInStep
  <2>2. hops[k] \in Hop(inventory, flow.dst)
    BY <2>1
  <2>3. checks[k].target = PingTarget(k) /\ pings[k].from = Asked(k)
    BY <1>1 DEF ValidateInv, ChecksMade
  <2>4. ASSUME DistinctHosts
        PROVE  pings[k].from = hops[k].device
    <3> DEFINE S == {d \in DOMAIN inventory :
                       inventory[d].host = inventory[hops[k].device].host}
    <3>1. hops[k].device \in DOMAIN inventory /\ DOMAIN inventory \subseteq Nat \ {0}
      BY <1>1, <2>2, PathTraceAssumption DEF Hop, PathInv, PathTypeOK, inventory
    <3>2. S = {hops[k].device}
      BY <2>4, <3>1 DEF DistinctHosts
    <3>3. FirstOf(S) \in S
      <4>1. S \subseteq Nat \ {0} /\ S # {}
        BY <3>1, <3>2
      <4> HIDE DEF S
      <4>2. QED
        BY <4>1, FirstOfFound
    <3>4. QED
      BY <2>3, <3>2, <3>3 DEF Asked
  <2>5. CASE k = Len(hops)
    BY <2>3, <2>4, <2>5 DEF PingTarget
  <2>6. CASE k # Len(hops)
    <3>1. [hops[k] EXCEPT !.next = checks[k].target] = hops[k]
      BY <2>2, <2>3, <2>6 DEF PingTarget, Hop
    <3>2. Reaches(inventory, hops[k], hops[k + 1].device, hops[k + 1].ingress)
      BY <1>1, <2>1, <2>6 DEF PathInv, HopsJustified
    <3>3. QED
      BY <2>4, <2>6, <3>1, <3>2
  <2>7. QED
    BY <2>5, <2>6
<1>2. PathInv /\ ValidateInv => ChecksFollowPath
  BY <1>1 DEF ChecksFollowPath
<1>3. QED
  BY <1>2, ValidateInvariant, PTL

\* Only a device without a name stops the validation of a flow that could be traced.
THEOREM TracedNeverStops == ValidateSpec => []TracedNeverFails
<1>1. ValidateInv => TracedNeverFails
  BY DEF ValidateInv, NoFailure, TracedNeverFails
<1>2. QED
  BY <1>1, ValidateInvariant, PTL

-----------------------------------------------------------------------------
(***************************************************************************)
(* What a ping that lost nothing shows, in the formats the parsers count.  *)
(***************************************************************************)

\* The formats whose replies parseCiscoPing, parseLinuxPing and parseExclamationPing
\* count. The two others, "bare" and "table", are the subject of validate_formats.
CountedFormats == {"rate", "stats", "marks"}

\* In these formats the parsers recover the number of replies exactly.
LEMMA RepliesCounted ==
  ASSUME NEW format \in CountedFormats, NEW n \in 0..Count
  PROVE  ParsePing(Printed(format, n)) = n
<1>1. n \in Nat /\ n # -1 /\ (n = 0 => n < Count)
  BY PathValidateAssumption
<1>2. CASE format = "rate"
  <2>1. Printed(format, n).rate = n
    BY <1>2 DEF Printed, Prose, NoText
  <2>2. ParseCiscoPing(Printed(format, n)) = n
    BY <1>1, <2>1 DEF ParseCiscoPing
  <2>3. QED
    BY <1>1, <2>2 DEF ParsePing
<1>3. CASE format = "stats"
  <2>1. /\ Printed(format, n).rate = -1 /\ Printed(format, n).stats = n
        /\ ~Printed(format, n).rtt
    BY <1>3 DEF Printed, Prose, NoText
  <2>2. ParseCiscoPing(Printed(format, n)) = -1 /\ ParseLinuxPing(Printed(format, n)) = n
    BY <2>1 DEF ParseCiscoPing, ParseLinuxPing
  <2>3. QED
    BY <1>1, <2>2 DEF ParsePing
<1>4. CASE format = "marks"
  <2>1. /\ Printed(format, n).rate = -1 /\ Printed(format, n).stats = -1
        /\ ~Printed(format, n).rtt /\ Printed(format, n).marks = n
    BY <1>4 DEF Printed, NoText
  <2>2. Printed(format, n).dots <=> n < Count
    BY <1>4 DEF Printed, NoText
  <2>3. ParseCiscoPing(Printed(format, n)) = -1 /\ ParseLinuxPing(Printed(format, n)) = -1
    BY <2>1 DEF ParseCiscoPing, ParseLinuxPing
  <2>4. ParseExclamationPing(Printed(format, n)) = n
    BY <1>1, <2>1, <2>2 DEF ParseExclamationPing
  <2>5. QED
    BY <2>3, <2>4 DEF ParsePing
<1>5. QED
  BY <1>2, <1>3, <1>4 DEF CountedFormats

\* A ping whose device got to tell of a reply to every request is shown so.
FullCheck(text, ctx, result, replies, told) ==
  /\ PingCheck(text, ctx, result, replies, told)
  /\ told /\ replies = Count =>
       Observed(text, StatusFromRun(ctx, result, "ping")) = "reachable"

LEMMA FullPingReachable ==
  ASSUME Formats \subseteq CountedFormats, Ping
  PROVE  \E text, ctx, result, replies, told : FullCheck(text, ctx, result, replies, told)
<1>0. Count \in Nat /\ 0 # Count /\ Count > 0
  BY PathValidateAssumption
<1>1. CASE PingRuns
  <2>1. PICK format \in Formats, n \in 0..Count, ctx \in Contexts, o \in AnswersOf(runner) :
          PingCheck(Printed(format, n), ctx, o, n, TRUE)
    BY <1>1 DEF PingRuns
  <2>2. ParsePing(Printed(format, n)) = n
    BY RepliesCounted
  <2>3. n = Count => Observed(Printed(format, n), StatusFromRun(ctx, o, "ping")) = "reachable"
    BY <1>0, <2>2 DEF Observed
  <2>4. FullCheck(Printed(format, n), ctx, o, n, TRUE)
    BY <2>1, <2>3 DEF FullCheck
  <2>5. QED
    BY <2>4
<1>2. CASE PingKilled
  <2>0. PICK format \in Formats, n \in 0..Count : \E text \in PrintedSoFar(format, n) :
          PingCheck(text, IF client = "live" THEN "expired" ELSE client,
                    [err |-> "other", exit |-> -1], n, PrintsMarks(format))
    BY <1>2 DEF PingKilled
  <2>1. PICK text \in PrintedSoFar(format, n) :
          PingCheck(text, IF client = "live" THEN "expired" ELSE client,
                    [err |-> "other", exit |-> -1], n, PrintsMarks(format))
    BY <2>0
  <2>2. PrintsMarks(format) /\ n = Count => ParsePing(text) = n
    BY <1>0, <2>1, MarksSoFar
  <2>3. PICK status : status = StatusFromRun(IF client = "live" THEN "expired" ELSE client,
                                             [err |-> "other", exit |-> -1], "ping")
    OBVIOUS
  <2>4. PrintsMarks(format) /\ n = Count => Observed(text, status) = "reachable"
    BY <1>0, <2>2 DEF Observed
  <2>5. FullCheck(text, IF client = "live" THEN "expired" ELSE client,
                  [err |-> "other", exit |-> -1], n, PrintsMarks(format))
    BY <2>1, <2>3, <2>4 DEF FullCheck
  <2>6. QED
    BY <2>5
<1>3. CASE PingRefused \/ PingUnsent \/ NoRunner
  <2>1. PICK text, ctx, result : PingCheck(text, ctx, result, 0, TRUE)
    BY <1>3 DEF PingRefused, PingUnsent, NoRunner
  <2>2. FullCheck(text, ctx, result, 0, TRUE)
    BY <1>0, <2>1 DEF FullCheck
  <2>3. QED
    BY <2>2
<1>4. QED
  BY <1>1, <1>2, <1>3 DEF Ping

LEMMA RepliesSeenStep ==
  ASSUME Formats \subseteq CountedFormats, ValidateInv, RepliesSeen, [ValidateNext]_validate
  PROVE  RepliesSeen'
<1>0. /\ checks \in Seq(Check) /\ pings \in Seq(PingMade) /\ Len(pings) = Len(checks)
  BY DEF ValidateInv, CheckTypeOK, ChecksInStep
<1>1. CASE checks' = checks /\ pings' = pings
  BY <1>1 DEF RepliesSeen
<1>2. CASE Ping
  <2>1. PICK text, ctx, result, replies, told : FullCheck(text, ctx, result, replies, told)
    BY <1>2, FullPingReachable
  <2> DEFINE check == [from |-> hops[Here].device, target |-> PingTarget(Here),
                       observed |-> Observed(text, StatusFromRun(ctx, result, "ping"))]
             ping  == [from |-> Asked(Here), replies |-> replies, told |-> told,
                       unshown |-> Unshown(text, StatusFromRun(ctx, result, "ping"))]
  <2>2. /\ checks' = Append(checks, check) /\ pings' = Append(pings, ping)
        /\ ping.told /\ ping.replies = Count => check.observed # "unreachable"
    BY <2>1 DEF FullCheck, PingCheck, Unshown
  <2> HIDE DEF check, ping
  <2>3. /\ DOMAIN pings' = DOMAIN pings \cup {Len(checks) + 1}
        /\ checks'[Len(checks) + 1] = check /\ pings'[Len(checks) + 1] = ping
        /\ \A k \in DOMAIN pings : checks'[k] = checks[k] /\ pings'[k] = pings[k]
    BY <1>0, <2>2
  <2>4. QED
    BY <2>2, <2>3 DEF RepliesSeen
<1>3. QED
  BY <1>1, <1>2 DEF ValidateNext, Tracing, TraceFails, Traced, Disconnect, Unpingable, Answer,
                    validate, validateVars

\* With devices whose ping output the parsers count, a ping that lost nothing and got to
\* tell it is never shown as unreachable, whatever the status, the runner and the deadline
\* make of it.
THEOREM RepliesAlwaysSeen ==
  ASSUME Formats \subseteq CountedFormats
  PROVE  ValidateSpec => []RepliesSeen
<1>1. ValidateInit => RepliesSeen
  BY DEF ValidateInit, RepliesSeen
<1>2. ValidateInv /\ RepliesSeen /\ [ValidateNext]_<<pathVars, validateVars>> => RepliesSeen'
  BY RepliesSeenStep DEF validate
<1>3. QED
  BY <1>1, <1>2, ValidateInvariant, PTL DEF ValidateSpec
=============================================================================
