----------------------------- MODULE DiagService -----------------------------
(***************************************************************************)
(* Service.Diagnose (internal/diag/service.go) under the HTTP server: every *)
(* request is served by a goroutine of its own, all of them on one Service *)
(* and so on one AuditLog. A session is such a goroutine, reused for one   *)
(* request after another:                                                  *)
(*                                                                         *)
(*   idle -> [dial ->] run -> returned -> audit -> append -> idle          *)
(*                                                                         *)
(* A refused request goes to audit directly; one whose target or command   *)
(* is invalid is answered with an error and leaves no trace.               *)
(***************************************************************************)
EXTENDS DiagRules, RunResults, AuditLog, FiniteSets

CONSTANTS
  Requests,      \* what clients ask: [target, kind, text, token, runner]
  Runners,       \* the runners a service may be built with, by label, or "none"
  MaxRequests    \* bound: requests one session serves

Sessions == Writers

\* An AuditEntry, in the fields that are told apart
EntryOf(target, class, label, result) ==
  [f \in Fields |-> [target |-> target, class |-> class,
                     runner |-> label, status |-> result][f]]

ASSUME DiagServiceAssumption ==
  /\ Runners \subseteq {"ssh", "exec", "simulate", "none"}
  /\ Requests # {}
  /\ \A r \in Requests : r.kind \in Kinds /\ r.text \in Texts
  /\ MaxRequests \in Nat
  /\ {"target", "class", "status"} \subseteq Fields
  /\ Fields \subseteq {"target", "class", "runner", "status"}
  /\ \A t \in {r.target : r \in Requests}, c \in Classes, n \in Statuses,
        l \in Runners \cup {r.runner : r \in Requests} :
       EntryOf(t, c, l, n) \in Payloads

VARIABLES
  runner,    \* Service.Runner, fixed when the service is built
  pc,        \* pc[s]: where session s is in Diagnose
  served,    \* served[s]: requests s has taken
  request,   \* request[s]: the one it is serving, or served last
  ctx,       \* ctx[s]: why the command's context ended, or "live"
  run,       \* run[s]: what the runner returned
  status,    \* status[s]: DiagResult.Status
  sent,      \* requests handed to the runner: [by, request] (history)
  answered   \* DiagResults returned: [by, request, status, entry, contended] (history)

diagVars == <<runner, pc, served, request, ctx, run, status, sent, answered>>
vars     == <<auditVars, diagVars>>

PcValues == {"idle", "dial", "run", "returned", "audit", "append"}
NoRun    == [err |-> "none", exit |-> -1]

Ticket(s) == <<s, served[s]>>     \* names one request of one session

Init ==
  /\ AuditInit
  /\ runner \in Runners
  /\ pc = [s \in Sessions |-> "idle"]
  /\ served = [s \in Sessions |-> 0]
  /\ request = [s \in Sessions |-> CHOOSE r \in Requests : TRUE]
  /\ ctx = [s \in Sessions |-> "live"]
  /\ run = [s \in Sessions |-> NoRun]
  /\ status = [s \in Sessions |-> "error"]
  /\ sent = {}
  /\ answered = {}

-----------------------------------------------------------------------------
\* The request's way to the runner

Receive(s, r) ==
  /\ pc[s] = "idle"
  /\ served[s] < MaxRequests
  /\ served' = [served EXCEPT ![s] = @ + 1]
  /\ request' = [request EXCEPT ![s] = r]
  /\ UNCHANGED <<auditVars, runner, ctx, run, answered>>

\* resolveTarget or renderCommand fails: an error and no audit entry
Reject(s, r) ==
  /\ Receive(s, r)
  /\ ~(Resolves(r.target) /\ Renders(r))
  /\ UNCHANGED <<pc, status, sent>>

\* Mutants of Refusal: a status of its own for approvals; an approval is enough
\* for a config command
RefusalUnlisted(r) ==
  IF ClassOf(r) = "config" /\ ~ConfigWriteCap THEN "denied"
  ELSE IF ClassOf(r) = "exec" /\ ~Approved(r) THEN "not_approved"
  ELSE ""

RefusalApproved(r) ==
  IF ClassOf(r) = "config" /\ ~ConfigWriteCap /\ ~Approved(r) THEN "denied"
  ELSE IF ClassOf(r) = "exec" /\ ~Approved(r) THEN "needs_approval"
  ELSE ""

Refusal(r) ==
  IF ClassOf(r) = "config" /\ ~ConfigWriteCap THEN "denied"
  ELSE IF ClassOf(r) = "exec" /\ ~Approved(r) THEN "needs_approval"
  ELSE ""

\* config without the capability, exec without an approval
Refuse(s, r) ==
  /\ Receive(s, r)
  /\ Resolves(r.target) /\ Renders(r)
  /\ Refusal(r) # ""
  /\ status' = [status EXCEPT ![s] = Refusal(r)]
  /\ pc' = [pc EXCEPT ![s] = "audit"]
  /\ UNCHANGED sent

\* an admitted command and a service without a runner
NoRunner(s, r) ==
  /\ Receive(s, r)
  /\ Resolves(r.target) /\ Renders(r)
  /\ Refusal(r) = ""
  /\ runner = "none"
  /\ status' = [status EXCEPT ![s] = "error"]
  /\ pc' = [pc EXCEPT ![s] = "audit"]
  /\ UNCHANGED sent

\* context.WithTimeout, then Runner.Run. The SSH runner dials first.
Start(s, r) ==
  /\ Receive(s, r)
  /\ Resolves(r.target) /\ Renders(r)
  /\ Refusal(r) = ""
  /\ runner # "none"
  /\ sent' = sent \cup {[by |-> Ticket(s)', request |-> r]}
  /\ pc' = [pc EXCEPT ![s] = IF runner = "ssh" THEN "dial" ELSE "run"]
  /\ UNCHANGED status

-----------------------------------------------------------------------------
\* The runner and the command's context

\* The deadline of Service.Timeout fires; the first cause of an end is kept.
Expire(s) ==
  /\ pc[s] \in {"dial", "run", "returned"}
  /\ ctx[s] = "live"
  /\ ctx' = [ctx EXCEPT ![s] = "expired"]
  /\ UNCHANGED <<auditVars, runner, pc, served, request, run, status, sent, answered>>

\* The HTTP client goes away: r.Context() is cancelled.
Disconnect(s) ==
  /\ pc[s] \in {"dial", "run", "returned"}
  /\ ctx[s] = "live"
  /\ ctx' = [ctx EXCEPT ![s] = "cancelled"]
  /\ UNCHANGED <<auditVars, runner, pc, served, request, run, status, sent, answered>>

Returns(s, outcome) ==
  /\ run' = [run EXCEPT ![s] = outcome]
  /\ pc' = [pc EXCEPT ![s] = "returned"]
  /\ UNCHANGED <<auditVars, runner, served, request, ctx, status, sent, answered>>

\* SSHRunner.dial: the TCP connection is bounded by ConnectTimeout and by the
\* context; the handshake behind it and the session are bounded by neither.
Connect(s) ==
  /\ pc[s] = "dial"
  /\ ctx[s] = "live"
  /\ pc' = [pc EXCEPT ![s] = "run"]
  /\ UNCHANGED <<auditVars, runner, served, request, ctx, run, status, sent, answered>>

DialFails(s) ==
  /\ pc[s] = "dial"
  /\ \E e \in Errors \ {"none"} :
       Returns(s, [err |-> e, exit |-> -1])

\* The device, or the simulation's script, answers.
Answer(s) ==
  /\ pc[s] = "run"
  /\ runner = "simulate" => ctx[s] = "live"
  /\ \E o \in AnswersOf(runner) : Returns(s, o)

\* Mutant of Killed: the process is not tied to the context
KilledNever(s) ==
  /\ pc[s] = "run"
  /\ runner = "simulate"
  /\ ctx[s] # "live"
  /\ Returns(s, [err |-> "other", exit |-> -1])

\* exec.CommandContext kills the process when the context ends, and the fake
\* runner looks at the context first. SSHRunner.Run does not watch it.
Killed(s) ==
  /\ pc[s] = "run"
  /\ runner # "ssh"
  /\ ctx[s] # "live"
  /\ Returns(s, [err |-> "other", exit |-> -1])

-----------------------------------------------------------------------------
\* After the runner: statusFromRun, then the audit entry, then the answer

\* Mutant of Conclude: an early return on the runner's error, before the audit
ConcludeEarly(s) ==
  /\ pc[s] = "returned"
  /\ status' = [status EXCEPT ![s] = StatusFromRun(ctx[s], run[s], request[s].kind)]
  /\ pc' = [pc EXCEPT ![s] = IF run[s].err = "none" THEN "audit" ELSE "idle"]
  /\ ctx' = [ctx EXCEPT ![s] = "live"]
  /\ run' = [run EXCEPT ![s] = NoRun]
  /\ UNCHANGED <<auditVars, runner, served, request, sent, answered>>

\* The run's result and context are not read again and are forgotten here.
Conclude(s) ==
  /\ pc[s] = "returned"
  /\ status' = [status EXCEPT ![s] = StatusFromRun(ctx[s], run[s], request[s].kind)]
  /\ pc' = [pc EXCEPT ![s] = "audit"]
  /\ ctx' = [ctx EXCEPT ![s] = "live"]
  /\ run' = [run EXCEPT ![s] = NoRun]
  /\ UNCHANGED <<auditVars, runner, served, request, sent, answered>>

\* A request may name a runner; that only changes the label. buildDiagService
\* makes the label of the runner it selects the default.
RunnerLabel(r) == IF r.runner = "" THEN runner ELSE r.runner

\* Mutant of AuditPayload: the class is the kind's, whatever the text would do
AuditPayloadByKind(s) ==
  EntryOf(request[s].target, IF request[s].kind = "exec" THEN "exec" ELSE "diagnostic",
          RunnerLabel(request[s]), status[s])

\* Service.audit builds the entry
AuditPayload(s) ==
  EntryOf(request[s].target, ClassOf(request[s]), RunnerLabel(request[s]), status[s])

Audit(s) ==
  /\ pc[s] = "audit"
  /\ NewAuditID(s, AuditPayload(s))
  /\ pc' = [pc EXCEPT ![s] = "append"]
  /\ UNCHANGED <<runner, served, request, ctx, run, status, sent, answered>>

Appending(s) ==
  /\ Load(s) \/ Grow(s) \/ Store(s) \/ Fill(s)
  /\ UNCHANGED diagVars

\* Append returns the identifier and Diagnose the result
Reply(s) ==
  /\ Return(s)
  /\ answered' = answered \cup {[by |-> Ticket(s), request |-> request[s],
                                 status |-> status[s], entry |-> entry[s],
                                 contended |-> contended[s]]}
  /\ pc' = [pc EXCEPT ![s] = "idle"]
  /\ UNCHANGED <<runner, served, request, ctx, run, status, sent>>

-----------------------------------------------------------------------------
Handler(s) == Conclude(s) \/ Audit(s) \/ Appending(s) \/ Reply(s)

Arrival(s) ==
  \E r \in Requests : Reject(s, r) \/ Refuse(s, r) \/ NoRunner(s, r) \/ Start(s, r)

RunnerStep(s) == Connect(s) \/ DialFails(s) \/ Answer(s) \/ Killed(s)

Next ==
  \E s \in Sessions :
    \/ Arrival(s)
    \/ RunnerStep(s)
    \/ Expire(s)
    \/ Disconnect(s)
    \/ Handler(s)

Spec == Init /\ [][Next]_vars

(***************************************************************************)
(* The goroutine runs, the timer of the deadline fires, a dial gives up    *)
(* after ConnectTimeout and a killed process ends. Nothing obliges a       *)
(* device to answer, a client to ask or to leave.                          *)
(***************************************************************************)
Fairness ==
  \A s \in Sessions : /\ WF_vars(Handler(s))
                      /\ WF_vars(Expire(s))
                      /\ WF_vars(DialFails(s))
                      /\ WF_vars(Killed(s))

FairSpec == Spec /\ Fairness

-----------------------------------------------------------------------------
TypeOK ==
  /\ AuditTypeOK
  /\ runner \in Runners
  /\ pc \in [Sessions -> PcValues]
  /\ served \in [Sessions -> 0..MaxRequests]
  /\ request \in [Sessions -> Requests]
  /\ ctx \in [Sessions -> {"live", "expired", "cancelled"}]
  /\ run \in [Sessions -> Outcome]
  /\ status \in [Sessions -> Statuses]
  /\ \A s \in Sessions : step[s] # "idle" <=> pc[s] = "append"
  /\ sent \subseteq [by : Sessions \X Nat, request : Requests]
  /\ answered \subseteq [by : Sessions \X Nat, request : Requests,
                         status : Statuses, entry : Entry, contended : BOOLEAN]

\* No text that would configure a device reaches a runner without the config-write
\* capability, whatever the kind it was asked under and whatever was approved; an
\* exec reaches one with an approval for that very target only (Diagnose's switch on
\* the class, in front of Runner.Run). ping, traceroute and show need no approval:
\* what a show then runs is its client's text, see DiagnosticReadOnly.
OnlyAuthorisedSent ==
  \A c \in sent :
    /\ RenderedText(c.request) = "config" => ConfigWriteCap
    /\ c.request.kind = "exec" /\ ~Approved(c.request) =>
         ConfigWriteCap /\ RenderedText(c.request) = "config"

\* What docs/diag-json-schema.md says of the class diagnostic, which runs freely: it
\* is read-only. A show carries any text, and is of that class for being a show.
DiagnosticReadOnly ==
  \A c \in sent : ClassOf(c.request) = "diagnostic" => RenderedText(c.request) = "read"

\* The status tells whether the device was touched: denied and needs_approval
\* answers had nothing sent for them, ok and unreachable ones did, and no request
\* is sent twice (several early returns around one Runner.Run).
StatusTellsSent ==
  /\ \A c, d \in sent : c.by = d.by => c = d
  /\ \A a \in answered :
       /\ a.status \in {"denied", "needs_approval"} => \A c \in sent : c.by # a.by
       /\ a.status \in {"ok", "unreachable", "timeout"} =>
            [by |-> a.by, request |-> a.request] \in sent

\* Makes StatusTellsSent inductive: tickets only name requests already taken, and
\* a session between the runner and the reply knows whether it sent its own.
TicketsTaken ==
  /\ \A c \in sent : c.by[2] <= served[c.by[1]]
  /\ \A a \in answered : a.by[2] <= served[a.by[1]]
  /\ \A s \in Sessions : pc[s] \in {"dial", "run", "returned"} =>
       [by |-> Ticket(s), request |-> request[s]] \in sent
  /\ \A s \in Sessions : pc[s] \in {"audit", "append"} =>
       /\ status[s] \in {"denied", "needs_approval"} => \A c \in sent : c.by # Ticket(s)
       /\ status[s] \in {"ok", "unreachable", "timeout"} =>
            [by |-> Ticket(s), request |-> request[s]] \in sent

\* What entry i of the log says is about the request that answer a was given for,
\* and what its client was told.
Tells(i, a) ==
  /\ Entries[i].payload.target = a.request.target
  /\ Entries[i].payload.class = ClassOf(a.request)
  /\ Entries[i].payload.status = a.status

\* An attempt whose append met no other is told by the log as its client was told:
\* any entry under its audit_id has the request's target and class and the answer's
\* status, for ever, also when appends of other sessions damage the log.
AuditMatchesAnswer ==
  \A a \in answered, i \in DOMAIN Entries :
    ~a.contended /\ Entries[i].id = a.entry.id => Tells(i, a)

\* Makes AuditMatchesAnswer inductive: an entry being appended is about its session's
\* request, an answer's entry about the answer's and one whose append has ended.
EntriesTell ==
  /\ \A s \in Sessions : pc[s] = "append" => entry[s].payload = AuditPayload(s)
  /\ \A a \in answered :
       /\ a.entry.payload.target = a.request.target
       /\ a.entry.payload.class = ClassOf(a.request)
       /\ a.entry.payload.status = a.status
       /\ [entry |-> a.entry, contended |-> a.contended] \in appended

\* No command runs without a trace in a service that serves one request at a
\* time: once the answer is out, the log has the entry of every command sent.
SentIsAudited ==
  \A c \in sent, s \in Sessions : 
    c.by[1] = s /\ (c.by[2] < served[s] \/ pc[s] = "idle") =>
      \E a \in answered : a.by = c.by /\ Recorded(a.entry)

\* Every command a session starts is answered and audited, whatever the device
\* does: the deadline of Service.Timeout bounds it (docs/agent-prompts/
\* diag-engine.md: "ctx avec deadline par commande").
EveryRequestAnswered ==
  \A s \in Sessions : pc[s] # "idle" ~> pc[s] = "idle"

\* ... which holds of the runners the deadline ends: exec.CommandContext kills the
\* process and the fake runner looks at the context.
DeadlineAnswers == runner # "ssh" => EveryRequestAnswered
=============================================================================
