------------------------------ MODULE CollectRun ------------------------------
(***************************************************************************)
(* netc collect plan, verify and run around one plan file, one output      *)
(* directory and one audit file (cmd/netc/main.go, internal/collect,       *)
(* internal/guard). Each command is a process of its own; the plan file    *)
(* may be written again at any time, and a run may die at any step.        *)
(*                                                                         *)
(* A plan stands for its hash. Devices, addresses and commands are numbers *)
(* in the order of their names.                                            *)
(***************************************************************************)
EXTENDS Integers, Sequences, FiniteSets

CONSTANTS
  Plans,    \* the plans the guard may write: each a sequence of decisions
            \* [device, ip, allowed, commands], commands of [command, allowed]
  FileOf,   \* commandOutputName: the output file of each command
  Runner,   \* "ssh" or "exec"
  Faults,   \* what may fail, sets of "open", "mkdir", "write" and "audit"
  MaxRuns   \* bound: runs started

NoDevice == 0   \* a device id that is empty

\* A target without commands gets the whole allowlist, which is never empty, and is
\* allowed only if every command is (guard.go:343-350, 527).
ASSUME CollectRunAssumption ==
  /\ DOMAIN Plans \subseteq Nat \ {0}
  /\ \A p \in DOMAIN Plans : \A k \in DOMAIN Plans[p] :
       LET decision == Plans[p][k] IN
       /\ k \in Nat /\ decision.device \in Nat /\ decision.ip \in Nat
       /\ decision.allowed => \E c \in DOMAIN decision.commands : decision.commands[c].allowed
       /\ \A c \in DOMAIN decision.commands :
            /\ c \in Nat /\ decision.commands[c] \in [command : Nat, allowed : BOOLEAN]
            /\ decision.commands[c].command \in DOMAIN FileOf
  /\ Runner \in {"ssh", "exec"}
  /\ Faults \subseteq SUBSET {"open", "mkdir", "write", "audit"}
  /\ MaxRuns \in Nat

Devices == {d \in UNION {{Plans[p][k].device : k \in DOMAIN Plans[p]} : p \in DOMAIN Plans} : d # NoDevice}
Files   == {FileOf[c] : c \in DOMAIN FileOf}

\* A file is "absent", "torn" between its truncation and the write, or holds the
\* "whole" or a "part" of what a command of a run printed.
Absent == [state |-> "absent", run |-> 0, ip |-> 0, command |-> 0]
Torn   == [Absent EXCEPT !.state = "torn"]

-----------------------------------------------------------------------------
VARIABLES
  failing,    \* the system calls that may fail
  planFile,   \* the plan in the plan file, 0 while it is absent or torn
  runs,       \* runs started
  rpc,        \* where the run is
  confirmed,  \* --confirm-plan-sha256
  plan,       \* the plan read, 0 for none
  todo,       \* the targets that remain
  target,     \* the decision at hand
  cmds,       \* its commands that remain
  cmd,        \* the command at hand
  result,     \* its [status, out]; out is "whole", "part" or "none" of the output
  errors,     \* Result.Errors
  disk,       \* the output directory
  audit,      \* the audit file: [run, target, command, status]
  sent        \* the commands handed to the runner (history)

loopVars == <<todo, target, cmds, cmd, result>>
fileVars == <<failing, planFile, disk, audit>>
collectVars == <<failing, planFile, runs, rpc, confirmed, plan, loopVars, errors, disk, audit, sent>>

Running == {"read", "verify", "open", "target", "meta", "metaWrite", "command", "answer",
            "save", "write", "log"}
Ended == {"idle", "refused", "failed", "done", "crashed"}

NoResult == [status |-> "ok", out |-> "none"]

EmptyDir == [dir |-> FALSE, meta |-> "absent", files |-> [f \in Files |-> Absent]]

CollectInit ==
  /\ failing \in Faults
  /\ planFile = 0 /\ runs = 0 /\ rpc = "idle"
  /\ confirmed = 0 /\ plan = 0
  /\ todo = {} /\ target = 0 /\ cmds = {} /\ cmd = 0 /\ result = NoResult
  /\ errors = 0
  /\ disk = [d \in Devices |-> EmptyDir]
  /\ audit = << >> /\ sent = << >>

-----------------------------------------------------------------------------
\* collect plan: os.Create truncates the file, the encoder writes it

TruncatePlan ==
  /\ planFile # 0
  /\ planFile' = 0
  /\ UNCHANGED <<failing, runs, rpc, confirmed, plan, loopVars, errors, disk, audit, sent>>

WritePlan(p) ==
  /\ planFile = 0
  /\ planFile' = p
  /\ UNCHANGED <<failing, runs, rpc, confirmed, plan, loopVars, errors, disk, audit, sent>>

-----------------------------------------------------------------------------
\* collect run: the plan is read and its hash compared with the one confirmed

StartRun(hash) ==
  /\ rpc \in Ended /\ runs < MaxRuns
  /\ runs' = runs + 1
  /\ confirmed' = hash
  /\ rpc' = "read"
  /\ plan' = 0 /\ errors' = 0
  /\ todo' = {} /\ target' = 0 /\ cmds' = {} /\ cmd' = 0 /\ result' = NoResult
  /\ UNCHANGED <<fileVars, sent>>

Stay == UNCHANGED <<runs, confirmed, fileVars, sent, loopVars, errors>>

ReadPlan ==
  /\ rpc = "read"
  /\ IF planFile = 0 THEN rpc' = "refused" /\ plan' = plan
     ELSE rpc' = "verify" /\ plan' = planFile
  /\ Stay

\* Mutant of VerifyPlanHash: the hashes are not compared
VerifyNothing ==
  /\ rpc = "verify"
  /\ rpc' = "open"
  /\ UNCHANGED plan
  /\ Stay

VerifyPlanHash ==
  /\ rpc = "verify"
  /\ rpc' = IF plan = confirmed THEN "open" ELSE "refused"
  /\ UNCHANGED plan
  /\ Stay

\* the credentials, the output directory or the audit file cannot be had
OpenFails ==
  /\ rpc = "open" /\ "open" \in failing
  /\ rpc' = "failed"
  /\ UNCHANGED plan
  /\ Stay

\* Mutant of Open: the plan file is read again after it was verified
OpenAgain ==
  /\ rpc = "open"
  /\ plan' = IF planFile = 0 THEN plan ELSE planFile
  /\ todo' = {k \in DOMAIN Plans[plan'] : Plans[plan'][k].allowed}
  /\ rpc' = "target"
  /\ UNCHANGED <<runs, confirmed, target, cmds, cmd, result, errors, fileVars, sent>>

\* allowedTargets
Open ==
  /\ rpc = "open"
  /\ todo' = {k \in DOMAIN Plans[plan] : Plans[plan][k].allowed}
  /\ rpc' = "target"
  /\ UNCHANGED <<runs, confirmed, plan, target, cmds, cmd, result, errors, fileVars, sent>>

-----------------------------------------------------------------------------
\* runTarget, in the order of device and address

At(k) == Plans[plan][k]

Earlier(j, k) ==
  \/ At(j).device < At(k).device
  \/ At(j).device = At(k).device /\ At(j).ip < At(k).ip
  \/ At(j).device = At(k).device /\ At(j).ip = At(k).ip /\ j <= k

NextTarget == CHOOSE k \in todo : \A j \in todo : Earlier(k, j)

\* an error of runTarget: it is counted and the next target follows
SkipTarget == errors' = errors + 1 /\ rpc' = "target"

\* Mutant of TargetFails: it ends the loop over the targets
TargetFailsAll ==
  /\ rpc = "target" /\ todo # {}
  /\ At(NextTarget).device = NoDevice \/ "mkdir" \in failing
  /\ todo' = {}
  /\ SkipTarget
  /\ UNCHANGED <<runs, confirmed, plan, target, cmds, cmd, result, fileVars, sent>>

\* no device id, or its directory cannot be made
TargetFails ==
  /\ rpc = "target" /\ todo # {}
  /\ At(NextTarget).device = NoDevice \/ "mkdir" \in failing
  /\ todo' = todo \ {NextTarget}
  /\ SkipTarget
  /\ UNCHANGED <<runs, confirmed, plan, target, cmds, cmd, result, fileVars, sent>>

MakeDir ==
  /\ rpc = "target" /\ todo # {}
  /\ At(NextTarget).device # NoDevice
  /\ target' = NextTarget
  /\ todo' = todo \ {NextTarget}
  /\ disk' = [disk EXCEPT ![At(NextTarget).device].dir = TRUE]
  /\ rpc' = "meta"
  /\ UNCHANGED <<failing, planFile, runs, confirmed, plan, cmds, cmd, result, errors, audit, sent>>

\* writeMetadata: os.WriteFile truncates, then writes
OpenMetadata ==
  /\ rpc = "meta"
  /\ disk' = [disk EXCEPT ![At(target).device].meta = "torn"]
  /\ rpc' = "metaWrite"
  /\ UNCHANGED <<failing, planFile, runs, confirmed, plan, loopVars, errors, audit, sent>>

WriteMetadata ==
  /\ rpc = "metaWrite"
  /\ disk' = [disk EXCEPT ![At(target).device].meta = "whole"]
  /\ cmds' = {c \in DOMAIN At(target).commands : At(target).commands[c].allowed}
  /\ rpc' = "command"
  /\ UNCHANGED <<failing, planFile, runs, confirmed, plan, todo, target, cmd, result, errors, audit, sent>>

MetadataFails ==
  /\ rpc \in {"meta", "metaWrite"} /\ "write" \in failing
  /\ SkipTarget
  /\ UNCHANGED <<runs, confirmed, plan, loopVars, fileVars, sent>>

-----------------------------------------------------------------------------
\* runCommand, in the order of the commands' names

Device     == At(target).device
Command(c) == At(target).commands[c].command

NextCommand ==
  CHOOSE c \in cmds :
    \A b \in cmds : \/ Command(c) < Command(b)
                    \/ Command(c) = Command(b) /\ c <= b

Send ==
  /\ rpc = "command" /\ cmds # {}
  /\ cmd' = NextCommand
  /\ cmds' = cmds \ {NextCommand}
  /\ sent' = Append(sent, [run |-> runs, hash |-> confirmed, target |-> target, device |-> Device,
                           ip |-> At(target).ip, command |-> Command(NextCommand)])
  /\ rpc' = "answer"
  /\ UNCHANGED <<runs, confirmed, plan, todo, target, result, errors, fileVars>>

EndTarget ==
  /\ rpc = "command" /\ cmds = {}
  /\ rpc' = "target"
  /\ UNCHANGED <<runs, confirmed, plan, loopVars, errors, fileVars, sent>>

\* The output of a failed command is saved too, unless there is none.
Returned(r) ==
  /\ rpc = "answer"
  /\ result' = r
  /\ rpc' = IF r = [status |-> "error", out |-> "none"] THEN "log" ELSE "save"
  /\ UNCHANGED <<runs, confirmed, plan, todo, target, cmds, cmd, errors, fileVars, sent>>

\* Mutant of Answer: an error with some output is no error
AnswerLenient ==
  \/ \E out \in {"whole", "part"} : Returned([status |-> "ok", out |-> out])
  \/ Returned([status |-> "error", out |-> "none"])

Answer ==
  \/ Returned([status |-> "ok", out |-> "whole"])
  \/ \E out \in {"part", "none"} : Returned([status |-> "error", out |-> out])

\* Mutant of Deadline: the command's context is not the one with the deadline
DeadlineNever ==
  /\ Runner = "none"
  /\ Returned([status |-> "error", out |-> "none"])

\* the deadline of Options.Timeout; the ssh runner does not watch it
Deadline ==
  /\ Runner = "exec"
  /\ \E out \in {"part", "none"} : Returned([status |-> "error", out |-> out])

\* os.WriteFile again
OpenFile ==
  /\ rpc = "save"
  /\ disk' = [disk EXCEPT ![Device].files[FileOf[Command(cmd)]] = Torn]
  /\ rpc' = "write"
  /\ UNCHANGED <<failing, planFile, runs, confirmed, plan, loopVars, errors, audit, sent>>

WriteFile ==
  /\ rpc = "write"
  /\ disk' = [disk EXCEPT ![Device].files[FileOf[Command(cmd)]] =
                [state |-> result.out, run |-> runs, ip |-> At(target).ip, command |-> Command(cmd)]]
  /\ rpc' = "log"
  /\ UNCHANGED <<failing, planFile, runs, confirmed, plan, loopVars, errors, audit, sent>>

\* Mutant of FileFails: the error of os.WriteFile is dropped
FileFailsSilently ==
  /\ rpc \in {"save", "write"} /\ "write" \in failing
  /\ rpc' = "log"
  /\ UNCHANGED <<runs, confirmed, plan, loopVars, errors, fileVars, sent>>

FileFails ==
  /\ rpc \in {"save", "write"} /\ "write" \in failing
  /\ result' = [result EXCEPT !.status = "error"]
  /\ rpc' = "log"
  /\ UNCHANGED <<runs, confirmed, plan, todo, target, cmds, cmd, errors, fileVars, sent>>

\* The audit entry, whose failure to be written is ignored. Run counts the errors
\* of a target's commands when the target ends; nobody looks before.
AuditEntry == [run |-> runs, target |-> target, command |-> Command(cmd), status |-> result.status]

\* Mutant of Log: a failed command leaves no entry
LogOk ==
  /\ rpc = "log"
  /\ audit' = IF result.status = "ok" THEN Append(audit, AuditEntry) ELSE audit
  /\ errors' = IF result.status = "ok" THEN errors ELSE errors + 1
  /\ rpc' = "command"
  /\ UNCHANGED <<failing, planFile, runs, confirmed, plan, loopVars, disk, sent>>

Log ==
  /\ rpc = "log"
  /\ \/ audit' = Append(audit, AuditEntry)
     \/ "audit" \in failing /\ audit' = audit
  /\ errors' = IF result.status = "ok" THEN errors ELSE errors + 1
  /\ rpc' = "command"
  /\ UNCHANGED <<failing, planFile, runs, confirmed, plan, loopVars, disk, sent>>

Finish ==
  /\ rpc = "target" /\ todo = {}
  /\ rpc' = "done"
  /\ UNCHANGED <<runs, confirmed, plan, loopVars, errors, fileVars, sent>>

\* the process dies, or the machine
Crash ==
  /\ rpc \in Running
  /\ rpc' = "crashed"
  /\ UNCHANGED <<runs, confirmed, plan, loopVars, errors, fileVars, sent>>

-----------------------------------------------------------------------------
RunStep ==
  \/ ReadPlan \/ VerifyPlanHash \/ OpenFails \/ Open
  \/ TargetFails \/ MakeDir \/ OpenMetadata \/ WriteMetadata \/ MetadataFails
  \/ Send \/ EndTarget \/ Deadline
  \/ OpenFile \/ WriteFile \/ FileFails \/ Log \/ Finish

CollectNext ==
  \/ TruncatePlan \/ \E p \in DOMAIN Plans : WritePlan(p)
  \/ \E hash \in DOMAIN Plans : StartRun(hash)
  \/ RunStep \/ Answer
  \/ Crash

CollectSpec == CollectInit /\ [][CollectNext]_collectVars

\* The process runs and its timers fire; no device has to answer.
CollectFairSpec == CollectSpec /\ WF_collectVars(RunStep)

-----------------------------------------------------------------------------
Contents == [state : {"absent", "torn", "part", "whole"}, run : Nat, ip : Nat, command : Nat]
Dirs == [dir : BOOLEAN, meta : {"absent", "torn", "whole"}, files : [Files -> Contents]]

Commanding == {"command", "answer", "save", "write", "log"}
Targeting  == {"meta", "metaWrite"} \cup Commanding

\* Types, and what the run is about while it is at each step: the plan it verified,
\* a target of it with a device id, a command of that target.
CollectTypeOK ==
  /\ planFile \in {0} \cup DOMAIN Plans
  /\ runs \in 0..MaxRuns
  /\ rpc \in Running \cup Ended
  /\ confirmed \in {0} \cup DOMAIN Plans /\ plan \in {0} \cup DOMAIN Plans
  /\ result \in [status : {"ok", "error"}, out : {"whole", "part", "none"}]
  /\ errors \in Nat
  /\ disk \in [Devices -> Dirs]
  /\ rpc = "verify" => plan # 0
  /\ rpc \in {"open", "target"} \cup Targeting => plan = confirmed /\ plan # 0
  /\ rpc \in {"target"} \cup Targeting => todo \subseteq DOMAIN Plans[plan]
  /\ rpc \in Targeting => target \in DOMAIN Plans[plan] /\ At(target).device # NoDevice
  /\ rpc \in Commanding => cmds \subseteq DOMAIN At(target).commands
  /\ rpc \in Commanding \ {"command"} => cmd \in DOMAIN At(target).commands
  /\ rpc \in {"save", "write"} => result.out # "none"

PlanAllows(s) ==
  \E k \in DOMAIN Plans[s.hash] :
    LET decision == Plans[s.hash][k] IN
    /\ decision.allowed
    /\ decision.device = s.device /\ decision.ip = s.ip
    /\ \E c \in DOMAIN decision.commands :
         decision.commands[c] = [command |-> s.command, allowed |-> TRUE]

\* A command reaches a runner only if the plan of the confirmed hash allows it, for
\* that device at that address, although the plan file may be written again while
\* the run is on (README.md:140, SECURITY.md:66).
OnlyConfirmedSent == \A i \in DOMAIN sent : PlanAllows(sent[i])

Sends(r)   == {i \in DOMAIN sent : sent[i].run = r}
Entries(r) == {e \in DOMAIN audit : audit[e].run = r}

\* the n sends of a run follow the s before it, its m entries the a before it
Paired(r, s, a, n, m) ==
  /\ Sends(r) = s + 1..s + n
  /\ Entries(r) = a + 1..a + m
  /\ \A k \in 1..m : /\ audit[a + k].target = sent[s + k].target
                     /\ audit[a + k].command = sent[s + k].command

\* The audit file tells what was sent, run by run and in order: a run that ended
\* misses nothing, one that died at most the command it died at (collect.go:166-177,
\* SECURITY.md:58).
AuditFollowsRun ==
  "audit" \notin failing =>
    \A r \in 1..runs : \E s, n \in 0..Len(sent), a, m \in 0..Len(audit) :
      /\ Paired(r, s, a, n, m)
      /\ m \in n - 1..n
      /\ r = runs /\ rpc = "done" => m = n

\* the targets and commands of a plan that are to be run, and their output files
Planned(p) ==
  {w \in UNION {{<<k, c>> : c \in DOMAIN Plans[p][k].commands} : k \in DOMAIN Plans[p]} :
     Plans[p][w[1]].allowed /\ Plans[p][w[1]].commands[w[2]].allowed}

Output(p, w) == <<Plans[p][w[1]].device, FileOf[Plans[p][w[1]].commands[w[2]].command]>>

Unshared(p, w) == \A v \in Planned(p) : v # w => Output(p, v) # Output(p, w)

\* what a run that went well leaves in that file
Fresh(p, w) ==
  [state |-> "whole", run |-> runs, ip |-> Plans[p][w[1]].ip,
   command |-> Plans[p][w[1]].commands[w[2]].command]

\* A run that reports no error left every planned output in its file, from this run
\* and from the planned address, whatever earlier runs and crashes had left there,
\* unless two of the plan's commands share the file (collect.go:99-112, 195-222).
CleanRunFresh ==
  rpc = "done" /\ errors = 0 =>
    \A w \in Planned(plan) : LET out == Output(plan, w) IN
      Unshared(plan, w) => disk[out[1]].meta = "whole" /\ disk[out[1]].files[out[2]] = Fresh(plan, w)

\* The audit file tells what is in the output files: if the last command sent for a
\* file has an "ok" entry, the file is whole and that command's, through any number
\* of later runs and crashes (collect.go:208-221). An entry names run, target and
\* command, so it is one of a command that was sent once to its target in the run.
LastFor(i) ==
  \A j \in DOMAIN sent : j > i =>
    sent[j].device # sent[i].device \/ FileOf[sent[j].command] # FileOf[sent[i].command]

LoggedOk(s) ==
  \E e \in DOMAIN audit :
    audit[e] = [run |-> s.run, target |-> s.target, command |-> s.command, status |-> "ok"]

SentOnce(i) ==
  \A j \in DOMAIN sent :
    sent[j].run = sent[i].run /\ sent[j].target = sent[i].target /\ sent[j].command = sent[i].command => j = i

AuditTellsFiles ==
  \A i \in DOMAIN sent : LastFor(i) /\ SentOnce(i) /\ LoggedOk(sent[i]) =>
    disk[sent[i].device].files[FileOf[sent[i].command]] =
      [state |-> "whole", run |-> sent[i].run, ip |-> sent[i].ip, command |-> sent[i].command]

\* The errors add up: each target whose commands were not all sent and each command
\* that failed is counted once, and a failing target keeps no other from its turn
\* (collect.go:99-112).
Missed ==
  {k \in DOMAIN Plans[plan] : \E c \in DOMAIN Plans[plan][k].commands :
     /\ <<k, c>> \in Planned(plan)
     /\ \A i \in DOMAIN sent :
          sent[i].run = runs => sent[i].target # k \/ sent[i].command # Plans[plan][k].commands[c].command}

Failed == {i \in DOMAIN audit : audit[i].run = runs /\ audit[i].status = "error"}

ErrorsAddUp ==
  rpc = "done" /\ "audit" \notin failing => errors = Cardinality(Missed) + Cardinality(Failed)

\* A run ends whatever the devices do, as long as its runner watches the deadline.
RunEnds == rpc \in Running ~> rpc \in Ended
=============================================================================
