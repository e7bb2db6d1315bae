--------------------------- MODULE CollectRunProofs ---------------------------
(***************************************************************************)
(* Proofs about CollectRun, for any plans, output names, runner and faults *)
(* and any number of runs: it keeps to its types, only what the confirmed  *)
(* plan allows reaches a runner, and the audit file, the output files and  *)
(* the count of errors tell what was done.                                 *)
(***************************************************************************)
EXTENDS CollectRun, FiniteSetTheorems, WellFoundedInduction, TLAPS

-----------------------------------------------------------------------------
\* Every non-empty set of naturals, finite or not, has a least member.
LEMMA LeastElement ==
  ASSUME NEW S, S \subseteq Nat, S # {}
  PROVE  \E i \in S : \A j \in S : i <= j
<1> DEFINE R == {ss \in Nat \X Nat : ss[1] < ss[2]}
<1>1. IsWellFoundedOn(R, Nat)
  BY NatLessThanWellFounded DEF OpToRel
<1> HIDE DEF R
<1>2. PICK x \in S : \A y \in S : ~(<<y, x>> \in R)
  BY <1>1, WFMin
<1>3. ASSUME NEW y \in S
      PROVE  x <= y
  <2>1. ~(<<y, x>> \in R) /\ x \in Nat /\ y \in Nat
    BY <1>2
  <2>2. QED
    BY <2>1 DEF R
<1>4. QED
  BY <1>3

(***************************************************************************)
(* NextTarget and NextCommand pick a member of what remains.               *)
(***************************************************************************)
LEMMA LeastOf ==
  ASSUME NEW S, S # {}, NEW f, \A k \in S : f[k] \in Nat
  PROVE  \E k \in S : \A j \in S : f[k] <= f[j]
<1> DEFINE T == {f[k] : k \in S}
<1>1. T \subseteq Nat /\ T # {}
  OBVIOUS
<1>2. \E i \in T : \A j \in T : i <= j
  BY <1>1, LeastElement
<1>3. QED
  BY <1>2

LEMMA LexicographicallyLeast ==
  ASSUME NEW S, S # {}, S \subseteq Nat,
         NEW f, NEW g, \A k \in S : f[k] \in Nat /\ g[k] \in Nat
  PROVE  \E k \in S : \A j \in S :
           \/ f[k] < f[j]
           \/ f[k] = f[j] /\ g[k] < g[j]
           \/ f[k] = f[j] /\ g[k] = g[j] /\ k <= j
<1>1. PICK a \in S : \A j \in S : f[a] <= f[j]
  BY LeastOf
<1> DEFINE A == {k \in S : f[k] = f[a]}
<1>2. PICK b \in A : \A j \in A : g[b] <= g[j]
  <2>1. A # {} /\ \A k \in A : g[k] \in Nat
    BY <1>1
  <2> HIDE DEF A
  <2>2. QED
    BY <2>1, LeastOf
<1> DEFINE B == {k \in A : g[k] = g[b]}
<1>3. PICK k \in B : \A j \in B : k <= j
  <2>1. B # {} /\ B \subseteq Nat
    BY <1>2
  <2> HIDE DEF B
  <2>2. QED
    BY <2>1, LeastElement
<1>4. QED
  BY <1>1, <1>2, <1>3

LEMMA NextTargetRemains ==
  ASSUME plan \in DOMAIN Plans, todo \subseteq DOMAIN Plans[plan], todo # {}
  PROVE  NextTarget \in todo
<1> DEFINE f == [k \in todo |-> At(k).device]
           g == [k \in todo |-> At(k).ip]
<1>1. todo \subseteq Nat /\ \A k \in todo : f[k] \in Nat /\ g[k] \in Nat
  BY CollectRunAssumption DEF At
<1>2. \E k \in todo : \A j \in todo :
           \/ f[k] < f[j]
           \/ f[k] = f[j] /\ g[k] < g[j]
           \/ f[k] = f[j] /\ g[k] = g[j] /\ k <= j
  <2> HIDE DEF f, g
  <2>1. QED
    BY <1>1, LexicographicallyLeast
<1>3. \E k \in todo : \A j \in todo : Earlier(k, j)
  BY <1>2 DEF Earlier
<1>4. QED
  BY <1>3 DEF NextTarget

LEMMA NextCommandRemains ==
  ASSUME plan \in DOMAIN Plans, target \in DOMAIN Plans[plan],
         cmds \subseteq DOMAIN At(target).commands, cmds # {}
  PROVE  NextCommand \in cmds
<1> DEFINE f == [c \in cmds |-> Command(c)]
           g == [c \in cmds |-> 0]
<1>1. cmds \subseteq Nat /\ \A c \in cmds : f[c] \in Nat /\ g[c] \in Nat
  BY CollectRunAssumption DEF At, Command
<1>2. \E k \in cmds : \A j \in cmds :
           \/ f[k] < f[j]
           \/ f[k] = f[j] /\ g[k] < g[j]
           \/ f[k] = f[j] /\ g[k] = g[j] /\ k <= j
  <2> HIDE DEF f, g
  <2>1. QED
    BY <1>1, LexicographicallyLeast
<1>3. \E c \in cmds : \A b \in cmds : \/ Command(c) < Command(b)
                                      \/ Command(c) = Command(b) /\ c <= b
  BY <1>2
<1>4. QED
  BY <1>3 DEF NextCommand

-----------------------------------------------------------------------------
(***************************************************************************)
(* The inductive invariant: CollectTypeOK, the shape of what was sent, and *)
(* that the loops only hold what the plan allows.                          *)
(***************************************************************************)
SentRecord == [run : Nat, hash : DOMAIN Plans, target : Nat, device : Nat, ip : Nat, command : Nat]

OnlyAllowedRemains ==
  /\ rpc \in {"target"} \cup Targeting => \A k \in todo : At(k).allowed
  /\ rpc \in Targeting => At(target).allowed
  /\ rpc \in Commanding => \A c \in cmds : At(target).commands[c].allowed

CollectInv ==
  /\ CollectTypeOK
  /\ OnlyAllowedRemains
  /\ sent \in Seq(SentRecord)
  /\ OnlyConfirmedSent

\* A decision that is no device's has no place in Devices; every other has.
LEMMA DeviceKnown ==
  ASSUME NEW p \in DOMAIN Plans, NEW k \in DOMAIN Plans[p], Plans[p][k].device # NoDevice
  PROVE  Plans[p][k].device \in Devices
<1>1. Plans[p][k].device \in {Plans[p][i].device : i \in DOMAIN Plans[p]}
  OBVIOUS
<1>2. Plans[p][k].device \in UNION {{Plans[q][i].device : i \in DOMAIN Plans[q]} : q \in DOMAIN Plans}
  BY <1>1
<1>3. QED
  BY <1>2 DEF Devices

LEMMA FileKnown ==
  ASSUME NEW p \in DOMAIN Plans, NEW k \in DOMAIN Plans[p], NEW c \in DOMAIN Plans[p][k].commands
  PROVE  /\ FileOf[Plans[p][k].commands[c].command] \in Files
         /\ Plans[p][k].commands[c].command \in Nat /\ Plans[p][k].ip \in Nat
         /\ Plans[p][k].device \in Nat /\ k \in Nat
         /\ Plans[p][k].commands[c].allowed \in BOOLEAN
  BY CollectRunAssumption DEF Files

\* A write to one file or field of a device's directory leaves a directory.
LEMMA DiskWrites ==
  ASSUME NEW d \in Devices, disk \in [Devices -> Dirs]
  PROVE  /\ [disk EXCEPT ![d].dir = TRUE] \in [Devices -> Dirs]
         /\ \A m \in {"torn", "whole"} : [disk EXCEPT ![d].meta = m] \in [Devices -> Dirs]
         /\ \A f \in Files : \A c \in Contents : [disk EXCEPT ![d].files[f] = c] \in [Devices -> Dirs]
<1>1. disk[d] \in Dirs
  OBVIOUS
<1>2. [disk[d] EXCEPT !.dir = TRUE] \in Dirs
  BY <1>1 DEF Dirs
<1>3. ASSUME NEW m \in {"torn", "whole"}
      PROVE  [disk[d] EXCEPT !.meta = m] \in Dirs
  BY <1>1 DEF Dirs
<1>4. ASSUME NEW f \in Files, NEW c \in Contents
      PROVE  [disk[d] EXCEPT !.files[f] = c] \in Dirs
  BY <1>1 DEF Dirs
<1> HIDE DEF Dirs
<1>5. QED
  BY <1>2, <1>3, <1>4

-----------------------------------------------------------------------------
LEMMA CollectInvInit == CollectInit => CollectInv
<1> SUFFICES ASSUME CollectInit PROVE CollectInv
  OBVIOUS
<1>1. EmptyDir \in Dirs
  <2>1. Absent \in Contents
    BY DEF Absent, Contents
  <2>2. [f \in Files |-> Absent] \in [Files -> Contents]
    BY <2>1
  <2>3. QED
    BY <2>2 DEF EmptyDir, Dirs
<1>2. CollectTypeOK
  <2>1. disk \in [Devices -> Dirs]
    BY <1>1 DEF CollectInit
  <2>2. QED
    BY <2>1, CollectRunAssumption
       DEF CollectInit, CollectTypeOK, NoResult, Ended, Running, Targeting, Commanding
<1>3. OnlyAllowedRemains
  BY DEF CollectInit, OnlyAllowedRemains, Targeting, Commanding
<1>4. sent \in Seq(SentRecord) /\ OnlyConfirmedSent
  BY DEF CollectInit, OnlyConfirmedSent
<1>5. QED
  BY <1>2, <1>3, <1>4 DEF CollectInv

\* One step for every action; Targeting and Commanding are the steps inside the two
\* loops, in which target and cmd say what the run is about.
LEMMA CollectTypePreserved ==
  ASSUME CollectInv, [CollectNext]_collectVars
  PROVE  CollectTypeOK'
<1> USE CollectRunAssumption
<1>0. CollectTypeOK
  BY DEF CollectInv
<1>1. CASE UNCHANGED collectVars
  BY <1>0, <1>1 DEF CollectTypeOK, collectVars, loopVars, At
<1>2. CASE TruncatePlan \/ \E p \in DOMAIN Plans : WritePlan(p)
  BY <1>0, <1>2 DEF CollectTypeOK, TruncatePlan, WritePlan, loopVars, At
<1>3. ASSUME NEW hash \in DOMAIN Plans, StartRun(hash)
      PROVE  CollectTypeOK'
  BY <1>0, <1>3 DEF CollectTypeOK, StartRun, fileVars, NoResult, Running, Ended, Targeting, Commanding
<1>4. CASE ReadPlan \/ VerifyPlanHash \/ OpenFails
  BY <1>0, <1>4 DEF CollectTypeOK, ReadPlan, VerifyPlanHash, OpenFails, Stay, fileVars, loopVars,
                    Running, Ended, Targeting, Commanding
<1>5. CASE Open
  BY <1>0, <1>5 DEF CollectTypeOK, Open, fileVars, Running, Ended, Targeting, Commanding
<1>6. CASE TargetFails
  <2>1. todo' \subseteq DOMAIN Plans[plan]
    BY <1>0, <1>6 DEF CollectTypeOK, TargetFails
  <2>2. QED
    BY <1>0, <1>6, <2>1 DEF CollectTypeOK, TargetFails, SkipTarget, fileVars, Running, Ended,
                            Targeting, Commanding
<1>7. CASE MakeDir
  <2>1. plan \in DOMAIN Plans /\ todo \subseteq DOMAIN Plans[plan]
    BY <1>0, <1>7 DEF CollectTypeOK, MakeDir
  <2>2. NextTarget \in DOMAIN Plans[plan]
    BY <2>1, <1>7, NextTargetRemains DEF MakeDir
  <2>3. At(NextTarget).device \in Devices
    BY <1>7, <2>1, <2>2, DeviceKnown DEF MakeDir, At
  <2>4. disk' \in [Devices -> Dirs]
    BY <1>0, <1>7, <2>3, DiskWrites DEF CollectTypeOK, MakeDir
  <2>5. target' \in DOMAIN Plans[plan'] /\ At(target)'.device # NoDevice
    BY <1>7, <2>2 DEF MakeDir, At
  <2>6. QED
    BY <1>0, <1>7, <2>1, <2>4, <2>5 DEF CollectTypeOK, MakeDir, Running, Ended, Targeting, Commanding
<1>8. CASE OpenMetadata \/ WriteMetadata
  <2>0. rpc \in Targeting
    BY <1>8 DEF OpenMetadata, WriteMetadata, Targeting
  <2>1. rpc \in Targeting /\ plan \in DOMAIN Plans /\ target \in DOMAIN Plans[plan]
    BY <1>0, <2>0 DEF CollectTypeOK
  <2>2. At(target).device \in Devices
    BY <1>0, <2>1, DeviceKnown DEF CollectTypeOK, At
  <2>3. disk' \in [Devices -> Dirs]
    <3>1. \E m \in {"torn", "whole"} : disk' = [disk EXCEPT ![At(target).device].meta = m]
      BY <1>8 DEF OpenMetadata, WriteMetadata
    <3>2. disk \in [Devices -> Dirs]
      BY <1>0 DEF CollectTypeOK
    <3>3. PICK m \in {"torn", "whole"} : disk' = [disk EXCEPT ![At(target).device].meta = m]
      BY <3>1
    <3>4. [disk EXCEPT ![At(target).device].meta = m] \in [Devices -> Dirs]
      BY <2>2, <3>2, DiskWrites
    <3>5. QED
      BY <3>3, <3>4
  <2>4. At(target)' = At(target)
    BY <1>8 DEF OpenMetadata, WriteMetadata, loopVars, At
  <2>5. CASE OpenMetadata
    BY <1>0, <2>3, <2>4, <2>5 DEF CollectTypeOK, OpenMetadata, loopVars, Running, Ended, Targeting, Commanding
  <2>6. CASE WriteMetadata
    BY <1>0, <2>3, <2>4, <2>6 DEF CollectTypeOK, WriteMetadata, Running, Ended, Targeting, Commanding
  <2>7. QED
    BY <1>8, <2>5, <2>6
<1>9. CASE MetadataFails
  BY <1>0, <1>9 DEF CollectTypeOK, MetadataFails, SkipTarget, fileVars, loopVars, Running, Ended,
                    Targeting, Commanding
<1>10. CASE Send
  <2>1. /\ plan \in DOMAIN Plans /\ target \in DOMAIN Plans[plan]
        /\ cmds \subseteq DOMAIN At(target).commands
    BY <1>0, <1>10 DEF CollectTypeOK, Send, Targeting, Commanding
  <2>2. NextCommand \in cmds
    BY <2>1, <1>10, NextCommandRemains DEF Send
  <2>3. At(target)' = At(target)
    BY <1>10 DEF Send, At
  <2>4. QED
    BY <1>0, <1>10, <2>1, <2>2, <2>3 DEF CollectTypeOK, Send, fileVars, Running, Ended,
                                         Targeting, Commanding
<1>11. CASE EndTarget \/ Finish \/ Crash
  BY <1>0, <1>11 DEF CollectTypeOK, EndTarget, Finish, Crash, fileVars, loopVars, Running, Ended,
                     Targeting, Commanding
<1>12. ASSUME NEW r \in [status : {"ok", "error"}, out : {"whole", "part", "none"}], Returned(r),
              r.out # "none" \/ r.status = "error"
       PROVE  CollectTypeOK'
  <2>1. At(target)' = At(target)
    BY <1>12 DEF Returned, At
  <2>2. QED
    BY <1>0, <1>12, <2>1 DEF CollectTypeOK, Returned, fileVars, Running, Ended, Targeting, Commanding
<1>13. CASE OpenFile \/ WriteFile
  <2>1. /\ rpc \in Commanding \ {"command"} /\ plan \in DOMAIN Plans /\ target \in DOMAIN Plans[plan]
        /\ cmd \in DOMAIN At(target).commands
    BY <1>0, <1>13 DEF CollectTypeOK, OpenFile, WriteFile, Targeting, Commanding
  <2>2. Device \in Devices
    BY <1>0, <2>1, DeviceKnown DEF CollectTypeOK, Device, At, Targeting
  <2>3. FileOf[Command(cmd)] \in Files /\ Command(cmd) \in Nat /\ At(target).ip \in Nat
    BY <2>1, FileKnown DEF At, Command
  <2>4. Torn \in Contents
    BY DEF Contents, Torn, Absent
  <2>5. CASE OpenFile
    <3>1. disk' \in [Devices -> Dirs]
      BY <1>0, <2>2, <2>3, <2>4, <2>5, DiskWrites DEF CollectTypeOK, OpenFile
    <3>2. At(target)' = At(target)
      BY <2>5 DEF OpenFile, loopVars, At
    <3>3. QED
      BY <1>0, <2>5, <3>1, <3>2 DEF CollectTypeOK, OpenFile, loopVars, Running, Ended, Targeting, Commanding
  <2>6. CASE WriteFile
    <3>1. [state |-> result.out, run |-> runs, ip |-> At(target).ip, command |-> Command(cmd)] \in Contents
      BY <1>0, <2>3, <2>6 DEF CollectTypeOK, WriteFile, Contents
    <3>2. disk' \in [Devices -> Dirs]
      BY <1>0, <2>2, <2>3, <2>6, <3>1, DiskWrites DEF CollectTypeOK, WriteFile
    <3>3. At(target)' = At(target)
      BY <2>6 DEF WriteFile, loopVars, At
    <3>4. QED
      BY <1>0, <2>6, <3>2, <3>3 DEF CollectTypeOK, WriteFile, loopVars, Running, Ended, Targeting, Commanding
  <2>7. QED
    BY <1>13, <2>5, <2>6
<1>14. CASE FileFails
  <2>1. At(target)' = At(target)
    BY <1>14 DEF FileFails, At
  <2>2. result' \in [status : {"ok", "error"}, out : {"whole", "part", "none"}]
    BY <1>0, <1>14 DEF CollectTypeOK, FileFails
  <2>3. QED
    BY <1>0, <1>14, <2>1, <2>2 DEF CollectTypeOK, FileFails, fileVars, Running, Ended, Targeting, Commanding
<1>15. CASE Log
  <2>1. At(target)' = At(target)
    BY <1>15 DEF Log, loopVars, At
  <2>2. QED
    BY <1>0, <1>15, <2>1 DEF CollectTypeOK, Log, loopVars, Running, Ended, Targeting, Commanding
<1>16. CASE Answer
  <2>1. \E r \in [status : {"ok", "error"}, out : {"whole", "part", "none"}] :
          Returned(r) /\ (r.out # "none" \/ r.status = "error")
    BY <1>16 DEF Answer
  <2>2. QED
    BY <1>12, <2>1
<1>17. CASE Deadline
  <2>1. \E r \in [status : {"ok", "error"}, out : {"whole", "part", "none"}] :
          Returned(r) /\ (r.out # "none" \/ r.status = "error")
    BY <1>17 DEF Deadline
  <2>2. QED
    BY <1>12, <2>1
<1>18. QED
  BY <1>1, <1>2, <1>3, <1>4, <1>5, <1>6, <1>7, <1>8, <1>9, <1>10, <1>11, <1>13, <1>14, <1>15, <1>16, <1>17
     DEF CollectNext, RunStep

LEMMA OnlyAllowedPreserved ==
  ASSUME CollectInv, [CollectNext]_collectVars
  PROVE  OnlyAllowedRemains'
<1> USE CollectRunAssumption
<1>0. CollectTypeOK /\ OnlyAllowedRemains
  BY DEF CollectInv
<1>1. CASE UNCHANGED collectVars
  BY <1>0, <1>1 DEF OnlyAllowedRemains, collectVars, loopVars, At
<1>2. CASE TruncatePlan \/ \E p \in DOMAIN Plans : WritePlan(p)
  BY <1>0, <1>2 DEF OnlyAllowedRemains, TruncatePlan, WritePlan, loopVars, At
<1>3. CASE \/ \E hash \in DOMAIN Plans : StartRun(hash)
           \/ ReadPlan \/ VerifyPlanHash \/ OpenFails
  <2>1. rpc' \notin {"target"} \cup Targeting
    BY <1>3 DEF StartRun, ReadPlan, VerifyPlanHash, OpenFails, Targeting, Commanding
  <2>2. QED
    BY <2>1 DEF OnlyAllowedRemains, Targeting
<1>4. CASE Open
  BY <1>4 DEF OnlyAllowedRemains, Open, Targeting, Commanding, At
<1>5. CASE TargetFails
  BY <1>0, <1>5 DEF OnlyAllowedRemains, TargetFails, SkipTarget, Targeting, Commanding, At
<1>6. CASE MakeDir
  <2>1. plan \in DOMAIN Plans /\ todo \subseteq DOMAIN Plans[plan]
    BY <1>0, <1>6 DEF CollectTypeOK, MakeDir
  <2>2. NextTarget \in todo
    BY <2>1, <1>6, NextTargetRemains DEF MakeDir
  <2>3. \A k \in todo : At(k).allowed
    BY <1>0, <1>6 DEF OnlyAllowedRemains, MakeDir
  <2>4. plan' = plan /\ todo' \subseteq todo /\ target' \in todo /\ rpc' = "meta"
    BY <1>6, <2>2 DEF MakeDir
  <2>5. QED
    BY <2>3, <2>4 DEF OnlyAllowedRemains, Targeting, Commanding, At
<1>7. CASE OpenMetadata \/ MetadataFails \/ Finish \/ Crash \/ EndTarget
  BY <1>0, <1>7 DEF OnlyAllowedRemains, OpenMetadata, MetadataFails, SkipTarget, Finish, Crash, EndTarget,
                    loopVars, Targeting, Commanding, At
<1>8. CASE WriteMetadata
  BY <1>0, <1>8 DEF OnlyAllowedRemains, WriteMetadata, Targeting, Commanding, At
<1>9. CASE Send
  BY <1>0, <1>9 DEF OnlyAllowedRemains, Send, Targeting, Commanding, At
<1>10. CASE Answer \/ Deadline
  BY <1>0, <1>10 DEF OnlyAllowedRemains, Answer, Deadline, Returned, Targeting, Commanding, At
<1>11. CASE OpenFile \/ WriteFile \/ FileFails \/ Log
  BY <1>0, <1>11 DEF OnlyAllowedRemains, OpenFile, WriteFile, FileFails, Log, loopVars,
                     Targeting, Commanding, At
<1>12. QED
  BY <1>1, <1>2, <1>3, <1>4, <1>5, <1>6, <1>7, <1>8, <1>9, <1>10, <1>11 DEF CollectNext, RunStep

\* Send is the one action that adds to what was sent, and what it adds is the command
\* of the plan that NextCommand names.
LEMMA SentPreserved ==
  ASSUME CollectInv, [CollectNext]_collectVars
  PROVE  sent' \in Seq(SentRecord) /\ OnlyConfirmedSent'
<1>0. CollectTypeOK /\ OnlyAllowedRemains /\ sent \in Seq(SentRecord) /\ OnlyConfirmedSent
  BY DEF CollectInv
<1>1. CASE sent' = sent
  BY <1>0, <1>1 DEF OnlyConfirmedSent
<1>2. CASE Send
  <2>1. /\ plan \in DOMAIN Plans /\ plan = confirmed /\ target \in DOMAIN Plans[plan]
        /\ cmds \subseteq DOMAIN At(target).commands
    BY <1>0, <1>2 DEF CollectTypeOK, Send, Targeting, Commanding
  <2>2. NextCommand \in cmds
    BY <2>1, <1>2, NextCommandRemains DEF Send
  <2>3. At(target).allowed /\ At(target).commands[NextCommand].allowed
    BY <1>0, <1>2, <2>2 DEF OnlyAllowedRemains, Send, Targeting, Commanding
  <2> DEFINE s == [run |-> runs, hash |-> confirmed, target |-> target, device |-> Device,
                   ip |-> At(target).ip, command |-> Command(NextCommand)]
  <2>4. sent' = Append(sent, s)
    BY <1>2 DEF Send
  <2>5. s \in SentRecord
    BY <1>0, <2>1, <2>2, FileKnown, CollectRunAssumption
       DEF CollectTypeOK, SentRecord, Device, Command, At
  <2>6. PlanAllows(s)
    <3>1. NextCommand \in DOMAIN Plans[plan][target].commands
      BY <2>1, <2>2 DEF At
    <3>2. Plans[plan][target].commands[NextCommand] = [command |-> s.command, allowed |-> TRUE]
      BY <2>1, <2>3, <3>1, CollectRunAssumption DEF At, Command
    <3>3. QED
      BY <2>1, <2>3, <3>1, <3>2 DEF PlanAllows, At, Device
  <2> HIDE DEF s
  <2>7. sent' \in Seq(SentRecord)
    BY <1>0, <2>4, <2>5
  <2>8. ASSUME NEW i \in DOMAIN sent'
        PROVE  sent'[i] = s \/ (i \in DOMAIN sent /\ sent'[i] = sent[i])
    BY <1>0, <2>4, <2>5
  <2>9. OnlyConfirmedSent'
    BY <1>0, <2>6, <2>8 DEF OnlyConfirmedSent
  <2>10. QED
    BY <2>7, <2>9
<1>3. QED
  BY <1>1, <1>2
     DEF CollectNext, RunStep, collectVars, loopVars, fileVars, Stay, TruncatePlan, WritePlan, StartRun, ReadPlan,
         VerifyPlanHash, OpenFails, Open, TargetFails, MakeDir, OpenMetadata, WriteMetadata, MetadataFails,
         EndTarget, Answer, Deadline, Returned, OpenFile, WriteFile, FileFails, Log, Finish, Crash

-----------------------------------------------------------------------------
LEMMA CollectInvAlways == CollectSpec => []CollectInv
<1>1. CollectInit => CollectInv
  BY CollectInvInit
<1>2. CollectInv /\ [CollectNext]_collectVars => CollectInv'
  BY CollectTypePreserved, OnlyAllowedPreserved, SentPreserved DEF CollectInv
<1>3. QED
  BY <1>1, <1>2, PTL DEF CollectSpec

-----------------------------------------------------------------------------
(***************************************************************************)
(* What the loops keep beyond that. First the files: a planned command the *)
(* loops are past has its output in its file, unless an error was counted, *)
(* and a run's command has it by the time its entry is written.            *)
(***************************************************************************)
Sending  == Commanding \ {"command"}
Starting == {"read", "verify", "open"}
InLoops  == {"target", "done"} \cup Targeting
Settled  == (Running \cup {"done"}) \ Sending

LoopsShrink ==
  /\ rpc = "done" => plan \in DOMAIN Plans /\ todo = {}
  /\ rpc \in Targeting => target \notin todo
  /\ rpc \in Sending => cmd \notin cmds /\ At(target).commands[cmd].allowed
  /\ rpc \in {"save", "write"} /\ result.status = "ok" => result.out = "whole"

LogTellsFile ==
  rpc = "log" /\ result.status = "ok" =>
    disk[Device].files[FileOf[Command(cmd)]] =
      [state |-> "whole", run |-> runs, ip |-> At(target).ip, command |-> Command(cmd)]

Past(w) ==
  /\ w[1] \notin todo
  /\ rpc \in Targeting /\ w[1] = target =>
       /\ rpc \in Commanding /\ w[2] \notin cmds
       /\ rpc \in Sending => w[2] # cmd

FreshSoFar ==
  rpc \in InLoops /\ errors = 0 =>
    \A w \in Planned(plan) : LET out == Output(plan, w) IN
      Past(w) /\ Unshared(plan, w) => disk[out[1]].files[out[2]] = Fresh(plan, w)

\* two targets may be one device, whose metadata the second one writes again
DescribedSoFar ==
  rpc \in InLoops /\ errors = 0 =>
    \A w \in Planned(plan) : w[1] \notin todo =>
      LET device == Plans[plan][w[1]].device IN
      /\ device # NoDevice
      /\ \/ disk[device].meta = "whole"
         \/ rpc = "meta" /\ w[1] = target
         \/ rpc = "metaWrite" /\ device = Device

(***************************************************************************)
(* Then the history: the last command sent is the one at hand until its    *)
(* entry is written, and sends and entries of a run lie side by side.      *)
(***************************************************************************)
AuditRecord == [run : Nat, target : Nat, command : Nat, status : {"ok", "error"}]

HistoryTyped ==
  /\ audit \in Seq(AuditRecord)
  /\ rpc \in Running => runs > 0
  /\ \A i \in DOMAIN sent :
       /\ sent[i].run \in 1..runs
       /\ rpc \in Starting => sent[i].run # runs
       /\ sent[i].device \in Devices /\ FileOf[sent[i].command] \in Files
  /\ \A e \in DOMAIN audit :
       /\ audit[e].run \in 1..runs
       /\ rpc \in Starting => audit[e].run # runs

SendAtHand ==
  rpc \in Sending =>
    /\ sent # << >>
    /\ sent[Len(sent)] = [run |-> runs, hash |-> confirmed, target |-> target, device |-> Device,
                          ip |-> At(target).ip, command |-> Command(cmd)]

\* entry e is one of send i
Of(e, i) ==
  audit[e].run = sent[i].run /\ audit[e].target = sent[i].target /\ audit[e].command = sent[i].command

EntriesHaveSends ==
  \A e \in DOMAIN audit : \E i \in DOMAIN sent :
     Of(e, i) /\ (rpc \in Sending => i < Len(sent))

PairedSoFar ==
  "audit" \notin failing =>
    \A r \in 1..runs : \E s, n \in 0..Len(sent), a, m \in 0..Len(audit) :
      /\ Paired(r, s, a, n, m) /\ m \in n - 1..n
      /\ s + n <= Len(sent) /\ a + m <= Len(audit)
      /\ r = runs => /\ s + n = Len(sent) /\ a + m = Len(audit)
                     /\ rpc \in Sending => m = n - 1
                     /\ rpc \in Settled => m = n

(***************************************************************************)
(* And the count: of the targets the loops are through with, those nothing *)
(* was sent to are the ones given up, one error each.                      *)
(***************************************************************************)
Asked(k) == \E i \in DOMAIN sent : sent[i].run = runs /\ sent[i].target = k

AskedFor(k, c) ==
  \E i \in DOMAIN sent : /\ sent[i].run = runs /\ sent[i].target = k
                         /\ sent[i].command = Plans[plan][k].commands[c].command

GivenUp ==
  {k \in DOMAIN Plans[plan] : /\ At(k).allowed /\ k \notin todo
                              /\ ~(rpc \in Targeting /\ k = target)
                              /\ ~Asked(k)}

AskedSoFar ==
  rpc \in InLoops =>
    /\ \A k \in todo : ~Asked(k)
    /\ rpc \in {"meta", "metaWrite"} => ~Asked(target)
    /\ rpc \in Commanding => cmds # {} \/ Asked(target)
    /\ \A w \in Planned(plan) :
         /\ w[1] \notin todo
         /\ rpc \in Targeting /\ w[1] = target => rpc \in Commanding /\ w[2] \notin cmds
         => w[1] \in GivenUp \/ AskedFor(w[1], w[2])

ErrorsSoFar ==
  /\ rpc \in Starting => errors = 0
  /\ rpc \in InLoops /\ "audit" \notin failing =>
       IsFiniteSet(GivenUp) /\ errors = Cardinality(GivenUp) + Cardinality(Failed)

LoopInv ==
  /\ LoopsShrink /\ LogTellsFile /\ DescribedSoFar /\ FreshSoFar
  /\ HistoryTyped /\ SendAtHand /\ EntriesHaveSends /\ AuditTellsFiles /\ PairedSoFar
  /\ AskedSoFar /\ ErrorsSoFar

-----------------------------------------------------------------------------
\* What CollectInv says of the target and the command at hand.
LEMMA AtHand ==
  ASSUME CollectInv
  PROVE  /\ rpc \in {"target"} \cup Targeting => plan \in DOMAIN Plans /\ todo \subseteq DOMAIN Plans[plan]
         /\ rpc \in Targeting =>
              /\ target \in DOMAIN Plans[plan] /\ target \in Nat
              /\ Device \in Devices /\ Device \in Nat /\ At(target).ip \in Nat
              /\ At(target).allowed
         /\ rpc \in Commanding => cmds \subseteq DOMAIN At(target).commands
         /\ rpc \in Sending =>
              /\ cmd \in DOMAIN At(target).commands
              /\ Command(cmd) \in Nat /\ FileOf[Command(cmd)] \in Files
<1>0. CollectTypeOK /\ OnlyAllowedRemains
  BY DEF CollectInv
<1>1. rpc \in {"target"} \cup Targeting => plan \in DOMAIN Plans /\ todo \subseteq DOMAIN Plans[plan]
  BY <1>0 DEF CollectTypeOK
<1>2. ASSUME rpc \in Targeting
      PROVE  /\ target \in DOMAIN Plans[plan] /\ target \in Nat
             /\ Device \in Devices /\ Device \in Nat /\ At(target).ip \in Nat
             /\ At(target).allowed
  <2>1. plan \in DOMAIN Plans /\ target \in DOMAIN Plans[plan] /\ At(target).device # NoDevice
    BY <1>0, <1>2 DEF CollectTypeOK
  <2>2. Device \in Devices
    BY <2>1, DeviceKnown DEF Device, At
  <2>3. QED
    BY <1>0, <1>2, <2>1, <2>2, CollectRunAssumption DEF OnlyAllowedRemains, Device, At
<1>3. rpc \in Commanding => cmds \subseteq DOMAIN At(target).commands
  BY <1>0 DEF CollectTypeOK
<1>4. ASSUME rpc \in Sending
      PROVE  /\ cmd \in DOMAIN At(target).commands
             /\ Command(cmd) \in Nat /\ FileOf[Command(cmd)] \in Files
  <2>1. rpc \in Targeting /\ cmd \in DOMAIN At(target).commands
    BY <1>0, <1>4 DEF CollectTypeOK, Sending, Targeting
  <2>2. plan \in DOMAIN Plans /\ target \in DOMAIN Plans[plan]
    BY <1>1, <1>2, <2>1
  <2>3. QED
    BY <2>1, <2>2, FileKnown DEF Command, At
<1>5. QED
  BY <1>1, <1>2, <1>3, <1>4

\* A write changes the one file, or the one field, it names.
FilePut(d, f, c) == [disk EXCEPT ![d].files[f] = c]
MetaPut(d, m)    == [disk EXCEPT ![d].meta = m]
DirPut(d, m)     == [disk EXCEPT ![d].dir = m]

LEMMA FileWritten ==
  ASSUME disk \in [Devices -> Dirs], NEW d \in Devices, NEW f \in Files, NEW c,
         disk' = FilePut(d, f, c)
  PROVE  /\ disk'[d].files[f] = c
         /\ \A e \in Devices : disk'[e].meta = disk[e].meta
         /\ \A e \in Devices, g \in Files :
              e # d \/ g # f => disk'[e].files[g] = disk[e].files[g]
  BY DEF Dirs, FilePut

LEMMA MetaWritten ==
  ASSUME disk \in [Devices -> Dirs], NEW d \in Devices, NEW m, disk' = MetaPut(d, m)
  PROVE  /\ disk'[d].meta = m
         /\ \A e \in Devices : disk'[e].files = disk[e].files
         /\ \A e \in Devices : e # d => disk'[e].meta = disk[e].meta
  BY DEF Dirs, MetaPut

LEMMA DirMade ==
  ASSUME disk \in [Devices -> Dirs], NEW d \in Devices, disk' = DirPut(d, TRUE)
  PROVE  \A e \in Devices : disk'[e].files = disk[e].files /\ disk'[e].meta = disk[e].meta
  BY DEF Dirs, DirPut

\* One step for every action, as above.
LEMMA LoopsShrinkPreserved ==
  ASSUME CollectInv, LoopsShrink, [CollectNext]_collectVars
  PROVE  LoopsShrink'
<1>1. CASE UNCHANGED collectVars
  BY <1>1 DEF LoopsShrink, collectVars, loopVars, At
<1>2. CASE TruncatePlan \/ \E p \in DOMAIN Plans : WritePlan(p)
  BY <1>2 DEF LoopsShrink, TruncatePlan, WritePlan, loopVars, At
<1>3. CASE \/ \E hash \in DOMAIN Plans : StartRun(hash)
           \/ ReadPlan \/ VerifyPlanHash \/ OpenFails \/ Open \/ TargetFails \/ MetadataFails \/ EndTarget
  <2>1. rpc' \notin {"done"} \cup Targeting \/ (EndTarget /\ rpc' = "target")
    BY <1>3 DEF StartRun, ReadPlan, VerifyPlanHash, OpenFails, Open, TargetFails, MetadataFails, SkipTarget, EndTarget,
                Targeting, Commanding
  <2>2. rpc' \notin {"done"} \cup Targeting
    BY <2>1 DEF Targeting, Commanding
  <2>3. QED
    BY <2>2 DEF LoopsShrink, Sending, Targeting, Commanding
<1>4. CASE MakeDir
  BY <1>4 DEF LoopsShrink, MakeDir, Sending, Targeting, Commanding
<1>5. CASE OpenMetadata \/ WriteMetadata
  BY <1>5 DEF LoopsShrink, OpenMetadata, WriteMetadata, loopVars, Sending, Targeting, Commanding
<1>6. CASE Send
  <2>1. /\ plan \in DOMAIN Plans /\ target \in DOMAIN Plans[plan]
        /\ cmds \subseteq DOMAIN At(target).commands
        /\ \A c \in cmds : At(target).commands[c].allowed
    BY <1>6, AtHand DEF Send, Targeting, Commanding, CollectInv, OnlyAllowedRemains
  <2>2. NextCommand \in cmds
    BY <2>1, <1>6, NextCommandRemains DEF Send
  <2>3. At(target)' = At(target)
    BY <1>6 DEF Send, At
  <2>4. QED
    BY <1>6, <2>1, <2>2, <2>3 DEF LoopsShrink, Send, Sending, Targeting, Commanding
<1>7. CASE Answer \/ Deadline
  <2>1. \E r : Returned(r) /\ (r.status = "ok" => r.out = "whole")
    BY <1>7 DEF Answer, Deadline
  <2>2. QED
    BY <2>1 DEF LoopsShrink, Returned, Sending, Targeting, Commanding, At
<1>8. CASE OpenFile \/ WriteFile \/ FileFails \/ Log
  BY <1>8 DEF LoopsShrink, OpenFile, WriteFile, FileFails, Log, loopVars, Sending, Targeting, Commanding, At
<1>9. CASE Finish
  <2>1. plan \in DOMAIN Plans
    BY <1>9, AtHand DEF Finish
  <2>2. QED
    BY <1>9, <2>1 DEF LoopsShrink, Finish, loopVars, Sending, Targeting, Commanding
<1>10. CASE Crash
  BY <1>10 DEF LoopsShrink, Crash, Sending, Targeting, Commanding
<1>11. QED
  BY <1>1, <1>2, <1>3, <1>4, <1>5, <1>6, <1>7, <1>8, <1>9, <1>10 DEF CollectNext, RunStep

\* Only WriteFile leads to "log" without an error, and with the whole output.
LEMMA LogTellsFilePreserved ==
  ASSUME CollectInv, LoopsShrink, LogTellsFile, [CollectNext]_collectVars
  PROVE  LogTellsFile'
<1>1. CASE UNCHANGED collectVars
  BY <1>1 DEF LogTellsFile, collectVars, loopVars, At, Command, Device
<1>2. CASE TruncatePlan \/ \E p \in DOMAIN Plans : WritePlan(p)
  BY <1>2 DEF LogTellsFile, TruncatePlan, WritePlan, loopVars, At, Command, Device
<1>3. CASE WriteFile
  <2>1. rpc \in Sending /\ rpc \in Targeting /\ disk \in [Devices -> Dirs]
    BY <1>3 DEF WriteFile, Sending, Targeting, Commanding, CollectInv, CollectTypeOK
  <2> DEFINE c == [state |-> result.out, run |-> runs, ip |-> At(target).ip, command |-> Command(cmd)]
  <2>2. disk' = [disk EXCEPT ![Device].files[FileOf[Command(cmd)]] = c]
    BY <1>3 DEF WriteFile
  <2>3. disk'[Device].files[FileOf[Command(cmd)]] = c
    <3> HIDE DEF c
    <3>1. Device \in Devices /\ FileOf[Command(cmd)] \in Files
      BY <2>1, AtHand
    <3>2. disk' = FilePut(Device, FileOf[Command(cmd)], c)
      BY <2>2 DEF FilePut
    <3>3. QED
      BY <2>1, <3>1, <3>2, FileWritten
  <2>4. UNCHANGED <<Device, Command(cmd), At(target), runs, result>>
    BY <1>3 DEF WriteFile, loopVars, Device, Command, At
  <2>5. result.status = "ok" => result.out = "whole"
    BY <1>3 DEF WriteFile, LoopsShrink
  <2>6. QED
    BY <2>3, <2>4, <2>5 DEF LogTellsFile
<1>4. CASE Answer \/ Deadline \/ FileFails
  <2>1. rpc' = "log" => result'.status = "error"
    <3>1. CASE Answer \/ Deadline
      BY <3>1 DEF Answer, Deadline, Returned
    <3>2. CASE FileFails
      BY <3>2 DEF FileFails, CollectInv, CollectTypeOK
    <3>3. QED
      BY <1>4, <3>1, <3>2
  <2>2. QED
    BY <2>1 DEF LogTellsFile
<1>5. QED
  BY <1>1, <1>2, <1>3, <1>4
     DEF LogTellsFile, CollectNext, RunStep, StartRun, ReadPlan, VerifyPlanHash, OpenFails, Open, TargetFails, SkipTarget, MakeDir,
         OpenMetadata, WriteMetadata, MetadataFails, Send, EndTarget, OpenFile, Log, Finish, Crash

-----------------------------------------------------------------------------
\* The members of Planned are the allowed commands of allowed targets.
LEMMA PlannedKnown ==
  ASSUME NEW p \in DOMAIN Plans, NEW w \in Planned(p)
  PROVE  /\ w = <<w[1], w[2]>> /\ w[1] \in DOMAIN Plans[p] /\ w[2] \in DOMAIN Plans[p][w[1]].commands
         /\ Plans[p][w[1]].allowed /\ Plans[p][w[1]].commands[w[2]].allowed
         /\ Output(p, w)[2] \in Files
         /\ Plans[p][w[1]].device # NoDevice => Output(p, w)[1] \in Devices
<1>1. PICK k \in DOMAIN Plans[p] : w \in {<<k, c>> : c \in DOMAIN Plans[p][k].commands}
  BY DEF Planned
<1>2. /\ w = <<w[1], w[2]>> /\ w[1] \in DOMAIN Plans[p] /\ w[2] \in DOMAIN Plans[p][w[1]].commands
  BY <1>1
<1>3. Plans[p][w[1]].allowed /\ Plans[p][w[1]].commands[w[2]].allowed
  BY DEF Planned
<1>4. QED
  BY <1>2, <1>3, FileKnown, DeviceKnown DEF Output

LEMMA PlannedIntro ==
  ASSUME NEW p \in DOMAIN Plans, NEW k \in DOMAIN Plans[p], NEW c \in DOMAIN Plans[p][k].commands,
         Plans[p][k].allowed, Plans[p][k].commands[c].allowed
  PROVE  <<k, c>> \in Planned(p)
<1>1. <<k, c>> \in {<<k, b>> : b \in DOMAIN Plans[p][k].commands}
  OBVIOUS
<1>2. <<k, c>> \in UNION {{<<j, b>> : b \in DOMAIN Plans[p][j].commands} : j \in DOMAIN Plans[p]}
  BY <1>1
<1>3. QED
  BY <1>2 DEF Planned


\* Where the run is while its loops go on: inside them it holds a plan.
LEMMA InLoopsPlan ==
  ASSUME CollectInv, LoopsShrink, rpc \in InLoops
  PROVE  plan \in DOMAIN Plans
  BY AtHand DEF LoopsShrink, InLoops

\* A target the loops are past has its metadata whole, but while they write it again.
LEMMA DescribedPreserved ==
  ASSUME CollectInv, LoopsShrink, DescribedSoFar, [CollectNext]_collectVars
  PROVE  DescribedSoFar'
<1>0. errors \in Nat /\ disk \in [Devices -> Dirs]
  BY DEF CollectInv, CollectTypeOK
<1>1. CASE UNCHANGED collectVars
  BY <1>1 DEF DescribedSoFar, collectVars, loopVars, Device, At
<1>2. CASE TruncatePlan \/ \E p \in DOMAIN Plans : WritePlan(p)
  BY <1>2 DEF DescribedSoFar, TruncatePlan, WritePlan, loopVars, Device, At
<1>3. CASE \/ \E hash \in DOMAIN Plans : StartRun(hash)
           \/ ReadPlan \/ VerifyPlanHash \/ OpenFails \/ Crash
  BY <1>3 DEF DescribedSoFar, StartRun, ReadPlan, VerifyPlanHash, OpenFails, Crash, InLoops, Targeting, Commanding
<1>4. CASE TargetFails \/ MetadataFails
  BY <1>0, <1>4 DEF DescribedSoFar, TargetFails, MetadataFails, SkipTarget
<1>5. CASE Open
  <2>1. plan' \in DOMAIN Plans
    BY <1>5 DEF Open, CollectInv, CollectTypeOK
  <2>2. \A w \in Planned(plan') : w[1] \in todo'
    BY <1>5, <2>1, PlannedKnown DEF Open
  <2>3. QED
    BY <2>2 DEF DescribedSoFar
<1>6. ASSUME rpc \in InLoops, rpc' \in InLoops, UNCHANGED <<plan, todo, target>>,
             errors' = 0 => errors = 0,
             \A e \in Devices : disk'[e].meta = disk[e].meta \/ disk'[e].meta = "whole",
             rpc = "meta" => rpc' = "meta",
             rpc = "metaWrite" => rpc' = "metaWrite" \/ disk'[Device].meta = "whole"
      PROVE  DescribedSoFar'
  <2>1. plan \in DOMAIN Plans
    BY <1>6, InLoopsPlan
  <2>2. ASSUME NEW w \in Planned(plan), w[1] \notin todo, errors = 0
        PROVE  /\ Plans[plan][w[1]].device \in Devices /\ Plans[plan][w[1]].device # NoDevice
               /\ \/ disk'[Plans[plan][w[1]].device].meta = "whole"
                  \/ rpc' = "meta" /\ w[1] = target
                  \/ rpc' = "metaWrite" /\ Plans[plan][w[1]].device = Device
    <3>1. w[1] \in DOMAIN Plans[plan]
      BY <2>1, PlannedKnown
    <3>2. Plans[plan][w[1]].device # NoDevice
      BY <1>6, <2>2 DEF DescribedSoFar
    <3>3. Plans[plan][w[1]].device \in Devices
      BY <2>1, <3>1, <3>2, DeviceKnown
    <3>4. \/ disk[Plans[plan][w[1]].device].meta = "whole"
          \/ rpc = "meta" /\ w[1] = target
          \/ rpc = "metaWrite" /\ Plans[plan][w[1]].device = Device
      BY <1>6, <2>2 DEF DescribedSoFar
    <3>5. QED
      BY <1>6, <3>2, <3>3, <3>4
  <2>3. Device' = Device
    BY <1>6 DEF Device, At
  <2>4. QED
    BY <1>6, <2>2, <2>3 DEF DescribedSoFar
<1>7. CASE MakeDir
  <2>1. plan \in DOMAIN Plans /\ todo \subseteq DOMAIN Plans[plan] /\ rpc \in InLoops
    BY <1>7, AtHand DEF MakeDir, InLoops
  <2>2. NextTarget \in todo /\ At(NextTarget).device # NoDevice
    BY <1>7, <2>1, NextTargetRemains DEF MakeDir
  <2>3. At(NextTarget).device \in Devices
    BY <2>1, <2>2, DeviceKnown DEF At
  <2>4. disk' = DirPut(At(NextTarget).device, TRUE)
    BY <1>7 DEF MakeDir, DirPut
  <2>5. \A e \in Devices : disk'[e].meta = disk[e].meta
    BY <1>0, <2>3, <2>4, DirMade
  <2>6. ASSUME NEW w \in Planned(plan), w[1] \notin todo', errors = 0
        PROVE  /\ Plans[plan][w[1]].device # NoDevice
               /\ disk'[Plans[plan][w[1]].device].meta = "whole" \/ w[1] = target'
    <3>1. CASE w[1] = NextTarget
      BY <1>7, <2>2, <3>1 DEF MakeDir, At
    <3>2. CASE w[1] # NextTarget
      <4>1. w[1] \notin todo
        BY <1>7, <2>6, <3>2 DEF MakeDir
      <4>2. Plans[plan][w[1]].device # NoDevice /\ disk[Plans[plan][w[1]].device].meta = "whole"
        BY <1>7, <2>1, <2>6, <4>1 DEF DescribedSoFar, MakeDir
      <4>3. Plans[plan][w[1]].device \in Devices
        BY <2>1, <4>2, PlannedKnown, DeviceKnown
      <4>4. QED
        BY <2>5, <4>2, <4>3
    <3>3. QED
      BY <3>1, <3>2
  <2>7. plan' = plan /\ errors' = errors /\ rpc' = "meta"
    BY <1>7 DEF MakeDir
  <2>8. QED
    BY <2>6, <2>7 DEF DescribedSoFar
<1>8. CASE OpenMetadata
  <2>1. plan \in DOMAIN Plans /\ Device \in Devices /\ rpc \in InLoops
    BY <1>8, AtHand DEF OpenMetadata, InLoops, Targeting
  <2>2. disk' = MetaPut(Device, "torn") /\ rpc = "meta" /\ rpc' = "metaWrite"
    BY <1>8 DEF OpenMetadata, MetaPut, Device
  <2>3. \A e \in Devices : e # Device => disk'[e].meta = disk[e].meta
    BY <1>0, <2>1, <2>2, MetaWritten
  <2>4. ASSUME NEW w \in Planned(plan), w[1] \notin todo, errors = 0
        PROVE  /\ Plans[plan][w[1]].device # NoDevice
               /\ \/ disk'[Plans[plan][w[1]].device].meta = "whole"
                  \/ Plans[plan][w[1]].device = Device
    <3>1. /\ Plans[plan][w[1]].device # NoDevice
          /\ disk[Plans[plan][w[1]].device].meta = "whole" \/ w[1] = target
      BY <2>1, <2>2, <2>4 DEF DescribedSoFar
    <3>2. Plans[plan][w[1]].device \in Devices
      BY <2>1, <3>1, PlannedKnown, DeviceKnown
    <3>3. QED
      BY <2>3, <3>1, <3>2 DEF Device, At
  <2>5. UNCHANGED <<plan, todo, errors, Device>>
    BY <1>8 DEF OpenMetadata, loopVars, Device, At
  <2>6. QED
    BY <2>2, <2>4, <2>5 DEF DescribedSoFar
<1>9. CASE WriteMetadata
  <2>1. plan \in DOMAIN Plans /\ Device \in Devices /\ rpc \in InLoops
    BY <1>9, AtHand DEF WriteMetadata, InLoops, Targeting
  <2>2. disk' = MetaPut(Device, "whole") /\ rpc = "metaWrite" /\ rpc' \in InLoops
    BY <1>9 DEF WriteMetadata, MetaPut, Device, InLoops, Targeting, Commanding
  <2>3. disk'[Device].meta = "whole" /\ \A e \in Devices : e # Device => disk'[e].meta = disk[e].meta
    BY <1>0, <2>1, <2>2, MetaWritten
  <2>4. UNCHANGED <<plan, todo, target, errors>>
    BY <1>9 DEF WriteMetadata
  <2>5. QED
    BY <1>6, <2>1, <2>2, <2>3, <2>4
<1>10. CASE Send \/ EndTarget \/ Answer \/ Deadline \/ FileFails \/ Log \/ Finish
  <2>1. disk' = disk /\ UNCHANGED <<plan, todo, target>>
    BY <1>10 DEF Send, EndTarget, Answer, Deadline, Returned, FileFails, Log, Finish, fileVars, loopVars
  <2>2. rpc \in {"target"} \cup Commanding /\ rpc' \in {"target", "done"} \cup Commanding
    BY <1>10 DEF Send, EndTarget, Answer, Deadline, Returned, FileFails, Log, Finish, Commanding
  <2>3. errors' = 0 => errors = 0
    BY <1>0, <1>10 DEF Send, EndTarget, Answer, Deadline, Returned, FileFails, Log, Finish
  <2>4. rpc \in InLoops /\ rpc' \in InLoops /\ rpc # "meta" /\ rpc # "metaWrite"
    BY <2>2 DEF InLoops, Targeting, Commanding
  <2>5. QED
    BY <1>6, <2>1, <2>3, <2>4
<1>11. CASE OpenFile \/ WriteFile
  <2>1. rpc \in Sending /\ rpc \in InLoops /\ rpc' \in InLoops /\ rpc # "meta" /\ rpc # "metaWrite"
    BY <1>11 DEF OpenFile, WriteFile, Sending, InLoops, Targeting, Commanding
  <2>2. Device \in Devices /\ FileOf[Command(cmd)] \in Files
    BY <2>1, AtHand DEF Sending, Targeting
  <2>3. \E c : disk' = FilePut(Device, FileOf[Command(cmd)], c)
    BY <1>11 DEF OpenFile, WriteFile, FilePut
  <2>4. \A e \in Devices : disk'[e].meta = disk[e].meta
    BY <1>0, <2>2, <2>3, FileWritten
  <2>5. UNCHANGED <<plan, todo, target, errors>>
    BY <1>11 DEF OpenFile, WriteFile, loopVars
  <2>6. QED
    BY <1>6, <2>1, <2>4, <2>5
<1>12. QED
  BY <1>1, <1>2, <1>3, <1>4, <1>5, <1>7, <1>8, <1>9, <1>10, <1>11 DEF CollectNext, RunStep


\* No step harms a file the loops are past; Log is past one more.
LEMMA FreshPreserved ==
  ASSUME CollectInv, LoopsShrink, LogTellsFile, DescribedSoFar, FreshSoFar, [CollectNext]_collectVars
  PROVE  FreshSoFar'
<1>0. errors \in Nat /\ disk \in [Devices -> Dirs]
  BY DEF CollectInv, CollectTypeOK
<1>1. CASE UNCHANGED collectVars
  BY <1>1 DEF FreshSoFar, Past, Fresh, collectVars, loopVars
<1>2. CASE TruncatePlan \/ \E p \in DOMAIN Plans : WritePlan(p)
  BY <1>2 DEF FreshSoFar, Past, Fresh, TruncatePlan, WritePlan, loopVars
<1>3. CASE \/ \E hash \in DOMAIN Plans : StartRun(hash)
           \/ ReadPlan \/ VerifyPlanHash \/ OpenFails \/ Crash
  BY <1>3 DEF FreshSoFar, StartRun, ReadPlan, VerifyPlanHash, OpenFails, Crash, InLoops, Targeting, Commanding
<1>4. CASE TargetFails \/ MetadataFails
  BY <1>0, <1>4 DEF FreshSoFar, TargetFails, MetadataFails, SkipTarget
<1>5. CASE Open
  <2>1. plan' \in DOMAIN Plans
    BY <1>5 DEF Open, CollectInv, CollectTypeOK
  <2>2. \A w \in Planned(plan') : w[1] \in todo'
    BY <1>5, <2>1, PlannedKnown DEF Open
  <2>3. QED
    BY <2>2 DEF FreshSoFar, Past
\* A planned command the loops are past keeps its file: the step writes none, or the
\* file of the command at hand, which is another one.
<1>6. ASSUME rpc \in InLoops, UNCHANGED <<plan, runs>>, errors' = 0 => errors = 0,
             \A w \in Planned(plan) : Past(w)' /\ errors = 0 => Past(w),
             \/ \A e \in Devices : disk'[e].files = disk[e].files
             \/ /\ rpc \in Sending
                /\ \E c : disk' = FilePut(Device, FileOf[Command(cmd)], c)
      PROVE  FreshSoFar'
  <2>1. plan \in DOMAIN Plans
    BY <1>6, InLoopsPlan
  <2>2. ASSUME NEW w \in Planned(plan), Past(w), Unshared(plan, w), errors = 0
        PROVE  disk'[Output(plan, w)[1]].files[Output(plan, w)[2]] = Fresh(plan, w)
    <3>1. Plans[plan][w[1]].device # NoDevice
      BY <1>6, <2>2 DEF DescribedSoFar, Past
    <3>2. Output(plan, w)[1] \in Devices /\ Output(plan, w)[2] \in Files
      BY <2>1, <3>1, PlannedKnown
    <3>3. disk[Output(plan, w)[1]].files[Output(plan, w)[2]] = Fresh(plan, w)
      BY <1>6, <2>2 DEF FreshSoFar
    <3>4. CASE \A e \in Devices : disk'[e].files = disk[e].files
      BY <3>2, <3>3, <3>4
    <3>5. CASE /\ rpc \in Sending
               /\ \E c : disk' = FilePut(Device, FileOf[Command(cmd)], c)
      <4>1. rpc \in Targeting
        BY <3>5 DEF Sending, Targeting
      <4>2. /\ target \in DOMAIN Plans[plan] /\ cmd \in DOMAIN Plans[plan][target].commands
            /\ Plans[plan][target].allowed /\ Plans[plan][target].commands[cmd].allowed
        BY <3>5, <4>1, AtHand DEF LoopsShrink, At
      <4>3. <<target, cmd>> \in Planned(plan)
        BY <2>1, <4>2, PlannedIntro
      <4>4. w # <<target, cmd>>
        BY <2>2, <3>5, <4>1 DEF Past
      <4>5. Output(plan, <<target, cmd>>) # Output(plan, w)
        BY <2>2, <4>3, <4>4 DEF Unshared
      <4>6. Output(plan, <<target, cmd>>) = <<Device, FileOf[Command(cmd)]>>
        BY DEF Output, Device, Command, At
      <4>7. Output(plan, w) = <<Output(plan, w)[1], Output(plan, w)[2]>>
        BY DEF Output
      <4>8. Device # Output(plan, w)[1] \/ FileOf[Command(cmd)] # Output(plan, w)[2]
        BY <4>5, <4>6, <4>7
      <4>9. Device \in Devices /\ FileOf[Command(cmd)] \in Files
        BY <3>5, <4>1, AtHand
      <4>10. QED
        BY <1>0, <3>2, <3>3, <3>5, <4>8, <4>9, FileWritten
    <3>6. QED
      BY <1>6, <3>4, <3>5
  <2>3. QED
    BY <1>6, <2>2 DEF FreshSoFar, Fresh
<1>7. CASE MakeDir
  <2>1. plan \in DOMAIN Plans /\ todo \subseteq DOMAIN Plans[plan] /\ rpc \in InLoops
    BY <1>7, AtHand DEF MakeDir, InLoops
  <2>2. NextTarget \in todo /\ At(NextTarget).device # NoDevice
    BY <1>7, <2>1, NextTargetRemains DEF MakeDir
  <2>3. At(NextTarget).device \in Devices
    BY <2>1, <2>2, DeviceKnown DEF At
  <2>4. disk' = DirPut(At(NextTarget).device, TRUE)
    BY <1>7 DEF MakeDir, DirPut
  <2>5. \A e \in Devices : disk'[e].files = disk[e].files
    BY <1>0, <2>3, <2>4, DirMade
  <2>6. \A w \in Planned(plan) : Past(w)' => Past(w)
    BY <1>7 DEF MakeDir, Past, Targeting, Commanding
  <2>7. UNCHANGED <<plan, runs, errors>>
    BY <1>7 DEF MakeDir
  <2>8. QED
    BY <1>6, <2>1, <2>5, <2>6, <2>7
<1>8. CASE OpenMetadata \/ WriteMetadata
  <2>1. plan \in DOMAIN Plans /\ Device \in Devices /\ rpc \in InLoops
    BY <1>8, AtHand DEF OpenMetadata, WriteMetadata, InLoops, Targeting
  <2>2. \E m : disk' = MetaPut(Device, m)
    BY <1>8 DEF OpenMetadata, WriteMetadata, MetaPut, Device
  <2>3. \A e \in Devices : disk'[e].files = disk[e].files
    BY <1>0, <2>1, <2>2, MetaWritten
  <2>4. UNCHANGED <<plan, runs, errors>>
    BY <1>8 DEF OpenMetadata, WriteMetadata, loopVars
  <2>5. \A w \in Planned(plan) : Past(w)' => Past(w)
    <3>1. CASE OpenMetadata
      BY <3>1 DEF OpenMetadata, loopVars, Past, Targeting, Commanding
    <3>2. CASE WriteMetadata
      <4>1. \A w \in Planned(plan) : w[1] = target => w[2] \in cmds'
        BY <2>1, <3>2, PlannedKnown DEF WriteMetadata, At
      <4>2. QED
        BY <3>2, <4>1 DEF WriteMetadata, Past, Targeting, Commanding
    <3>3. QED
      BY <1>8, <3>1, <3>2
  <2>6. QED
    BY <1>6, <2>1, <2>3, <2>4, <2>5
<1>9. CASE Send \/ EndTarget \/ Answer \/ Deadline \/ FileFails \/ Finish
  <2>1. disk' = disk /\ UNCHANGED <<plan, runs, errors>>
    BY <1>9 DEF Send, EndTarget, Answer, Deadline, Returned, FileFails, Finish, fileVars, loopVars
  <2>2. rpc \in InLoops
    BY <1>9 DEF Send, EndTarget, Answer, Deadline, Returned, FileFails, Finish, InLoops, Targeting, Commanding
  <2>3. \A w \in Planned(plan) : Past(w)' => Past(w)
    BY <1>9 DEF Send, EndTarget, Answer, Deadline, Returned, FileFails, Finish, loopVars, Past,
                Sending, Targeting, Commanding
  <2>4. QED
    BY <1>6, <2>1, <2>2, <2>3
<1>10. CASE OpenFile \/ WriteFile
  <2>1. rpc \in Sending /\ rpc \in InLoops
    BY <1>10 DEF OpenFile, WriteFile, Sending, InLoops, Targeting, Commanding
  <2>2. \E c : disk' = FilePut(Device, FileOf[Command(cmd)], c)
    BY <1>10 DEF OpenFile, WriteFile, FilePut
  <2>3. UNCHANGED <<plan, runs, errors>>
    BY <1>10 DEF OpenFile, WriteFile, loopVars
  <2>4. \A w \in Planned(plan) : Past(w)' => Past(w)
    BY <1>10 DEF OpenFile, WriteFile, loopVars, Past, Sending, Targeting, Commanding
  <2>5. QED
    BY <1>6, <2>1, <2>2, <2>3, <2>4
\* The command at hand becomes one the loops are past: it failed, and is counted, or
\* its file is the one its entry tells of.
<1>11. CASE Log
  <2>1. /\ rpc = "log" /\ rpc' = "command" /\ UNCHANGED <<plan, runs, todo, target, cmds, cmd, disk>>
        /\ errors' = 0 => errors = 0 /\ result.status = "ok"
    BY <1>0, <1>11 DEF Log, loopVars
  <2>2. plan \in DOMAIN Plans /\ rpc \in InLoops
    BY <2>1, InLoopsPlan DEF InLoops, Targeting, Commanding
  <2>3. ASSUME NEW w \in Planned(plan), Past(w)', Unshared(plan, w), errors' = 0
        PROVE  disk[Output(plan, w)[1]].files[Output(plan, w)[2]] = Fresh(plan, w)
    <3>1. CASE w[1] = target /\ w[2] = cmd
      BY <2>1, <2>3, <3>1 DEF LogTellsFile, Output, Fresh, Device, Command, At
    <3>2. CASE ~(w[1] = target /\ w[2] = cmd)
      <4>1. Past(w)
        BY <2>1, <2>3, <3>2 DEF Past, Sending, Targeting, Commanding
      <4>2. QED
        BY <2>1, <2>2, <2>3, <4>1 DEF FreshSoFar
    <3>3. QED
      BY <3>1, <3>2
  <2>4. QED
    BY <2>1, <2>3 DEF FreshSoFar, Fresh
<1>12. QED
  BY <1>1, <1>2, <1>3, <1>4, <1>5, <1>7, <1>8, <1>9, <1>10, <1>11 DEF CollectNext, RunStep

-----------------------------------------------------------------------------
\* Three actions touch the history of a run; the others leave it, and the command in
\* the runner's hands, alone.
LEMMA HistoryStep ==
  ASSUME [CollectNext]_collectVars
  PROVE  \/ Send
         \/ Log
         \/ \E hash \in DOMAIN Plans : StartRun(hash)
         \/ /\ UNCHANGED <<sent, audit, runs, failing>>
            /\ rpc' \in Sending => rpc \in Sending /\ UNCHANGED <<plan, confirmed, target, cmd>>
            /\ rpc' \in Starting => rpc \in Starting
            /\ rpc' \in Running => rpc \in Running
            /\ rpc' \in Settled => rpc \in Settled
<1>1. CASE UNCHANGED collectVars
  BY <1>1 DEF collectVars, loopVars
<1>2. CASE TruncatePlan \/ (\E p \in DOMAIN Plans : WritePlan(p))
  BY <1>2 DEF TruncatePlan, WritePlan, loopVars
<1>3. CASE ReadPlan \/ VerifyPlanHash \/ OpenFails \/ Open \/ TargetFails \/ MetadataFails
  BY <1>3 DEF ReadPlan, VerifyPlanHash, OpenFails, Open, TargetFails, MetadataFails, SkipTarget, Stay, fileVars,
              Sending, Starting, Running, Settled, Commanding
<1>4. CASE MakeDir \/ OpenMetadata \/ WriteMetadata \/ EndTarget \/ Finish \/ Crash
  BY <1>4 DEF MakeDir, OpenMetadata, WriteMetadata, EndTarget, Finish, Crash, fileVars, loopVars,
              Sending, Starting, Running, Settled, Commanding
<1>5. CASE Answer \/ Deadline \/ OpenFile \/ WriteFile \/ FileFails
  BY <1>5 DEF Answer, Deadline, Returned, OpenFile, WriteFile, FileFails, fileVars, loopVars,
              Sending, Starting, Running, Settled, Commanding
<1>6. QED
  BY <1>1, <1>2, <1>3, <1>4, <1>5 DEF CollectNext, RunStep

\* What Send and Log append.
LEMMA SendAppends ==
  ASSUME CollectInv, Send
  PROVE  \E s \in SentRecord :
           /\ sent' = Append(sent, s) /\ audit' = audit
           /\ s = [run |-> runs', hash |-> confirmed', target |-> target', device |-> Device',
                   ip |-> At(target').ip, command |-> Command(cmd)'] 
           /\ s.device \in Devices /\ FileOf[s.command] \in Files
           /\ rpc = "command" /\ rpc' = "answer" /\ UNCHANGED <<runs, disk, failing, target, plan, confirmed>>
<1>1. /\ plan \in DOMAIN Plans /\ target \in DOMAIN Plans[plan] /\ plan = confirmed
      /\ cmds \subseteq DOMAIN At(target).commands /\ Device \in Devices /\ Device \in Nat
      /\ At(target).ip \in Nat /\ target \in Nat /\ runs \in Nat
  BY AtHand, CollectRunAssumption DEF Send, Targeting, Commanding, CollectInv, CollectTypeOK
<1>2. NextCommand \in DOMAIN Plans[plan][target].commands
  BY <1>1, NextCommandRemains DEF Send, At
<1>3. Command(NextCommand) \in Nat /\ FileOf[Command(NextCommand)] \in Files
  BY <1>1, <1>2, FileKnown DEF Command, At
<1> DEFINE s == [run |-> runs, hash |-> confirmed, target |-> target, device |-> Device,
                 ip |-> At(target).ip, command |-> Command(NextCommand)]
<1>4. s \in SentRecord
  BY <1>1, <1>3 DEF SentRecord
<1>5. sent' = Append(sent, s) /\ audit' = audit /\ cmd' = NextCommand
  BY DEF Send, fileVars
<1>6. UNCHANGED <<runs, confirmed, target, Device, At(target), plan, disk, failing>> /\ Command(cmd)' = Command(NextCommand)
  BY <1>5 DEF Send, Device, At, Command, fileVars
<1>7. At(target') = At(target)
  BY <1>6
<1>8. QED
  BY <1>1, <1>3, <1>4, <1>5, <1>6, <1>7 DEF Send

LEMMA LogAppends ==
  ASSUME CollectInv, Log
  PROVE  /\ sent' = sent /\ rpc = "log" /\ rpc' = "command" /\ UNCHANGED <<runs, disk, failing>>
         /\ AuditEntry \in AuditRecord
         /\ \/ audit' = Append(audit, AuditEntry)
            \/ "audit" \in failing /\ audit' = audit
<1>1. /\ Command(cmd) \in Nat /\ target \in Nat /\ runs \in Nat /\ result.status \in {"ok", "error"}
  BY AtHand, CollectRunAssumption DEF Log, Sending, Targeting, Commanding, CollectInv, CollectTypeOK
<1>2. AuditEntry \in AuditRecord
  BY <1>1 DEF AuditEntry, AuditRecord
<1>3. QED
  BY <1>2 DEF Log

\* Types of the history, and that no run before this one has its number.
LEMMA HistoryTypedPreserved ==
  ASSUME CollectInv, HistoryTyped, [CollectNext]_collectVars
  PROVE  HistoryTyped'
<1>0. sent \in Seq(SentRecord) /\ audit \in Seq(AuditRecord) /\ runs \in Nat
  BY CollectRunAssumption DEF CollectInv, CollectTypeOK, HistoryTyped
<1>1. CASE Send
  <2>1. PICK s \in SentRecord :
          /\ sent' = Append(sent, s) /\ audit' = audit /\ s.run = runs
          /\ s.device \in Devices /\ FileOf[s.command] \in Files
          /\ rpc = "command" /\ rpc' = "answer" /\ runs' = runs
    BY <1>1, SendAppends
  <2>2. runs > 0 /\ s.run \in 1..runs'
    BY <1>0, <2>1 DEF HistoryTyped, Running
  <2>3. \A i \in DOMAIN sent' : (i \in DOMAIN sent /\ sent'[i] = sent[i]) \/ sent'[i] = s
    BY <1>0, <2>1
  <2>4. QED
    BY <2>1, <2>2, <2>3 DEF HistoryTyped, Starting
<1>2. CASE Log
  <2>1. /\ sent' = sent /\ rpc = "log" /\ rpc' = "command" /\ runs' = runs /\ AuditEntry \in AuditRecord
        /\ audit' = Append(audit, AuditEntry) \/ audit' = audit
    BY <1>2, LogAppends
  <2>2. runs > 0 /\ AuditEntry.run = runs
    BY <2>1 DEF HistoryTyped, Running, AuditEntry
  <2> HIDE DEF AuditEntry
  <2>3. audit' \in Seq(AuditRecord)
    BY <1>0, <2>1
  <2>4. \A e \in DOMAIN audit' : (e \in DOMAIN audit /\ audit'[e] = audit[e]) \/ audit'[e] = AuditEntry
    BY <1>0, <2>1
  <2>5. QED
    BY <1>0, <2>1, <2>2, <2>3, <2>4 DEF HistoryTyped, Starting
<1>3. ASSUME NEW hash \in DOMAIN Plans, StartRun(hash)
      PROVE  HistoryTyped'
  <2>1. runs' = runs + 1 /\ sent' = sent /\ audit' = audit
    BY <1>3 DEF StartRun, fileVars
  <2>2. \A r \in 1..runs : r \in 1..runs + 1 /\ r # runs + 1
    BY <1>0
  <2>3. runs' > 0
    BY <1>0, <2>1
  <2>4. \A i \in DOMAIN sent :
          /\ sent[i].run \in 1..runs' /\ sent[i].run # runs'
          /\ sent[i].device \in Devices /\ FileOf[sent[i].command] \in Files
    BY <2>1, <2>2 DEF HistoryTyped
  <2>5. \A e \in DOMAIN audit : audit[e].run \in 1..runs' /\ audit[e].run # runs'
    BY <2>1, <2>2 DEF HistoryTyped
  <2>6. QED
    BY <1>0, <2>1, <2>3, <2>4, <2>5 DEF HistoryTyped
<1>4. CASE /\ UNCHANGED <<sent, audit, runs>>
           /\ rpc' \in Starting => rpc \in Starting
           /\ rpc' \in Running => rpc \in Running
  BY <1>4 DEF HistoryTyped
<1>5. QED
  BY <1>1, <1>2, <1>3, <1>4, HistoryStep

\* Send makes the command at hand the last one sent.
LEMMA SendAtHandPreserved ==
  ASSUME CollectInv, SendAtHand, [CollectNext]_collectVars
  PROVE  SendAtHand'
<1>0. sent \in Seq(SentRecord)
  BY DEF CollectInv
<1>1. CASE Send
  <2>1. PICK s \in SentRecord :
           /\ sent' = Append(sent, s)
           /\ s = [run |-> runs', hash |-> confirmed', target |-> target', device |-> Device',
                   ip |-> At(target').ip, command |-> Command(cmd)']
           /\ UNCHANGED plan
    BY <1>1, SendAppends
  <2>2. sent' # << >> /\ sent'[Len(sent')] = s
    BY <1>0, <2>1
  <2>3. At(target') = At(target)'
    BY <2>1 DEF At
  <2>4. QED
    BY <2>1, <2>2, <2>3 DEF SendAtHand
<1>2. CASE rpc' \notin Sending
  BY <1>2 DEF SendAtHand
<1>3. CASE UNCHANGED <<sent, runs>> /\ rpc \in Sending /\ UNCHANGED <<plan, confirmed, target, cmd>>
  BY <1>3 DEF SendAtHand, Device, At, Command
<1>4. QED
  BY <1>1, <1>2, <1>3, HistoryStep DEF Log, StartRun, Sending, Commanding

\* Log writes the entry of the last command sent.
LEMMA EntriesPreserved ==
  ASSUME CollectInv, HistoryTyped, SendAtHand, EntriesHaveSends, [CollectNext]_collectVars
  PROVE  EntriesHaveSends'
<1>0. sent \in Seq(SentRecord) /\ audit \in Seq(AuditRecord)
  BY DEF CollectInv, HistoryTyped
<1>1. CASE Send
  <2>1. PICK s \in SentRecord :
          /\ sent' = Append(sent, s) /\ audit' = audit
    BY <1>1, SendAppends
  <2>2. \A i \in DOMAIN sent : i \in DOMAIN sent' /\ i < Len(sent') /\ sent'[i] = sent[i]
    BY <1>0, <2>1
  <2>3. QED
    BY <2>1, <2>2 DEF EntriesHaveSends, Of
<1>2. CASE Log
  <2>1. /\ sent' = sent /\ rpc \in Sending /\ rpc' \notin Sending /\ AuditEntry \in AuditRecord
        /\ audit' = Append(audit, AuditEntry) \/ audit' = audit
    BY <1>2, LogAppends DEF Sending, Commanding
  <2>2. /\ Len(sent) \in DOMAIN sent
        /\ AuditEntry.run = sent[Len(sent)].run
        /\ AuditEntry.target = sent[Len(sent)].target
        /\ AuditEntry.command = sent[Len(sent)].command
    BY <1>0, <2>1 DEF SendAtHand, AuditEntry
  <2>3. \A e \in DOMAIN audit' : (e \in DOMAIN audit /\ audit'[e] = audit[e]) \/ audit'[e] = AuditEntry
    BY <1>0, <2>1
  <2>4. QED
    BY <2>1, <2>2, <2>3 DEF EntriesHaveSends, Of
<1>3. CASE UNCHANGED <<sent, audit>> /\ (rpc' \in Sending => rpc \in Sending)
  BY <1>3 DEF EntriesHaveSends, Of
<1>4. QED
  BY <1>1, <1>2, <1>3, HistoryStep DEF StartRun, fileVars, Sending, Commanding

\* A write touches the file of the command at hand; an entry tells of that file.
LEMMA AuditTellsPreserved ==
  ASSUME CollectInv, LoopsShrink, LogTellsFile, HistoryTyped, SendAtHand, EntriesHaveSends,
         AuditTellsFiles, [CollectNext]_collectVars
  PROVE  AuditTellsFiles'
<1>0. /\ sent \in Seq(SentRecord) /\ audit \in Seq(AuditRecord) /\ disk \in [Devices -> Dirs]
  BY DEF CollectInv, CollectTypeOK, HistoryTyped
<1> DEFINE FileFor(s) == [state |-> "whole", run |-> s.run, ip |-> s.ip, command |-> s.command]
           Last == sent[Len(sent)]
\* The command in the runner's hands has no entry yet, so a write to its file touches
\* none the audit file tells of.
<1>1. ASSUME rpc \in Sending, NEW i \in DOMAIN sent, LastFor(i), SentOnce(i), LoggedOk(sent[i])
      PROVE  sent[i].device # Last.device \/ FileOf[sent[i].command] # FileOf[Last.command]
  <2>1. PICK e \in DOMAIN audit :
          audit[e] = [run |-> sent[i].run, target |-> sent[i].target, command |-> sent[i].command, status |-> "ok"]
    BY <1>1 DEF LoggedOk
  <2>2. PICK j \in DOMAIN sent : Of(e, j) /\ j < Len(sent)
    BY <1>1 DEF EntriesHaveSends
  <2>3. i = j
    BY <1>1, <2>1, <2>2 DEF SentOnce, Of
  <2>4. Len(sent) \in DOMAIN sent /\ Len(sent) > i
    BY <1>0, <2>2, <2>3
  <2>5. QED
    BY <1>1, <2>4 DEF LastFor
<1>2. CASE Send
  <2>1. PICK s \in SentRecord :
          /\ sent' = Append(sent, s) /\ audit' = audit /\ disk' = disk /\ rpc = "command"
    BY <1>2, SendAppends
  <2>2. \A i \in DOMAIN sent : i \in DOMAIN sent' /\ sent'[i] = sent[i]
    BY <1>0, <2>1
  <2>3. \A i \in DOMAIN sent' : i \notin DOMAIN sent => sent'[i] = s
    BY <1>0, <2>1
  <2>4. ASSUME NEW i \in DOMAIN sent, LastFor(i)', SentOnce(i)', LoggedOk(sent[i])'
        PROVE  disk'[sent'[i].device].files[FileOf[sent'[i].command]] = FileFor(sent'[i])
    <3>1. LastFor(i) /\ SentOnce(i)
      BY <2>2, <2>4 DEF LastFor, SentOnce
    <3>2. LoggedOk(sent[i])
      BY <2>1, <2>2, <2>4 DEF LoggedOk
    <3>3. QED
      BY <2>1, <2>2, <3>1, <3>2 DEF AuditTellsFiles
  <2>5. ASSUME NEW i \in DOMAIN sent', i \notin DOMAIN sent, SentOnce(i)', LoggedOk(sent[i])'
        PROVE  FALSE
    <3>1. PICK e \in DOMAIN audit :
            audit[e] = [run |-> s.run, target |-> s.target, command |-> s.command, status |-> "ok"]
      BY <2>1, <2>3, <2>5 DEF LoggedOk
    <3>2. PICK j \in DOMAIN sent : Of(e, j)
      BY DEF EntriesHaveSends
    <3>3. sent'[j] = sent[j] /\ j \in DOMAIN sent' /\ sent'[i] = s
      BY <2>2, <2>3, <2>5
    <3>4. j = i
      BY <2>5, <3>1, <3>2, <3>3 DEF SentOnce, Of
    <3>5. QED
      BY <2>5, <3>4
  <2>6. QED
    BY <2>3, <2>4, <2>5 DEF AuditTellsFiles
<1>3. CASE Log
  <2>1. /\ sent' = sent /\ rpc = "log" /\ disk' = disk /\ AuditEntry \in AuditRecord
        /\ audit' = Append(audit, AuditEntry) \/ audit' = audit
    BY <1>3, LogAppends
  <2>2. \A e \in DOMAIN audit' : (e \in DOMAIN audit /\ audit'[e] = audit[e]) \/ audit'[e] = AuditEntry
    BY <1>0, <2>1
  <2>3. /\ Len(sent) \in DOMAIN sent
        /\ Last = [run |-> runs, hash |-> confirmed, target |-> target, device |-> Device,
                   ip |-> At(target).ip, command |-> Command(cmd)]
    BY <1>0, <2>1 DEF SendAtHand, Sending, Commanding
  <2>4. ASSUME NEW i \in DOMAIN sent, LastFor(i)', SentOnce(i)', LoggedOk(sent[i])'
        PROVE  disk'[sent'[i].device].files[FileOf[sent'[i].command]] = FileFor(sent'[i])
    <3>1. LastFor(i) /\ SentOnce(i)
      BY <2>1, <2>4 DEF LastFor, SentOnce
    <3>2. CASE LoggedOk(sent[i])
      BY <2>1, <3>1, <3>2 DEF AuditTellsFiles
    <3>3. CASE ~LoggedOk(sent[i])
      <4>1. PICK e \in DOMAIN audit' :
              audit'[e] = [run |-> sent[i].run, target |-> sent[i].target, command |-> sent[i].command, status |-> "ok"]
        BY <2>1, <2>4 DEF LoggedOk
      <4>2. audit'[e] = AuditEntry
        BY <2>2, <3>3, <4>1 DEF LoggedOk
      <4>3. /\ sent[i].run = runs /\ sent[i].target = target /\ sent[i].command = Command(cmd)
            /\ result.status = "ok"
        BY <4>1, <4>2 DEF AuditEntry
      <4>4. i = Len(sent)
        BY <2>3, <3>1, <4>3 DEF SentOnce
      <4>5. sent[i] = Last
        BY <4>4
      <4>6. disk[Device].files[FileOf[Command(cmd)]] =
              [state |-> "whole", run |-> runs, ip |-> At(target).ip, command |-> Command(cmd)]
        BY <2>1, <4>3 DEF LogTellsFile
      <4>7. QED
        BY <2>1, <2>3, <4>5, <4>6
    <3>4. QED
      BY <3>2, <3>3
  <2>5. QED
    BY <2>1, <2>4 DEF AuditTellsFiles
<1>4. CASE /\ UNCHANGED <<sent, audit>>
           /\ \A i \in DOMAIN sent : LastFor(i) /\ SentOnce(i) /\ LoggedOk(sent[i]) =>
                disk'[sent[i].device].files[FileOf[sent[i].command]] =
                  disk[sent[i].device].files[FileOf[sent[i].command]]
  <2>1. \A i \in DOMAIN sent : (LastFor(i)' <=> LastFor(i)) /\ (SentOnce(i)' <=> SentOnce(i))
                               /\ (LoggedOk(sent[i])' <=> LoggedOk(sent[i]))
    BY <1>4 DEF LastFor, SentOnce, LoggedOk
  <2>2. QED
    BY <1>4, <2>1 DEF AuditTellsFiles
<1>5. CASE OpenFile \/ WriteFile
  <2>1. rpc \in Sending /\ rpc \in Targeting /\ UNCHANGED <<sent, audit>>
    BY <1>5 DEF OpenFile, WriteFile, Sending, Targeting, Commanding
  <2>2. Device \in Devices /\ FileOf[Command(cmd)] \in Files
    BY <2>1, AtHand
  <2>3. Last.device = Device /\ Last.command = Command(cmd)
    BY <2>1 DEF SendAtHand
  <2>4. \E c : disk' = FilePut(Device, FileOf[Command(cmd)], c)
    BY <1>5 DEF OpenFile, WriteFile, FilePut
  <2>5. \A e \in Devices, g \in Files :
          e # Device \/ g # FileOf[Command(cmd)] => disk'[e].files[g] = disk[e].files[g]
    BY <1>0, <2>2, <2>4, FileWritten
  <2>6. \A i \in DOMAIN sent : sent[i].device \in Devices /\ FileOf[sent[i].command] \in Files
    BY DEF HistoryTyped
  <2> HIDE DEF Last
  <2>7. QED
    BY <1>1, <1>4, <2>1, <2>3, <2>5, <2>6
<1>6. CASE MakeDir \/ OpenMetadata \/ WriteMetadata
  <2>1. \A e \in Devices : disk'[e].files = disk[e].files
    <3>1. CASE MakeDir
      <4>1. plan \in DOMAIN Plans /\ todo \subseteq DOMAIN Plans[plan]
        BY <3>1, AtHand DEF MakeDir
      <4>2. NextTarget \in todo /\ At(NextTarget).device # NoDevice
        BY <3>1, <4>1, NextTargetRemains DEF MakeDir
      <4>3. At(NextTarget).device \in Devices
        BY <4>1, <4>2, DeviceKnown DEF At
      <4>4. disk' = DirPut(At(NextTarget).device, TRUE)
        BY <3>1 DEF MakeDir, DirPut
      <4>5. QED
        BY <1>0, <4>3, <4>4, DirMade
    <3>2. CASE OpenMetadata \/ WriteMetadata
      <4>1. Device \in Devices
        BY <3>2, AtHand DEF OpenMetadata, WriteMetadata, Targeting
      <4>2. \E m : disk' = MetaPut(Device, m)
        BY <3>2 DEF OpenMetadata, WriteMetadata, MetaPut, Device
      <4>3. QED
        BY <1>0, <4>1, <4>2, MetaWritten
    <3>3. QED
      BY <1>6, <3>1, <3>2
  <2>2. UNCHANGED <<sent, audit>>
    BY <1>6 DEF MakeDir, OpenMetadata, WriteMetadata
  <2>3. \A i \in DOMAIN sent : sent[i].device \in Devices
    BY DEF HistoryTyped
  <2>4. QED
    BY <1>4, <2>1, <2>2, <2>3
<1>7. CASE UNCHANGED <<sent, audit, disk>>
  BY <1>4, <1>7
<1>8. QED
  BY <1>2, <1>3, <1>5, <1>6, <1>7
     DEF CollectNext, RunStep, collectVars, loopVars, fileVars, Stay, TruncatePlan, WritePlan, StartRun, ReadPlan,
         VerifyPlanHash, OpenFails, Open, TargetFails, SkipTarget, MetadataFails,
         EndTarget, Answer, Deadline, Returned, FileFails, Finish, Crash

\* What was paired stays paired when another run's send or entry follows.
LEMMA PairedStays ==
  ASSUME sent \in Seq(SentRecord), audit \in Seq(AuditRecord),
         NEW r \in Nat, NEW s \in Nat, NEW n \in Nat, NEW a \in Nat, NEW m \in Nat,
         Paired(r, s, a, n, m), m \in n - 1..n, s + n <= Len(sent), a + m <= Len(audit),
         \A i \in DOMAIN sent : i \in DOMAIN sent' /\ sent'[i] = sent[i],
         \A e \in DOMAIN audit : e \in DOMAIN audit' /\ audit'[e] = audit[e],
         \A i \in DOMAIN sent' : i \notin DOMAIN sent => sent'[i].run # r,
         \A e \in DOMAIN audit' : e \notin DOMAIN audit => audit'[e].run # r
  PROVE  Paired(r, s, a, n, m)'
<1>1. Sends(r)' = Sends(r) /\ Entries(r)' = Entries(r)
  BY DEF Sends, Entries
<1>2. \A k \in 1..m : s + k \in DOMAIN sent /\ a + k \in DOMAIN audit
  OBVIOUS
<1>3. QED
  BY <1>1, <1>2 DEF Paired

\* Send adds to the sends of this run, Log to its entries, StartRun opens the next pair.
LEMMA PairedPreserved ==
  ASSUME CollectInv, HistoryTyped, SendAtHand, PairedSoFar, [CollectNext]_collectVars
  PROVE  PairedSoFar'
<1>0. sent \in Seq(SentRecord) /\ audit \in Seq(AuditRecord) /\ runs \in Nat
  BY CollectRunAssumption DEF CollectInv, CollectTypeOK, HistoryTyped
<1> DEFINE Kept(r, s, n, a, m) ==
             /\ Paired(r, s, a, n, m) /\ m \in n - 1..n
             /\ s + n <= Len(sent) /\ a + m <= Len(audit)
             /\ r = runs => /\ s + n = Len(sent) /\ a + m = Len(audit)
                            /\ rpc \in Sending => m = n - 1
                            /\ rpc \in Settled => m = n
<1>1. CASE "audit" \in failing'
  BY <1>1 DEF PairedSoFar
<1>2. CASE Send /\ "audit" \notin failing
  <2>1. PICK q \in SentRecord :
          /\ sent' = Append(sent, q) /\ audit' = audit /\ q.run = runs
          /\ rpc = "command" /\ rpc' = "answer" /\ runs' = runs
    BY <1>2, SendAppends
  <2>2. /\ \A i \in DOMAIN sent : i \in DOMAIN sent' /\ sent'[i] = sent[i]
        /\ \A i \in DOMAIN sent' : i \notin DOMAIN sent => i = Len(sent) + 1
        /\ Len(sent) + 1 \in DOMAIN sent' /\ sent'[Len(sent) + 1] = q
        /\ Len(sent') = Len(sent) + 1
    BY <1>0, <2>1
  <2>3. ASSUME NEW r \in 1..runs
        PROVE  \E s, n \in 0..Len(sent'), a, m \in 0..Len(audit') : Kept(r, s, n, a, m)'
    <3>1. PICK s \in 0..Len(sent), n \in 0..Len(sent), a \in 0..Len(audit), m \in 0..Len(audit) : Kept(r, s, n, a, m)
      BY <1>2 DEF PairedSoFar
    <3>2. CASE r # runs
      <4>1. Paired(r, s, a, n, m)'
        <5>1. \A i \in DOMAIN sent' : i \notin DOMAIN sent => sent'[i].run # r
          BY <2>1, <2>2, <3>2
        <5>2. /\ \A e \in DOMAIN audit : e \in DOMAIN audit' /\ audit'[e] = audit[e]
              /\ \A e \in DOMAIN audit' : e \notin DOMAIN audit => audit'[e].run # r
          BY <2>1
        <5>3. r \in Nat /\ s \in Nat /\ n \in Nat /\ a \in Nat /\ m \in Nat
          BY <1>0
        <5>4. QED
          BY <1>0, <2>2, <3>1, <5>1, <5>2, <5>3, PairedStays
      <4>2. Kept(r, s, n, a, m)'
        BY <1>0, <2>1, <2>2, <3>1, <3>2, <4>1
      <4>3. s \in 0..Len(sent') /\ n \in 0..Len(sent')
        BY <1>0, <2>2
      <4> HIDE DEF Kept
      <4>4. QED
        BY <2>1, <4>2, <4>3
    <3>3. CASE r = runs
      <4>1. m = n /\ s + n = Len(sent) /\ a + m = Len(audit)
        BY <2>1, <3>1, <3>3 DEF Settled, Running, Sending, Commanding
      <4>2. Sends(r)' = s + 1..s + (n + 1)
        <5>1. Sends(r)' = Sends(r) \cup {Len(sent) + 1}
          BY <1>0, <2>1, <2>2, <3>3 DEF Sends
        <5>2. Sends(r) = s + 1..s + n
          BY <3>1 DEF Paired
        <5>3. QED
          BY <1>0, <4>1, <5>1, <5>2
      <4>3. Entries(r)' = a + 1..a + m
        BY <2>1, <3>1 DEF Entries, Paired
      <4>4. ASSUME NEW k \in 1..m
            PROVE  /\ audit'[a + k].target = sent'[s + k].target
                   /\ audit'[a + k].command = sent'[s + k].command
        <5>1. s + k \in DOMAIN sent
          BY <1>0, <4>1
        <5>2. QED
          BY <2>1, <2>2, <3>1, <5>1 DEF Paired
      <4>5. Paired(r, s, a, n + 1, m)'
        BY <4>2, <4>3, <4>4 DEF Paired
      <4>6. Kept(r, s, n + 1, a, m)'
        BY <1>0, <2>1, <2>2, <4>1, <4>5 DEF Sending, Settled, Commanding
      <4>7. s \in 0..Len(sent') /\ n + 1 \in 0..Len(sent')
        BY <1>0, <2>2, <4>1
      <4> HIDE DEF Kept
      <4>8. QED
        BY <2>1, <4>6, <4>7
    <3>4. QED
      BY <3>2, <3>3
  <2>4. QED
    BY <2>1, <2>3 DEF PairedSoFar
<1>3. CASE Log /\ "audit" \notin failing
  <2>1. /\ sent' = sent /\ rpc = "log" /\ rpc' = "command" /\ runs' = runs
        /\ AuditEntry \in AuditRecord /\ audit' = Append(audit, AuditEntry)
    BY <1>3, LogAppends
  <2>2. /\ \A e \in DOMAIN audit : e \in DOMAIN audit' /\ audit'[e] = audit[e]
        /\ \A e \in DOMAIN audit' : e \notin DOMAIN audit => e = Len(audit) + 1
        /\ Len(audit) + 1 \in DOMAIN audit' /\ audit'[Len(audit) + 1] = AuditEntry
        /\ Len(audit') = Len(audit) + 1
    BY <1>0, <2>1
  <2>3. /\ AuditEntry.run = runs
        /\ AuditEntry.target = sent[Len(sent)].target /\ AuditEntry.command = sent[Len(sent)].command
    BY <2>1 DEF AuditEntry, SendAtHand, Sending, Commanding
  <2> HIDE DEF AuditEntry
  <2>4. ASSUME NEW r \in 1..runs
        PROVE  \E s, n \in 0..Len(sent'), a, m \in 0..Len(audit') : Kept(r, s, n, a, m)'
    <3>1. PICK s \in 0..Len(sent), n \in 0..Len(sent), a \in 0..Len(audit), m \in 0..Len(audit) : Kept(r, s, n, a, m)
      BY <1>3 DEF PairedSoFar
    <3>2. CASE r # runs
      <4>1. Paired(r, s, a, n, m)'
        <5>1. \A e \in DOMAIN audit' : e \notin DOMAIN audit => audit'[e].run # r
          BY <2>2, <2>3, <3>2
        <5>2. /\ \A i \in DOMAIN sent : i \in DOMAIN sent' /\ sent'[i] = sent[i]
              /\ \A i \in DOMAIN sent' : i \notin DOMAIN sent => sent'[i].run # r
          BY <2>1
        <5>3. r \in Nat /\ s \in Nat /\ n \in Nat /\ a \in Nat /\ m \in Nat
          BY <1>0
        <5>4. QED
          BY <1>0, <2>2, <3>1, <5>1, <5>2, <5>3, PairedStays
      <4>2. Kept(r, s, n, a, m)'
        BY <1>0, <2>1, <2>2, <3>1, <3>2, <4>1
      <4>3. a \in 0..Len(audit') /\ m \in 0..Len(audit')
        BY <1>0, <2>2
      <4> HIDE DEF Kept
      <4>4. QED
        BY <2>1, <4>2, <4>3
    <3>3. CASE r = runs
      <4>1. m = n - 1 /\ s + n = Len(sent) /\ a + m = Len(audit)
        BY <2>1, <3>1, <3>3 DEF Sending, Commanding
      <4>2. Entries(r)' = a + 1..a + n
        <5>1. Entries(r)' = Entries(r) \cup {Len(audit) + 1}
          BY <1>0, <2>1, <2>2, <2>3, <3>3 DEF Entries
        <5>2. Entries(r) = a + 1..a + m
          BY <3>1 DEF Paired
        <5>3. QED
          BY <1>0, <4>1, <5>1, <5>2
      <4>3. Sends(r)' = s + 1..s + n
        BY <2>1, <3>1 DEF Sends, Paired
      <4>4. ASSUME NEW k \in 1..n
            PROVE  /\ audit'[a + k].target = sent'[s + k].target
                   /\ audit'[a + k].command = sent'[s + k].command
        <5>1. CASE k = n
          <6>1. a + k = Len(audit) + 1 /\ s + k = Len(sent)
            BY <1>0, <4>1, <5>1
          <6>2. QED
            BY <2>1, <2>2, <2>3, <6>1
        <5>2. CASE k # n
          <6>1. k \in 1..m /\ a + k \in DOMAIN audit
            BY <1>0, <4>1, <5>2
          <6>2. QED
            BY <2>1, <2>2, <3>1, <6>1 DEF Paired
        <5>3. QED
          BY <5>1, <5>2
      <4>5. Paired(r, s, a, n, n)'
        BY <4>2, <4>3, <4>4 DEF Paired
      <4>6. Kept(r, s, n, a, n)'
        BY <1>0, <2>1, <2>2, <4>1, <4>5 DEF Sending, Settled, Commanding
      <4>7. a \in 0..Len(audit') /\ n \in 0..Len(audit')
        BY <1>0, <2>2, <4>1
      <4> HIDE DEF Kept
      <4>8. QED
        BY <2>1, <4>6, <4>7
    <3>4. QED
      BY <3>2, <3>3
  <2>5. QED
    BY <2>1, <2>4 DEF PairedSoFar
<1>4. ASSUME NEW hash \in DOMAIN Plans, StartRun(hash), "audit" \notin failing
      PROVE  PairedSoFar'
  <2>1. /\ runs' = runs + 1 /\ sent' = sent /\ audit' = audit /\ rpc' = "read"
    BY <1>4 DEF StartRun, fileVars
  <2>2. ASSUME NEW r \in 1..runs'
        PROVE  \E s, n \in 0..Len(sent'), a, m \in 0..Len(audit') : Kept(r, s, n, a, m)'
    <3>1. CASE r \in 1..runs
      <4>1. PICK s \in 0..Len(sent), n \in 0..Len(sent), a \in 0..Len(audit), m \in 0..Len(audit) : Kept(r, s, n, a, m)
        BY <1>4, <3>1 DEF PairedSoFar
      <4>2. Paired(r, s, a, n, m)' /\ r # runs'
        BY <1>0, <2>1, <3>1, <4>1 DEF Paired, Sends, Entries
      <4>3. Kept(r, s, n, a, m)'
        BY <2>1, <4>1, <4>2
      <4> HIDE DEF Kept
      <4>4. QED
        BY <2>1, <4>3
    <3>2. CASE r = runs + 1
      <4>1. Sends(r)' = {} /\ Entries(r)' = {}
        BY <1>0, <2>1, <3>2 DEF HistoryTyped, Sends, Entries
      <4>2. Paired(r, Len(sent), Len(audit), 0, 0)'
        BY <1>0, <4>1 DEF Paired
      <4>3. Kept(r, Len(sent), 0, Len(audit), 0)'
        BY <1>0, <2>1, <4>2 DEF Sending, Commanding
      <4> HIDE DEF Kept
      <4>4. QED
        BY <1>0, <2>1, <4>3
    <3>3. QED
      BY <1>0, <2>1, <3>1, <3>2
  <2>3. QED
    BY <2>2 DEF PairedSoFar
<1>5. CASE /\ UNCHANGED <<sent, audit, runs, failing>>
           /\ rpc' \in Sending => rpc \in Sending
           /\ rpc' \in Settled => rpc \in Settled
  <2>1. \A r, s, a, n, m : Paired(r, s, a, n, m)' <=> Paired(r, s, a, n, m)
    BY <1>5 DEF Paired, Sends, Entries
  <2>2. QED
    BY <1>5, <2>1 DEF PairedSoFar
<1>6. failing' = failing
  BY DEF CollectNext, RunStep, collectVars, loopVars, fileVars, Stay, TruncatePlan, WritePlan, StartRun, ReadPlan,
         VerifyPlanHash, OpenFails, Open, TargetFails, MakeDir, OpenMetadata, WriteMetadata, MetadataFails, Send,
         EndTarget, Answer, Deadline, Returned, OpenFile, WriteFile, FileFails, Log, Finish, Crash
<1>7. QED
  BY <1>1, <1>2, <1>3, <1>4, <1>5, <1>6, HistoryStep

-----------------------------------------------------------------------------
\* Who was asked changes with Send alone.
LEMMA AskedKept ==
  ASSUME UNCHANGED <<sent, runs, plan>>
  PROVE  /\ \A k : Asked(k)' <=> Asked(k)
         /\ \A k, c : AskedFor(k, c)' <=> AskedFor(k, c)
  BY DEF Asked, AskedFor

LEMMA AskedBySend ==
  ASSUME CollectInv, Send
  PROVE  /\ \A k : Asked(k)' <=> Asked(k) \/ k = target
         /\ \A k, c : AskedFor(k, c) => AskedFor(k, c)'
         /\ \A k, c : k = target /\ c = NextCommand => AskedFor(k, c)'
<1>0. sent \in Seq(SentRecord)
  BY DEF CollectInv
<1>1. PICK s \in SentRecord :
           /\ sent' = Append(sent, s)
           /\ s = [run |-> runs', hash |-> confirmed', target |-> target', device |-> Device',
                   ip |-> At(target').ip, command |-> Command(cmd)']
           /\ UNCHANGED <<runs, target, plan>>
  BY SendAppends
<1>2. /\ \A i \in DOMAIN sent : i \in DOMAIN sent' /\ sent'[i] = sent[i]
      /\ \A i \in DOMAIN sent' : i \notin DOMAIN sent => sent'[i] = s
      /\ Len(sent') \in DOMAIN sent' /\ sent'[Len(sent')] = s
  BY <1>0, <1>1
<1>3. s.run = runs /\ s.target = target /\ s.command = Plans[plan][target].commands[NextCommand].command
  <2>1. cmd' = NextCommand
    BY DEF Send
  <2>2. Command(cmd)' = Plans[plan'][target'].commands[cmd'].command
    BY DEF Command, At
  <2>3. QED
    BY <1>1, <2>1, <2>2
<1>4. ASSUME NEW k
      PROVE  Asked(k)' <=> Asked(k) \/ k = target
  <2>1. Asked(k) \/ k = target => Asked(k)'
    BY <1>1, <1>2, <1>3 DEF Asked
  <2>2. ASSUME Asked(k)' PROVE Asked(k) \/ k = target
    <3>1. PICK i \in DOMAIN sent' : sent'[i].run = runs /\ sent'[i].target = k
      BY <1>1, <2>2 DEF Asked
    <3>2. QED
      BY <1>2, <1>3, <3>1 DEF Asked
  <2>3. QED
    BY <2>1, <2>2
<1>5. \A k, c : AskedFor(k, c) => AskedFor(k, c)'
  BY <1>1, <1>2 DEF AskedFor
<1>6. \A k, c : k = target /\ c = NextCommand => AskedFor(k, c)'
  BY <1>1, <1>2, <1>3 DEF AskedFor
<1>7. QED
  BY <1>4, <1>5, <1>6

\* What a step of the loops does to the targets given up and to the count of errors.
LEMMA GivenUpStep ==
  ASSUME CollectInv, LoopsShrink, AskedSoFar, [CollectNext]_collectVars, rpc' \in InLoops
  PROVE  \/ Open /\ GivenUp' = {}
         \/ /\ rpc \in InLoops /\ errors' = errors + 1 /\ UNCHANGED <<audit, runs, failing, sent, plan>>
            /\ \E k : k \notin GivenUp /\ GivenUp' = GivenUp \cup {k}
         \/ /\ rpc \in InLoops /\ GivenUp' = GivenUp /\ plan' = plan
            /\ Log \/ UNCHANGED <<errors, audit, runs, failing>>
<1>1. CASE UNCHANGED collectVars
  <2>1. UNCHANGED <<plan, sent, runs, audit, failing, errors, todo, target, rpc>>
    BY <1>1 DEF collectVars, loopVars
  <2>2. QED
    BY <2>1 DEF GivenUp, Asked, At
<1>2. CASE TruncatePlan \/ \E p \in DOMAIN Plans : WritePlan(p)
  <2>1. UNCHANGED <<plan, sent, runs, audit, failing, errors, todo, target, rpc>>
    BY <1>2 DEF TruncatePlan, WritePlan, loopVars
  <2>2. QED
    BY <2>1 DEF GivenUp, Asked, At
<1>3. CASE \/ \E hash \in DOMAIN Plans : StartRun(hash)
           \/ ReadPlan \/ VerifyPlanHash \/ OpenFails \/ Crash
  BY <1>3 DEF StartRun, ReadPlan, VerifyPlanHash, OpenFails, Crash, InLoops, Targeting, Commanding
<1>4. CASE Open
  BY <1>4 DEF Open, GivenUp, At
<1>5. CASE TargetFails
  <2>1. plan \in DOMAIN Plans /\ todo \subseteq DOMAIN Plans[plan] /\ rpc \in InLoops /\ rpc \notin Targeting
    BY <1>5, AtHand DEF TargetFails, InLoops, Targeting, Commanding
  <2>2. NextTarget \in todo
    BY <1>5, <2>1, NextTargetRemains DEF TargetFails
  <2>3. At(NextTarget).allowed /\ ~Asked(NextTarget) /\ NextTarget \in DOMAIN Plans[plan]
    BY <1>5, <2>1, <2>2 DEF TargetFails, CollectInv, OnlyAllowedRemains, AskedSoFar
  <2>4. /\ UNCHANGED <<plan, sent, runs, audit, failing>> /\ todo' = todo \ {NextTarget} /\ rpc' \notin Targeting
        /\ errors' = errors + 1
    BY <1>5 DEF TargetFails, SkipTarget, fileVars, Targeting, Commanding
  <2>5. \A k : (Asked(k)' <=> Asked(k)) /\ At(k)' = At(k)
    BY <2>4, AskedKept DEF At
  <2>6. GivenUp' = GivenUp \cup {NextTarget} /\ NextTarget \notin GivenUp
    BY <2>1, <2>2, <2>3, <2>4, <2>5 DEF GivenUp
  <2>7. QED
    BY <2>1, <2>4, <2>6
<1>6. CASE MetadataFails
  <2>1. /\ rpc \in InLoops /\ rpc \in Targeting /\ rpc' \notin Targeting
        /\ UNCHANGED <<plan, sent, runs, audit, failing, todo, target>> /\ errors' = errors + 1
        /\ ~Asked(target)
    BY <1>6 DEF MetadataFails, SkipTarget, fileVars, loopVars, InLoops, Targeting, Commanding, AskedSoFar
  <2>2. At(target).allowed /\ target \in DOMAIN Plans[plan] /\ target \notin todo
    BY <2>1, AtHand DEF LoopsShrink
  <2>3. \A k : (Asked(k)' <=> Asked(k)) /\ At(k)' = At(k)
    BY <2>1, AskedKept DEF At
  <2>4. GivenUp' = GivenUp \cup {target} /\ target \notin GivenUp
    BY <2>1, <2>2, <2>3 DEF GivenUp
  <2>5. QED
    BY <2>1, <2>4
<1>7. CASE MakeDir
  <2>1. plan \in DOMAIN Plans /\ todo \subseteq DOMAIN Plans[plan] /\ rpc \in InLoops /\ rpc \notin Targeting
    BY <1>7, AtHand DEF MakeDir, InLoops, Targeting, Commanding
  <2>2. NextTarget \in todo
    BY <1>7, <2>1, NextTargetRemains DEF MakeDir
  <2>3. /\ UNCHANGED <<plan, sent, runs, audit, failing, errors>> /\ todo' = todo \ {NextTarget} /\ target' = NextTarget
        /\ rpc' \in Targeting
    BY <1>7 DEF MakeDir, Targeting
  <2>4. \A k : (Asked(k)' <=> Asked(k)) /\ At(k)' = At(k)
    BY <2>3, AskedKept DEF At
  <2>5. GivenUp' = GivenUp
    BY <2>1, <2>2, <2>3, <2>4 DEF GivenUp
  <2>6. QED
    BY <2>1, <2>3, <2>5
<1>8. CASE \/ OpenMetadata \/ WriteMetadata \/ Answer \/ Deadline \/ OpenFile \/ WriteFile \/ FileFails \/ Log
           \/ Finish
  <2>1. /\ UNCHANGED <<plan, sent, runs, failing, todo, target>>
        /\ rpc \in InLoops /\ (rpc \in Targeting <=> rpc' \in Targeting)
    BY <1>8 DEF OpenMetadata, WriteMetadata, Answer, Deadline, Returned, OpenFile, WriteFile, FileFails, Log, Finish,
                loopVars, fileVars, InLoops, Targeting, Commanding
  <2>2. Log \/ UNCHANGED <<errors, audit>>
    BY <1>8 DEF OpenMetadata, WriteMetadata, Answer, Deadline, Returned, OpenFile, WriteFile, FileFails, Finish,
                fileVars
  <2>3. \A k : (Asked(k)' <=> Asked(k)) /\ At(k)' = At(k)
    BY <2>1, AskedKept DEF At
  <2>4. GivenUp' = GivenUp
    BY <2>1, <2>3 DEF GivenUp
  <2>5. QED
    BY <2>1, <2>2, <2>4
<1>9. CASE EndTarget
  <2>1. /\ UNCHANGED <<plan, sent, runs, audit, failing, errors, todo, target>>
        /\ rpc \in InLoops /\ rpc \in Targeting /\ rpc' \notin Targeting /\ Asked(target)
    BY <1>9 DEF EndTarget, AskedSoFar, loopVars, fileVars, InLoops, Targeting, Commanding
  <2>2. \A k : (Asked(k)' <=> Asked(k)) /\ At(k)' = At(k)
    BY <2>1, AskedKept DEF At
  <2>3. GivenUp' = GivenUp
    BY <2>1, <2>2 DEF GivenUp
  <2>4. QED
    BY <2>1, <2>3
<1>10. CASE Send
  <2>1. /\ UNCHANGED <<plan, runs, audit, failing, errors, todo, target>>
        /\ rpc \in InLoops /\ rpc \in Targeting /\ rpc' \in Targeting
    BY <1>10 DEF Send, fileVars, InLoops, Targeting, Commanding
  <2>2. \A k : (Asked(k)' <=> Asked(k) \/ k = target) /\ At(k)' = At(k)
    BY <1>10, <2>1, AskedBySend DEF At
  <2>3. GivenUp' = GivenUp
    BY <2>1, <2>2 DEF GivenUp
  <2>4. QED
    BY <2>1, <2>3
<1>11. QED
  BY <1>1, <1>2, <1>3, <1>4, <1>5, <1>6, <1>7, <1>8, <1>9, <1>10 DEF CollectNext, RunStep


\* The plan has something to ask of every target it allows (CollectRunAssumption).
LEMMA AllowedHasCommand ==
  ASSUME NEW p \in DOMAIN Plans, NEW k \in DOMAIN Plans[p], Plans[p][k].allowed
  PROVE  \E c \in DOMAIN Plans[p][k].commands : Plans[p][k].commands[c].allowed
  BY CollectRunAssumption

\* The loops are through with a command when it was sent or its target given up.
LEMMA AskedPreserved ==
  ASSUME CollectInv, LoopsShrink, HistoryTyped, AskedSoFar, [CollectNext]_collectVars
  PROVE  AskedSoFar'
<1> DEFINE Through(w) == /\ w[1] \notin todo
                         /\ rpc \in Targeting /\ w[1] = target => rpc \in Commanding /\ w[2] \notin cmds
\* What is asked of the planned commands the loops are through with, in one step for
\* all actions that do not send: the targets given up stay given up.
<1>1. ASSUME rpc \in InLoops, rpc' \in InLoops, UNCHANGED <<sent, runs, plan>>,
             \A w \in Planned(plan) : Through(w)' => Through(w) \/ w[1] \in GivenUp'
      PROVE  \A w \in Planned(plan') : Through(w)' => w[1] \in GivenUp' \/ AskedFor(w[1], w[2])'
  <2>1. GivenUp \subseteq GivenUp'
    BY <1>1, GivenUpStep DEF Open, InLoops, Targeting, Commanding
  <2>2. QED
    BY <1>1, <2>1, AskedKept DEF AskedSoFar
<1>2. CASE rpc' \notin InLoops
  BY <1>2 DEF AskedSoFar
<1>3. CASE UNCHANGED collectVars \/ TruncatePlan \/ \E p \in DOMAIN Plans : WritePlan(p)
  <2>1. UNCHANGED <<plan, sent, runs, todo, target, cmds, rpc>>
    BY <1>3 DEF collectVars, loopVars, TruncatePlan, WritePlan
  <2>2. QED
    BY <2>1 DEF AskedSoFar, GivenUp, Asked, AskedFor, At
<1>4. CASE Open
  <2>1. plan \in DOMAIN Plans /\ rpc \in Starting /\ UNCHANGED <<plan, sent, runs>> /\ rpc' = "target"
        /\ todo' = {k \in DOMAIN Plans[plan] : Plans[plan][k].allowed}
    BY <1>4 DEF Open, CollectInv, CollectTypeOK, Starting
  <2>2. \A k : ~Asked(k)'
    BY <2>1 DEF HistoryTyped, Asked
  <2>3. \A w \in Planned(plan') : w[1] \in todo'
    BY <2>1, PlannedKnown
  <2>4. QED
    BY <2>1, <2>2, <2>3 DEF AskedSoFar, Targeting, Commanding
<1>5. CASE TargetFails \/ MakeDir
  <2>1. plan \in DOMAIN Plans /\ todo \subseteq DOMAIN Plans[plan] /\ rpc \in InLoops /\ rpc = "target"
        /\ rpc' \in {"target", "meta"} /\ rpc' \in InLoops
    BY <1>5, AtHand DEF TargetFails, SkipTarget, MakeDir, InLoops, Targeting
  <2>2. NextTarget \in todo
    BY <1>5, <2>1, NextTargetRemains DEF TargetFails, MakeDir
  <2>3. /\ UNCHANGED <<plan, sent, runs>> /\ todo' = todo \ {NextTarget}
        /\ rpc' = "meta" => target' = NextTarget
    BY <1>5 DEF TargetFails, SkipTarget, MakeDir, fileVars
  <2>4. \A k \in todo : ~Asked(k)' /\ At(k).allowed
    BY <2>1, <2>3, AskedKept DEF AskedSoFar, CollectInv, OnlyAllowedRemains
  <2>5. ASSUME NEW w \in Planned(plan), Through(w)'
        PROVE  Through(w) \/ w[1] \in GivenUp'
    <3>1. CASE w[1] # NextTarget
      BY <2>1, <2>3, <2>5, <3>1 DEF Targeting, Commanding
    <3>2. CASE w[1] = NextTarget
      <4>1. rpc' = "target"
        BY <2>1, <2>3, <2>5, <3>2 DEF Targeting, Commanding
      <4>2. QED
        BY <2>1, <2>2, <2>3, <2>4, <3>2, <4>1 DEF GivenUp, At, Targeting, Commanding
    <3>3. QED
      BY <3>1, <3>2
  <2>6. \A w \in Planned(plan') : Through(w)' => w[1] \in GivenUp' \/ AskedFor(w[1], w[2])'
    <3> HIDE DEF Through
    <3>1. QED
      BY <1>1, <2>1, <2>3, <2>5
  <2>7. /\ \A k \in todo' : ~Asked(k)'
        /\ rpc' \in {"meta", "metaWrite"} => ~Asked(target)'
        /\ rpc' \notin Commanding
    <3>1. rpc' = "meta" => ~Asked(target)'
      <4>1. PICK k \in todo : k = NextTarget
        BY <2>2
      <4>2. ~Asked(k)'
        BY <2>4
      <4>3. QED
        BY <2>3, <4>1, <4>2 DEF Asked
    <3>2. QED
      BY <2>1, <2>3, <2>4, <3>1 DEF Commanding
  <2>8. QED
    BY <2>6, <2>7 DEF AskedSoFar
<1>6. CASE MetadataFails \/ EndTarget \/ Finish
  <2>1. /\ UNCHANGED <<plan, sent, runs, todo, target, cmds>> /\ rpc \in InLoops
        /\ rpc' \in {"target", "done"} /\ rpc' \in InLoops
    BY <1>6 DEF MetadataFails, SkipTarget, EndTarget, Finish, fileVars, loopVars, InLoops, Targeting, Commanding
  <2>2. ASSUME NEW w \in Planned(plan), Through(w)'
        PROVE  Through(w) \/ w[1] \in GivenUp'
    <3>1. CASE MetadataFails
      <4>1. ~Asked(target)' /\ At(target).allowed /\ target \in DOMAIN Plans[plan] /\ target \notin todo
        BY <2>1, <3>1, AtHand, AskedKept DEF AskedSoFar, MetadataFails, Targeting, LoopsShrink, Asked
      <4>2. target \in GivenUp'
        BY <2>1, <4>1 DEF GivenUp, At, Asked, Targeting, Commanding
      <4>3. QED
        BY <2>1, <2>2, <4>2
    <3>2. CASE EndTarget
      BY <2>1, <2>2, <3>2 DEF EndTarget, Commanding
    <3>3. CASE Finish
      BY <2>1, <2>2, <3>3 DEF Finish, Targeting, Commanding
    <3>4. QED
      BY <1>6, <3>1, <3>2, <3>3
  <2>3. \A w \in Planned(plan') : Through(w)' => w[1] \in GivenUp' \/ AskedFor(w[1], w[2])'
    <3> HIDE DEF Through
    <3>1. QED
      BY <1>1, <2>1, <2>2
  <2>4. \A k \in todo' : ~Asked(k)'
    BY <2>1, AskedKept DEF AskedSoFar
  <2>5. rpc' \notin Commanding /\ rpc' \notin {"meta", "metaWrite"}
    BY <2>1 DEF Commanding
  <2>6. QED
    BY <2>3, <2>4, <2>5 DEF AskedSoFar
<1>7. CASE OpenMetadata \/ Answer \/ Deadline \/ OpenFile \/ WriteFile \/ FileFails \/ Log
  <2>1. /\ UNCHANGED <<plan, sent, runs, todo, target, cmds>> /\ rpc \in InLoops /\ rpc' \in InLoops
        /\ \/ rpc \in Commanding /\ rpc' \in Commanding
           \/ rpc = "meta" /\ rpc' = "metaWrite"
    BY <1>7 DEF OpenMetadata, Answer, Deadline, Returned, OpenFile, WriteFile, FileFails, Log, fileVars, loopVars,
                InLoops, Targeting, Commanding
  <2>2. \A w \in Planned(plan) : Through(w)' => Through(w)
    BY <2>1 DEF Targeting, Commanding
  <2>3. \A w \in Planned(plan') : Through(w)' => w[1] \in GivenUp' \/ AskedFor(w[1], w[2])'
    <3> HIDE DEF Through
    <3>1. QED
      BY <1>1, <2>1, <2>2
  <2>4. \A k : Asked(k)' <=> Asked(k)
    BY <2>1, AskedKept
  <2>5. QED
    BY <2>1, <2>3, <2>4 DEF AskedSoFar, Asked, Commanding
<1>8. CASE WriteMetadata
  <2>1. /\ UNCHANGED <<plan, sent, runs, todo, target>> /\ rpc \in InLoops /\ rpc' \in InLoops
        /\ rpc = "metaWrite" /\ rpc' = "command"
        /\ cmds' = {c \in DOMAIN At(target).commands : At(target).commands[c].allowed}
    BY <1>8 DEF WriteMetadata, InLoops, Targeting, Commanding
  <2>2. plan \in DOMAIN Plans /\ target \in DOMAIN Plans[plan] /\ At(target).allowed
    BY <2>1, AtHand DEF Targeting
  <2>3. cmds' # {}
    BY <2>1, <2>2, AllowedHasCommand DEF At
  <2>4. \A w \in Planned(plan) : w[1] = target => w[2] \in cmds'
    BY <2>1, <2>2, PlannedKnown DEF At
  <2>5. \A w \in Planned(plan) : Through(w)' => Through(w)
    BY <2>1, <2>4 DEF Targeting, Commanding
  <2>6. \A w \in Planned(plan') : Through(w)' => w[1] \in GivenUp' \/ AskedFor(w[1], w[2])'
    <3> HIDE DEF Through
    <3>1. QED
      BY <1>1, <2>1, <2>5
  <2>7. \A k : Asked(k)' <=> Asked(k)
    BY <2>1, AskedKept
  <2>8. QED
    BY <2>1, <2>3, <2>6, <2>7 DEF AskedSoFar
<1>9. CASE Send
  <2>1. /\ UNCHANGED <<plan, runs, todo, target>> /\ rpc \in InLoops /\ rpc' \in InLoops
        /\ rpc = "command" /\ rpc' = "answer" /\ cmds' = cmds \ {NextCommand}
    BY <1>9 DEF Send, InLoops, Targeting, Commanding
  <2>2. target \notin todo
    BY <2>1 DEF LoopsShrink, Targeting, Commanding
  <2>3. \A k : Asked(k)' <=> Asked(k) \/ k = target
    BY <1>9, AskedBySend
  <2>4. GivenUp' = GivenUp
    BY <1>9, <2>1, <2>3 DEF GivenUp, At, Targeting, Commanding
  <2>5. ASSUME NEW w \in Planned(plan), Through(w)'
        PROVE  w[1] \in GivenUp' \/ AskedFor(w[1], w[2])'
    <3>1. CASE w[1] = target /\ w[2] = NextCommand
      BY <1>9, <3>1, AskedBySend
    <3>2. CASE ~(w[1] = target /\ w[2] = NextCommand)
      <4>1. Through(w)
        BY <2>1, <2>5, <3>2 DEF Targeting, Commanding
      <4>2. w[1] \in GivenUp \/ AskedFor(w[1], w[2])
        BY <2>1, <4>1 DEF AskedSoFar
      <4>3. QED
        BY <1>9, <2>4, <4>2, AskedBySend
    <3>3. QED
      BY <3>1, <3>2
  <2>6. Asked(target)' /\ \A k \in todo' : ~Asked(k)'
    BY <2>1, <2>2, <2>3 DEF AskedSoFar
  <2>7. QED
    BY <2>1, <2>5, <2>6 DEF AskedSoFar, Asked, Commanding
<1>10. QED
  BY <1>2, <1>3, <1>4, <1>5, <1>6, <1>7, <1>8, <1>9
     DEF CollectNext, RunStep, StartRun, ReadPlan, VerifyPlanHash, OpenFails, Crash, InLoops, Targeting, Commanding

\* The failed commands of a run are positions of the audit file.
LEMMA FailedFinite ==
  ASSUME HistoryTyped
  PROVE  IsFiniteSet(Failed) /\ Cardinality(Failed) \in Nat
<1>1. audit \in Seq(AuditRecord)
  BY DEF HistoryTyped
<1>2. DOMAIN audit = 1..Len(audit) /\ Len(audit) \in Nat
  BY <1>1
<1>3. IsFiniteSet(1..Len(audit))
  BY <1>2, FS_Interval
<1>4. Failed \subseteq 1..Len(audit)
  BY <1>2 DEF Failed
<1>5. QED
  BY <1>3, <1>4, FS_Subset, FS_CardinalityType

\* Each target given up, and each entry of a failed command, comes with one error.
LEMMA ErrorsPreserved ==
  ASSUME CollectInv, LoopsShrink, HistoryTyped, AskedSoFar, ErrorsSoFar, [CollectNext]_collectVars
  PROVE  ErrorsSoFar'
<1>0. /\ errors \in Nat /\ runs \in Nat /\ audit \in Seq(AuditRecord)
      /\ IsFiniteSet(Failed) /\ Cardinality(Failed) \in Nat
  BY FailedFinite, CollectRunAssumption DEF CollectInv, CollectTypeOK, HistoryTyped
<1>1. rpc' \in Starting => errors' = 0
  BY DEF ErrorsSoFar, Starting, CollectNext, RunStep, collectVars, loopVars, fileVars, Stay, TruncatePlan, WritePlan, StartRun,
         ReadPlan, VerifyPlanHash, OpenFails, Open, TargetFails, SkipTarget, MakeDir, OpenMetadata, WriteMetadata,
         MetadataFails, Send, EndTarget, Answer, Deadline, Returned, OpenFile, WriteFile, FileFails, Log, Finish, Crash
<1>2. ASSUME rpc' \in InLoops, "audit" \notin failing'
      PROVE  IsFiniteSet(GivenUp') /\ errors' = Cardinality(GivenUp') + Cardinality(Failed')
  <2>0. failing' = failing
    BY DEF CollectNext, RunStep, collectVars, loopVars, fileVars, Stay, TruncatePlan, WritePlan, StartRun, ReadPlan,
           VerifyPlanHash, OpenFails, Open, TargetFails, MakeDir, OpenMetadata, WriteMetadata, MetadataFails, Send,
           EndTarget, Answer, Deadline, Returned, OpenFile, WriteFile, FileFails, Log, Finish, Crash
  <2>1. CASE Open /\ GivenUp' = {}
    <3>1. errors' = 0 /\ UNCHANGED <<audit, runs>> /\ rpc \in Starting
      BY <2>1 DEF Open, fileVars, ErrorsSoFar, Starting
    <3>2. Failed' = {}
      BY <3>1 DEF Failed, HistoryTyped
    <3>3. QED
      BY <2>1, <3>1, <3>2, FS_EmptySet
  <2>2. CASE /\ rpc \in InLoops /\ errors' = errors + 1 /\ UNCHANGED <<audit, runs>>
             /\ \E k : k \notin GivenUp /\ GivenUp' = GivenUp \cup {k}
    <3>1. PICK k : k \notin GivenUp /\ GivenUp' = GivenUp \cup {k}
      BY <2>2
    <3>2. IsFiniteSet(GivenUp) /\ errors = Cardinality(GivenUp) + Cardinality(Failed)
      BY <1>2, <2>0, <2>2 DEF ErrorsSoFar
    <3>3. /\ IsFiniteSet(GivenUp') /\ Cardinality(GivenUp') = Cardinality(GivenUp) + 1
          /\ Cardinality(GivenUp) \in Nat
      BY <3>1, <3>2, FS_AddElement, FS_CardinalityType
    <3>4. Failed' = Failed
      BY <2>2 DEF Failed
    <3>5. QED
      BY <1>0, <2>2, <3>2, <3>3, <3>4
  <2>3. CASE rpc \in InLoops /\ GivenUp' = GivenUp /\ UNCHANGED <<errors, audit, runs>>
    <3>1. Failed' = Failed
      BY <2>3 DEF Failed
    <3>2. QED
      BY <1>2, <2>0, <2>3, <3>1 DEF ErrorsSoFar
  <2>4. CASE rpc \in InLoops /\ GivenUp' = GivenUp /\ Log
    <3>1. /\ AuditEntry \in AuditRecord /\ audit' = Append(audit, AuditEntry) /\ runs' = runs
      BY <1>2, <2>0, <2>4, LogAppends
    <3>2. AuditEntry.run = runs /\ AuditEntry.status = result.status
      BY DEF AuditEntry
    <3>3. errors' = IF result.status = "ok" THEN errors ELSE errors + 1
      BY <2>4 DEF Log
    <3> HIDE DEF AuditEntry
    <3>4. /\ \A e \in DOMAIN audit : e \in DOMAIN audit' /\ audit'[e] = audit[e]
          /\ \A e \in DOMAIN audit' : e \in DOMAIN audit \/ e = Len(audit) + 1
          /\ Len(audit) + 1 \in DOMAIN audit' /\ audit'[Len(audit) + 1] = AuditEntry
          /\ Len(audit) + 1 \notin DOMAIN audit
      BY <1>0, <3>1
    <3>5. IsFiniteSet(GivenUp) /\ Cardinality(GivenUp) \in Nat /\ errors = Cardinality(GivenUp) + Cardinality(Failed)
      BY <1>2, <2>0, <2>4, FS_CardinalityType DEF ErrorsSoFar
    <3>6. CASE result.status = "ok"
      <4>1. Failed' = Failed
        BY <3>1, <3>2, <3>4, <3>6 DEF Failed
      <4>2. QED
        BY <2>4, <3>3, <3>5, <3>6, <4>1
    <3>7. CASE result.status # "ok"
      <4>1. result.status = "error"
        BY <3>7 DEF CollectInv, CollectTypeOK
      <4>2. Failed' = Failed \cup {Len(audit) + 1} /\ Len(audit) + 1 \notin Failed
        BY <3>1, <3>2, <3>4, <4>1 DEF Failed
      <4>3. Cardinality(Failed') = Cardinality(Failed) + 1
        BY <1>0, <4>2, FS_AddElement
      <4>4. QED
        BY <1>0, <2>4, <3>3, <3>5, <3>7, <4>3
    <3>8. QED
      BY <3>6, <3>7
  <2>5. QED
    BY <1>2, <2>1, <2>2, <2>3, <2>4, GivenUpStep
<1>3. QED
  BY <1>1, <1>2 DEF ErrorsSoFar

-----------------------------------------------------------------------------
LEMMA LoopInvInit == CollectInit => LoopInv
<1> SUFFICES ASSUME CollectInit PROVE LoopInv
  OBVIOUS
<1>1. rpc = "idle" /\ runs = 0 /\ sent = << >> /\ audit = << >>
  BY DEF CollectInit
<1>2. /\ rpc \notin InLoops /\ rpc \notin Sending /\ rpc \notin Starting /\ rpc \notin Running
      /\ rpc \notin Targeting /\ rpc \notin {"save", "write", "log", "done"}
  BY <1>1 DEF InLoops, Targeting, Sending, Commanding, Starting, Running
<1>3. HistoryTyped /\ EntriesHaveSends /\ AuditTellsFiles
  BY <1>1, <1>2 DEF HistoryTyped, EntriesHaveSends, AuditTellsFiles
<1>4. PairedSoFar
  BY <1>1 DEF PairedSoFar
<1>5. QED
  BY <1>2, <1>3, <1>4 DEF LoopInv, LoopsShrink, LogTellsFile, DescribedSoFar, FreshSoFar, SendAtHand,
                          AskedSoFar, ErrorsSoFar

LEMMA LoopInvAlways == CollectSpec => [](CollectInv /\ LoopInv)
<1>1. CollectInv /\ LoopInv /\ [CollectNext]_collectVars => LoopInv'
  BY LoopsShrinkPreserved, LogTellsFilePreserved, DescribedPreserved, FreshPreserved, HistoryTypedPreserved,
     SendAtHandPreserved, EntriesPreserved, AuditTellsPreserved, PairedPreserved, AskedPreserved, ErrorsPreserved
     DEF LoopInv
<1>2. QED
  BY <1>1, LoopInvInit, CollectInvAlways, PTL DEF CollectSpec

-----------------------------------------------------------------------------
\* The state of collect run keeps its types, and a run past the verification holds the
\* plan of the confirmed hash (cmd/netc/main.go:141-147).
THEOREM CollectTypeCorrect == CollectSpec => []CollectTypeOK
<1>1. CollectInv => CollectTypeOK
  BY DEF CollectInv
<1>2. QED
  BY <1>1, CollectInvAlways, PTL

\* Only commands the confirmed plan allows reach a runner, for the device and address
\* it allows them for, whatever is written to the plan file meanwhile (collect.go:99-202).
THEOREM ConfirmedOnly == CollectSpec => []OnlyConfirmedSent
<1>1. CollectInv => OnlyConfirmedSent
  BY DEF CollectInv
<1>2. QED
  BY <1>1, CollectInvAlways, PTL

\* A run that reports no error left every planned output, from this run and the planned
\* address, in its file, for any plans, faults and crashes (collect.go:99-112, 195-222).
THEOREM CleanRunsFresh == CollectSpec => []CleanRunFresh
<1>1. CollectInv /\ LoopInv => CleanRunFresh
  <2> SUFFICES ASSUME CollectInv, LoopInv, rpc = "done", errors = 0, NEW w \in Planned(plan), Unshared(plan, w)
               PROVE  LET out == Output(plan, w) IN
                        disk[out[1]].meta = "whole" /\ disk[out[1]].files[out[2]] = Fresh(plan, w)
    BY DEF CleanRunFresh
  <2>1. w[1] \notin todo /\ rpc \in InLoops /\ rpc \notin Targeting
    BY DEF LoopInv, LoopsShrink, InLoops, Targeting, Commanding
  <2>2. disk[Output(plan, w)[1]].files[Output(plan, w)[2]] = Fresh(plan, w)
    BY <2>1 DEF LoopInv, FreshSoFar, Past
  <2>3. disk[Plans[plan][w[1]].device].meta = "whole"
    BY <2>1 DEF LoopInv, DescribedSoFar
  <2>4. QED
    BY <2>2, <2>3 DEF Output
<1>2. QED
  BY <1>1, LoopInvAlways, PTL

\* The audit file never says "ok" of a file that holds anything but the command's output
\* (collect.go:208-221).
THEOREM AuditAlwaysTellsFiles == CollectSpec => []AuditTellsFiles
<1>1. CollectInv /\ LoopInv => AuditTellsFiles
  BY DEF LoopInv
<1>2. QED
  BY <1>1, LoopInvAlways, PTL

\* The entries of a run are its sends, in order, but for the last of a run that died
\* (collect.go:166-177).
THEOREM AuditAlwaysFollows == CollectSpec => []AuditFollowsRun
<1>1. CollectInv /\ LoopInv => AuditFollowsRun
  <2> SUFFICES ASSUME CollectInv, LoopInv, "audit" \notin failing, NEW r \in 1..runs
               PROVE  \E s, n \in 0..Len(sent), a, m \in 0..Len(audit) :
                        /\ Paired(r, s, a, n, m)
                        /\ m \in n - 1..n
                        /\ r = runs /\ rpc = "done" => m = n
    BY DEF AuditFollowsRun
  <2>1. rpc = "done" => rpc \in Settled
    BY DEF Settled, Sending, Commanding
  <2>2. QED
    BY <2>1 DEF LoopInv, PairedSoFar
<1>2. QED
  BY <1>1, LoopInvAlways, PTL

\* The count of errors of a run that ended is that of the targets it left out and the
\* commands that failed (collect.go:99-112).
THEOREM ErrorsAlwaysAddUp == CollectSpec => []ErrorsAddUp
<1>1. CollectInv /\ LoopInv => ErrorsAddUp
  <2> SUFFICES ASSUME CollectInv, LoopInv, rpc = "done", "audit" \notin failing
               PROVE  errors = Cardinality(Missed) + Cardinality(Failed)
    BY DEF ErrorsAddUp
  <2>1. /\ todo = {} /\ plan \in DOMAIN Plans /\ rpc \in InLoops /\ rpc \notin Targeting
    BY DEF LoopInv, LoopsShrink, InLoops, Targeting, Commanding
  <2>2. Missed \subseteq GivenUp
    <3> SUFFICES ASSUME NEW k \in Missed PROVE k \in GivenUp
      OBVIOUS
    <3>1. PICK c \in DOMAIN Plans[plan][k].commands :
            <<k, c>> \in Planned(plan) /\ ~AskedFor(k, c)
      BY DEF Missed, AskedFor
    <3>2. QED
      BY <2>1, <3>1 DEF LoopInv, AskedSoFar
  <2>3. GivenUp \subseteq Missed
    <3> SUFFICES ASSUME NEW k \in GivenUp PROVE k \in Missed
      OBVIOUS
    <3>1. k \in DOMAIN Plans[plan] /\ Plans[plan][k].allowed /\ ~Asked(k)
      BY DEF GivenUp, At
    <3>2. PICK c \in DOMAIN Plans[plan][k].commands : Plans[plan][k].commands[c].allowed
      BY <2>1, <3>1, AllowedHasCommand
    <3>3. <<k, c>> \in Planned(plan)
      BY <2>1, <3>1, <3>2, PlannedIntro
    <3>4. QED
      BY <3>1, <3>3 DEF Missed, Asked
  <2>4. Missed = GivenUp
    BY <2>2, <2>3
  <2>5. QED
    BY <2>1, <2>4 DEF LoopInv, ErrorsSoFar
<1>2. QED
  BY <1>1, LoopInvAlways, PTL
=============================================================================
