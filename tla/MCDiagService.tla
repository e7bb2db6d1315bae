---------------------------- MODULE MCDiagService ----------------------------
(***************************************************************************)
(* A small network for DiagService: two devices, one of them Junos, and a  *)
(* host that is in no inventory. Two approval tokens: one good for r1, one *)
(* for any host. The requests cover every class, and every way a request   *)
(* can be refused.                                                         *)
(***************************************************************************)
EXTENDS DiagService, TLC

MCDevices == << [host |-> "r1", vendor |-> "other"], [host |-> "j1", vendor |-> "junos"] >>

MCIpTargets == {"ip:x"}

MCApprovals == "tokR1" :> "r1" @@ "tokAny" :> "*"

Ask(target, kind, text, token) ==
  [target |-> target, kind |-> kind, text |-> text, token |-> token, runner |-> ""]

MCRequests ==
  { Ask("r1",   "ping", "read",   ""),
    Ask("j1",   "show", "config", ""),        \* diagnostic: rendered as "display ..."
    Ask("r1",   "show", "config", "tokAny"),  \* config: an approval does not help
    Ask("r1",   "show", "other",  ""),        \* diagnostic, whatever the text does
    Ask("r1",   "exec", "other",  "tokR1"),   \* exec, approved for this host
    Ask("j1",   "exec", "read",   "tokR1"),   \* exec, approved for another host
    Ask("ip:x", "exec", "other",  "tokAny"),
    Ask("zz",   "ping", "read",   ""),        \* not in the inventory
    Ask("r1",   "show", "blank",  "") }

MCFields == {"target", "class", "runner", "status"}

\* fewer requests for the runs about the audit log
FewRequests == {Ask("r1", "ping", "read", ""), Ask("j1", "exec", "read", "tokR1")}

\* two requests that reach no device and differ in target, class and status: what a
\* mix of their entries shows
PairRequests == {Ask("r1", "show", "config", "tokAny"), Ask("j1", "ping", "read", "")}

PairFields == {"target", "class", "status"}

PairPayloads ==
  [target : {"r1", "j1"}, class : Classes, status : Statuses]

MCPayloads ==
  [target : {"r1", "j1", "ip:x", "zz"}, class : Classes,
   runner : {"ssh", "exec", "simulate", "none", ""}, status : Statuses]

SessionSymmetry == Permutations(Writers)
=============================================================================
