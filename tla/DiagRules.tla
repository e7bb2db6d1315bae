------------------------------ MODULE DiagRules ------------------------------
(***************************************************************************)
(* The decisions of the diagnostics service (internal/diag) that depend on *)
(* the request alone: resolving the target, and rendering, classifying and *)
(* approving the command.                                                  *)
(*                                                                         *)
(* A command is abstracted to its kind and to what its text would do:      *)
(* "read" (show, display, get, ping ...), "config" (it starts with one of  *)
(* configDenyPatterns), "other", or "blank". Host names stand for their    *)
(* case-folded, trimmed selves.                                            *)
(***************************************************************************)
EXTENDS Naturals, Sequences

CONSTANTS
  Devices,        \* the inventory, a sequence of [host, vendor]
  IpTargets,      \* literal "ip:<addr>" targets
  Approvals,      \* StaticApprovals.records: token -> the host it is good for
  AnyHost,        \* the Target of an approval record that names no host
  ConfigWriteCap  \* Service.ConfigWriteCap

ASSUME DiagRulesAssumption ==
  /\ \A d \in 1..Len(Devices) : Devices[d].vendor \in {"junos", "other"}
  /\ ConfigWriteCap \in BOOLEAN

Kinds   == {"ping", "traceroute", "show", "exec", "unknown"}
Texts   == {"read", "config", "other", "blank"}
Classes == {"diagnostic", "exec", "config"}

-----------------------------------------------------------------------------
\* resolveTarget: an ip: literal, or the first inventory device of that name
Matches(name)  == {d \in 1..Len(Devices) : Devices[d].host = name}
Resolves(name) == name \in IpTargets \/ Matches(name) # {}
DeviceNamed(name) ==
  CHOOSE d \in Matches(name) : \A other \in Matches(name) : d <= other
VendorOf(name) ==
  IF name \in IpTargets THEN "other" ELSE Devices[DeviceNamed(name)].vendor

\* renderCommand: ping and traceroute need a destination, show and exec a text
Renders(req) == req.kind # "unknown" /\ req.text # "blank"

\* What the rendered command would do. ping and traceroute are built around the
\* destination; for Junos a show command is put behind "display".
RenderedText(req) ==
  IF req.kind \in {"ping", "traceroute"} \/ (req.kind = "show" /\ VendorOf(req.target) = "junos")
  THEN "read"
  ELSE req.text

\* classifyCommand: the deny patterns first, then the kind
ClassOf(req) ==
  IF RenderedText(req) = "config" THEN "config"
  ELSE IF req.kind \in {"ping", "traceroute", "show"} THEN "diagnostic" ELSE "exec"

\* StaticApprovals.Check
Approved(req) ==
  /\ req.token \in DOMAIN Approvals
  /\ Approvals[req.token] \in {AnyHost, req.target}

=============================================================================
