------------------------------- MODULE Analyses -------------------------------
(***************************************************************************)
(* What the commands compute of parsed devices: the differences of two of  *)
(* them (internal/diff), the findings against a policy                     *)
(* (internal/compliance) and the counts of an inventory (internal/report). *)
(***************************************************************************)
EXTENDS ConfigText

\* mapBy: of the objects of one key, the last
LastByKey(items, key) == [k \in {items[n][key] : n \in DOMAIN items} |->
                            items[Max({n \in DOMAIN items : items[n][key] = k})]]

VLANChanged(old, new) == old.name # new.name

\* Mutant of InterfaceChanged: the VLANs of a trunk are not compared
InterfaceChangedPort(old, new) ==
  \E field \in {"description", "mode", "access", "ipv4", "shutdown"} : old[field] # new[field]

InterfaceChanged(old, new) ==
  \E field \in {"description", "mode", "access", "ipv4", "shutdown", "trunk"} : old[field] # new[field]

Change(type, object, key, evidence) == [type |-> type, object |-> object, key |-> key, evidence |-> evidence]

\* Devices, of the objects of one kind: first those gone, then those new or changed, both
\* in the order of a map
Changes(object, old, new, Changed(_, _)) ==
  LET gone    == {Change("removed", object, k, old[k].evidence) : k \in DOMAIN old \ DOMAIN new}
      added   == {Change("added", object, k, new[k].evidence) : k \in DOMAIN new \ DOMAIN old}
      altered == {Change("changed", object, k, new[k].evidence) :
                    k \in {k \in DOMAIN old \cap DOMAIN new : Changed(old[k], new[k])}}
  IN {first \o second : first \in SetToSeqs(gone), second \in SetToSeqs(added \cup altered)}

\* the answers diff.Devices may give
DiffDevices(before, after) ==
  LET vlans == Changes("vlan", LastByKey(before.vlans, "id"), LastByKey(after.vlans, "id"), VLANChanged)
      ports == Changes("interface", LastByKey(before.interfaces, "name"), LastByKey(after.interfaces, "name"),
                       InterfaceChanged)
  IN {first \o second : first \in vlans, second \in ports}

-----------------------------------------------------------------------------
Finding(severity, dev, rule, value, evidence) ==
  [severity |-> severity, device |-> dev.hostname, rule |-> rule, value |-> value, evidence |-> evidence]

\* targetSet
Values(targets) == {targets[n].value : n \in DOMAIN targets}

MissingTargets(dev, rule, required, actual) ==
  Picked([n \in DOMAIN required |-> Finding("warning", dev, rule, required[n], dev.evidence)],
         {n \in DOMAIN required : required[n] \notin Values(actual)})

ForbiddenTargets(dev, rule, forbidden, actual) ==
  Picked([n \in DOMAIN actual |-> Finding("critical", dev, rule, actual[n].value, actual[n].evidence)],
         {n \in DOMAIN actual : actual[n].value \in ToSet(forbidden)})

\* compliance.Check: a policy is [ntp, syslog, snmp], three lists
CheckPolicy(devices, policy) ==
  FlattenSeq([d \in DOMAIN devices |->
    MissingTargets(devices[d], "ntp", policy.ntp, devices[d].ntp)
    \o MissingTargets(devices[d], "syslog", policy.syslog, devices[d].syslog)
    \o ForbiddenTargets(devices[d], "snmp community", policy.snmp, devices[d].communities)])

\* policyFromFlags: a flag replaces the list of the policy file
PolicyFromFlags(loaded, flags) ==
  [list \in DOMAIN loaded |-> IF flags[list] # << >> THEN flags[list] ELSE loaded[list]]

CountBy(findings, field) ==
  [v \in {findings[n][field] : n \in DOMAIN findings} |->
     Cardinality({n \in DOMAIN findings : findings[n][field] = v})]

\* compliance.Summarize
FindingSummary(findings) ==
  [findings |-> Len(findings), severity |-> CountBy(findings, "severity"), rule |-> CountBy(findings, "rule")]

\* report.Summarize
Counted == {"interfaces", "vlans", "routes", "acls", "ntp", "syslog", "communities", "hosts", "statements"}

InventorySummary(devices) ==
  [devices |-> Len(devices),
   counts  |-> [list \in Counted |-> FoldLeft(LAMBDA sum, dev : sum + Len(dev[list]), 0, devices)]]
=============================================================================
