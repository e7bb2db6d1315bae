------------------------------- MODULE Registry -------------------------------
(***************************************************************************)
(* The parsers by vendor (cmd/netc/main.go) and the choice of one for a    *)
(* file (internal/parser/registry.go): by the name asked for, the vendor   *)
(* the path tells, or the first line that says something.                  *)
(***************************************************************************)
EXTENDS IosLikeText, VlanCentricText, VrpText, FortiText, CommandText

IosLikeVendors     == {"arista-eos", "aruba-cx", "cisco-iosxr", "cisco-nxos", "fs-fsos"}
VlanCentricVendors == {"aruba-os-switch", "hpe-procurve", "extreme-exos"}
VrpVendors         == {"huawei-vrp", "hpe-comware"}
SetVendors         == {"vyos", "ubiquiti-edgeos", "paloalto-panos"}

\* the registry main's init fills
Vendors == {"cisco", "juniper", "mikrotik-routeros", "fortinet-fortigate", "nokia-sros"}
           \cup IosLikeVendors \cup VlanCentricVendors \cup VrpVendors \cup SetVendors

\* the devices the parser of a vendor may make of a text; none, where it panics
ParseFile(vendor, text) ==
  CASE vendor = "cisco"               -> {CiscoDevice(text)}
    [] vendor \in IosLikeVendors      -> {IosLikeDevice(text)}
    [] vendor \in VlanCentricVendors  -> VlanCentricDevices(vendor, text)
    [] vendor \in VrpVendors          -> {VrpDevice(text)}
    [] vendor = "juniper"             -> {JunosDevice(text)}
    [] vendor \in SetVendors          -> VendorDevices(vendor, text)
    [] vendor = "mikrotik-routeros"   -> RouterOSDevices(text)
    [] vendor = "nokia-sros"          -> {SROSDevice(text)}
    [] vendor = "fortinet-fortigate"  -> FortiDevices(text)

-----------------------------------------------------------------------------
BeginsWith(word, prefix) == Len(word) >= Len(prefix) /\ SubSeq(word, 1, Len(prefix)) = prefix

\* the words that follow "set" on a line
SetWords ==
  VyattaWords \cup Naming \cup DOMAIN Targets \cup
  {"set", "interfaces", "interfaces description", "interfaces disable", "interfaces interface-mode",
   "interfaces vlan members", "interfaces address", "vlans vlan-id", "routing-options static route",
   "protocols static route", "network interface", "network interface comment", "network interface ip",
   "network interface tag", "static-route destination", "static-route nexthop", "zone", "security rules",
   "nat rules"}

PanosTold == {"network interface", "network interface comment", "network interface ip", "network interface tag",
              "zone", "security rules", "nat rules"}
VyosTold  == VyattaWords \cup {"protocols static route"}

\* detectVendorFromPath
PathVendor(hint) == IF hint = "juniper-junos" THEN "juniper" ELSE hint

\* DetectVendor's switch, on the first line that is neither blank nor a comment
WordVendor(word) ==
  CASE word \in SetWords -> IF word \in PanosTold THEN "paloalto-panos"
                            ELSE IF word \in VyosTold THEN "vyos" ELSE "juniper"
    [] BeginsWith(word, "/")          -> "mikrotik-routeros"
    [] word \in {"config", "edit"}    -> "fortinet-fortigate"
    [] BeginsWith(word, "configure ") -> "nokia-sros"
    [] BeginsWith(word, "sysname")    -> "huawei-vrp"
    [] OTHER                          -> "cisco"

DetectVendor(file) ==
  LET telling == SelectSeq(file.text, LAMBDA ln : ln.word \notin {None, "#"})
  IN IF file.hint # None THEN PathVendor(file.hint)
     ELSE IF telling = << >> THEN "cisco" ELSE WordVendor(Head(telling).word)

\* Select: the vendor whose parser reads the file
Selected(vendor, file) == IF vendor = "auto" THEN DetectVendor(file) ELSE vendor
=============================================================================
