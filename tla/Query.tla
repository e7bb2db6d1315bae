-------------------------------- MODULE Query --------------------------------
(***************************************************************************)
(* The query language (internal/query): a question is a sequence of words, *)
(* read by a table of patterns of which the first that matches counts, and *)
(* answered from the inventory, a sequence of [dev, text]: a device and    *)
(* the configuration its evidence shows. A "?" is a word of its own,       *)
(* wherever it is written; the accents, the capitals and the spacing that  *)
(* parse.go strips are left out.                                           *)
(***************************************************************************)
EXTENDS ConfigText

CONSTANTS
  MaxVLAN,    \* the highest number a word of a question may stand for
  WideRange   \* the size from which a list of VLANs is said to be broad (256)

ASSUME QueryAssumption == MaxVLAN \in Nat /\ WideRange \in Nat \ {0}

Understood(intent) == [intent |-> intent, id |-> 0, mode |-> None, name |-> None]

NotUnderstood == Understood("error")

\* parseVLANNumber
IsVLANWord(word) == \E id \in 0..MaxVLAN : ToString(id) = word
VLANWord(word)   == CHOOSE id \in 0..MaxVLAN : ToString(id) = word

\* TrimSuffix and stripAccents: every "?" goes
Unmarked(q) == Picked(q, {n \in DOMAIN q : q[n] # "?"})

\* stripFindPrefix
Unprefixed(q) == IF q # << >> /\ Head(q) = "find" THEN Tail(q) ELSE q

\* normalizeQuery: "?" alone is kept, and in "find ?" it is not alone
Asked(q) == IF q = <<"?">> THEN q ELSE Unprefixed(Unmarked(q))

\* the questions made of fixed words
HelpWords == {<<"help">>, <<"?">>, <<"aide">>, <<"commands">>}
DefaultRouteWords == {<<"default", "route">>, <<"default", "gateway">>, <<"route", "0/0">>,
                      <<"route", "0.0.0.0/0">>, <<"route", "par", "defaut">>, <<"passerelle", "par", "defaut">>}
TrunkWords == {<<"trunks">>, <<"trunk", "ports">>, <<"ports", "trunk">>, <<"interfaces", "trunk">>,
               <<"interfaces", "en", "trunk">>}
NTPWords      == {<<"ntp">>, <<"ntp", "servers">>, <<"serveurs", "ntp">>}
SyslogWords   == {<<"syslog">>, <<"logging">>, <<"syslog", "hosts">>, <<"serveurs", "syslog">>}
SNMPWords     == {<<"snmp">>, <<"snmp", "communities">>, <<"communautes", "snmp">>}
ZoneWords     == {<<"zones">>, <<"firewall", "zones">>}
PolicyWords   == {<<"policies">>, <<"security", "policies">>, <<"politiques">>}

\* parseAccessVLANIntent: the places of the number in its four patterns
AccessPlaces(q) ==
  {n \in DOMAIN q : [q EXCEPT ![n] = "n"] \in
     {<<"access", "vlan", "n">>, <<"vlan", "n", "access", "ports">>, <<"ports", "access", "vlan", "n">>,
      <<"interfaces", "access", "vlan", "n">>}}

AccessIntent(q) ==
  LET word == q[CHOOSE n \in AccessPlaces(q) : TRUE]
  IN IF IsVLANWord(word) THEN [Understood("access_vlan") EXCEPT !.id = VLANWord(word)] ELSE NotUnderstood

\* extractNaturalVLAN
IsNaturalVLAN(q) ==
  /\ Len(q) = 4
  /\ SubSeq(q, 1, 3) \in {<<"where", "is", "vlan">>, <<"who", "uses", "vlan">>, <<"ou", "est", "vlan">>}
  /\ IsVLANWord(q[4])

\* parseVLANIntent, for a question whose first word is "vlan"
VLANModes == [used |-> "used", active |-> "used", declared |-> "declared", trunks |-> "trunks", access |-> "access"]

VLANIntent(q) ==
  LET known == /\ Len(q) \in 2..3
               /\ IsVLANWord(q[2])
               /\ Len(q) = 3 => q[3] \in DOMAIN VLANModes
  IN IF ~known THEN NotUnderstood
     ELSE [Understood("vlan") EXCEPT !.id = VLANWord(q[2]), !.mode = IF Len(q) = 3 THEN VLANModes[q[3]] ELSE "used"]

\* parseRouteDst
IsRouteDst(q) ==
  /\ Len(q) = 3
  /\ q[1] \in {"route", "routes"}
  /\ q[2] \in {"to", "for", "vers"}

\* parseInterface, parseACL and parseDevice: what their first words ask for
Nouns == [word \in {"interface", "intf", "port", "acl", "access-list", "device", "host", "equipement", "switch"} |->
            CASE word \in {"interface", "intf", "port"} -> "interface"
              [] word \in {"acl", "access-list"}        -> "acl"
              [] OTHER                                  -> "device"]

\* Mutant of ParseQuery: "vlan" is tried before "access vlan"
ParseQueryVLANFirst(question) ==
  LET q == Asked(question) IN
  IF q # << >> /\ Head(q) = "vlan" THEN VLANIntent(q)
  ELSE IF AccessPlaces(q) # {} THEN AccessIntent(q)
  ELSE IF IsNaturalVLAN(q) THEN VLANIntent(<<"vlan", q[4]>>)
  ELSE IF q \in TrunkWords THEN Understood("trunks")
  ELSE IF Len(q) = 2 /\ Head(q) \in DOMAIN Nouns THEN [Understood(Nouns[Head(q)]) EXCEPT !.name = q[2]]
  ELSE NotUnderstood

\* parseQuery: the patterns in their order
ParseQuery(question) ==
  LET q == Asked(question) IN
  CASE q \in HelpWords            -> Understood("help")
    [] AccessPlaces(q) # {}       -> AccessIntent(q)
    [] IsNaturalVLAN(q)           -> VLANIntent(<<"vlan", q[4]>>)
    [] AccessPlaces(q) = {} /\ q # << >> /\ Head(q) = "vlan" -> VLANIntent(q)
    [] q \in DefaultRouteWords    -> Understood("default_route")
    [] IsRouteDst(q)              -> [Understood("route_dst") EXCEPT !.name = q[3]]
    [] q \in TrunkWords           -> Understood("trunks")
    [] Len(q) = 2 /\ Head(q) \in DOMAIN Nouns -> [Understood(Nouns[Head(q)]) EXCEPT !.name = q[2]]
    [] q \in NTPWords             -> Understood("ntp")
    [] q \in SyslogWords          -> Understood("syslog")
    [] q \in SNMPWords            -> Understood("snmp")
    [] q \in ZoneWords            -> Understood("zones")
    [] q \in PolicyWords          -> Understood("policies")
    [] OTHER                      -> NotUnderstood

-----------------------------------------------------------------------------
Result(type, dev, role, object) ==
  [type |-> type, device |-> dev.hostname, role |-> role, object |-> object, evidence |-> object.evidence]

Results(type, dev, objects) == [n \in DOMAIN objects |-> Result(type, dev, None, objects[n])]

\* a line that allows all VLANs, and one that says the same in so many words, as a description may
AllowsEvery(ln) ==
  ln.word \in {"switchport trunk allowed vlan", "vlan trunk allowed"} /\ ln.ids # << >> /\ ln.ids[1] = All

AllPhrases == {"allowed vlan all", "allowed all"}
Mentions(ln) == ToSet(ln.args) \cap AllPhrases # {}

\* trunkAllowsVLAN: either phrase anywhere in the raw block
AllowsAll(text, intf) == \E i \in ToSet(intf.evidence) : AllowsEvery(text[i]) \/ Mentions(text[i])

\* rawHasWideRange: any range of the block, of VLANs or of something else. A line that is not
\* indented sticks to the last field of the line before.
HasWideRange(text, intf, id) ==
  \E n \in DOMAIN intf.evidence :
    LET ln == text[intf.evidence[n]] IN
    \E k \in DOMAIN ln.ids :
      /\ IsRange(ln.ids[k])
      /\ id \in ln.ids[k][1]..ln.ids[k][2]
      /\ ln.ids[k][2] - ln.ids[k][1] + 1 >= WideRange
      /\ \/ k < Len(ln.ids)
         \/ n = Len(intf.evidence)
         \/ text[intf.evidence[n + 1]].indented

\* classifyVLANInterface
IsAccess(intf, id) == intf.mode = "access" /\ intf.access = id

Allows(text, intf, id) == intf.mode = "trunk" /\ (id \in ToSet(intf.trunk) \/ AllowsAll(text, intf))

IsBroad(text, intf, id) ==
  AllowsAll(text, intf) \/ Len(intf.trunk) >= WideRange \/ HasWideRange(text, intf, id)

InterfaceRole(text, intf, id) ==
  CASE IsAccess(intf, id)      -> "access"
    [] Allows(text, intf, id)  -> IF IsBroad(text, intf, id) THEN "trunk_broad" ELSE "trunk"
    [] OTHER                   -> None

\* findVLANs: the interfaces of one role, over all devices
InRole(inv, id, role) ==
  FlattenSeq([d \in DOMAIN inv |->
    LET dev == inv[d].dev
        Plays(n) == InterfaceRole(inv[d].text, dev.interfaces[n], id) = role
    IN Picked([n \in DOMAIN dev.interfaces |-> Result("interface", dev, role, dev.interfaces[n])],
              {n \in DOMAIN dev.interfaces : Plays(n)})])

Declared(inv, id) ==
  FlattenSeq([d \in DOMAIN inv |->
    LET dev == inv[d].dev
    IN Picked([n \in DOMAIN dev.vlans |-> Result("vlan", dev, "declared", dev.vlans[n])],
              {n \in DOMAIN dev.vlans : dev.vlans[n].id = id})])

\* Mutant of FindVLANs: what uses the VLAN and what declares it
FindVLANsAll(inv, id, mode) ==
  LET used == InRole(inv, id, "access") \o InRole(inv, id, "trunk") \o InRole(inv, id, "trunk_broad")
  IN used \o Declared(inv, id)

\* findVLANs: a declaration answers only where nothing uses the VLAN
FindVLANs(inv, id, mode) ==
  LET access == InRole(inv, id, "access")
      trunks == InRole(inv, id, "trunk") \o InRole(inv, id, "trunk_broad")
  IN CASE mode = "access"   -> access
       [] mode = "trunks"   -> trunks
       [] mode = "declared" -> Declared(inv, id)
       [] mode = "used"     -> IF access \o trunks # << >> THEN access \o trunks ELSE Declared(inv, id)

\* findAccessVLAN, findTrunks, and the lookups by name
FindAccessVLAN(dev, id) ==
  Picked(Results("interface", dev, dev.interfaces), {n \in DOMAIN dev.interfaces : IsAccess(dev.interfaces[n], id)})

FindTrunks(dev) == Results("interface", dev, SelectSeq(dev.interfaces, LAMBDA intf : intf.mode = "trunk"))

FindInterface(dev, name) == Results("interface", dev, SelectSeq(dev.interfaces, LAMBDA intf : intf.name = name))

FindACL(dev, name) == Results("acl", dev, SelectSeq(dev.acls, LAMBDA acl : acl.name = name))

FindDevice(dev, name) == IF dev.hostname = name THEN <<Result("device", dev, None, dev)>> ELSE << >>

FindDefaultRoute(dev) ==
  Results("route", dev, SelectSeq(dev.routes, LAMBDA route : route.destination = <<Everywhere>>))

-----------------------------------------------------------------------------
\* Mutant of FindRouteDst: of routes of one length, the last one
FindRouteDstLast(dev, dest) ==
  LET Covers(n) == /\ IsIPv4(dest)
                   /\ dev.routes[n].destination # << >>
                   /\ Addresses[dest] \in dev.routes[n].destination[1][1]..dev.routes[n].destination[1][2]
      Width(n)  == dev.routes[n].destination[1][2] - dev.routes[n].destination[1][1]
      matching  == {n \in DOMAIN dev.routes : Covers(n)}
  IN IF matching = {} THEN << >>
     ELSE <<Result("route", dev, None, dev.routes[Max({n \in matching : \A m \in matching : Width(n) <= Width(m)})])>>

\* findRouteDst: the first of the longest prefixes that hold the first address asked for,
\* whatever their administrative distances and the length of the prefix asked for
FindRouteDst(dev, dest) ==
  LET Covers(n) == /\ IsIPv4(dest)
                   /\ dev.routes[n].destination # << >>
                   /\ Addresses[dest] \in dev.routes[n].destination[1][1]..dev.routes[n].destination[1][2]
      Width(n)  == dev.routes[n].destination[1][2] - dev.routes[n].destination[1][1]
      matching  == {n \in DOMAIN dev.routes : Covers(n)}
  IN IF matching = {} THEN << >>
     ELSE <<Result("route", dev, None, dev.routes[Min({n \in matching : \A m \in matching : Width(n) <= Width(m)})])>>

-----------------------------------------------------------------------------
\* runDevice
RunDevice(dev, pq) ==
  CASE pq.intent = "interface"     -> FindInterface(dev, pq.name)
    [] pq.intent = "device"        -> FindDevice(dev, pq.name)
    [] pq.intent = "acl"           -> FindACL(dev, pq.name)
    [] pq.intent = "trunks"        -> FindTrunks(dev)
    [] pq.intent = "access_vlan"   -> FindAccessVLAN(dev, pq.id)
    [] pq.intent = "default_route" -> FindDefaultRoute(dev)
    [] pq.intent = "route_dst"     -> FindRouteDst(dev, pq.name)
    [] pq.intent = "ntp"           -> Results("ntp", dev, dev.ntp)
    [] pq.intent = "syslog"        -> Results("syslog", dev, dev.syslog)
    [] pq.intent = "snmp"          -> Results("snmp", dev, dev.communities)
    [] pq.intent = "zones"         -> Results("zone", dev, dev.zones)
    [] pq.intent = "policies"      -> Results("policy", dev, dev.policies)

\* Run: the answer to a question that is understood; the text of help left out
RunQuery(inv, pq) ==
  CASE pq.intent = "help" -> << >>
    [] pq.intent = "vlan" -> FindVLANs(inv, pq.id, pq.mode)
    [] OTHER -> FlattenSeq([d \in DOMAIN inv |-> RunDevice(inv[d].dev, pq)])
=============================================================================
