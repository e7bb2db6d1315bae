------------------------------ MODULE MCOffline ------------------------------
(***************************************************************************)
(* For each dialect, every text of a few lines out of those that interact  *)
(* (after the lines that open a block, where there are any); questions,    *)
(* checks and differences over texts of this kind; two "ingest" at once    *)
(* with a reader; and any four of ten entries of three discovered devices. *)
(***************************************************************************)
EXTENDS ParserClaims

MCProcs == 1..3

Line(word, args, ids, indented) == [word |-> word, args |-> args, ids |-> ids, indented |-> indented]
H(word, args) == Line(word, args, << >>, FALSE)
S(word, args) == Line(word, args, << >>, TRUE)
HN(word, args, ids) == Line(word, args, ids, FALSE)
SN(word, args, ids) == Line(word, args, ids, TRUE)
Num(n)   == <<<<n, n>>>>
Blank    == H(None, << >>)
Bang     == H("!", << >>)

\* the texts of up to n more lines, a set for each length
Texts(opening, lines, n) == [m \in 1 .. n + 1 |-> {opening \o rest : rest \in [1 .. m - 1 -> lines]}]

-----------------------------------------------------------------------------
NoJob == [cmd |-> "none", vendor |-> None, inputs |-> << >>, question |-> << >>,
          policy |-> [ntp |-> << >>, syslog |-> << >>, snmp |-> << >>],
          flags  |-> [ntp |-> << >>, syslog |-> << >>, snmp |-> << >>], limit |-> 0]

Job(cmd, vendor, inputs) == [NoJob EXCEPT !.cmd = cmd, !.vendor = vendor, !.inputs = inputs]

Told(text) == [hint |-> None, text |-> text]

\* one process on some files
Alone(j, files) == [files |-> files, jobs |-> [p \in MCProcs |-> IF p = 1 THEN j ELSE NoJob]]

\* the sessions of one process on a text of one of some sets
Reading(j, families) == [m \in DOMAIN families |-> {Alone(j, <<Told(text)>>) : text \in families[m]}]

Parsing(vendor, families) == Reading(Job("parse", vendor, <<1>>), families)

-----------------------------------------------------------------------------
Gi1 == H("interface", <<"Gi1">>)
Gi2 == H("interface", <<"Gi2">>)

PortLines ==
  {Blank, Bang, Gi2, S("description", <<"d">>), S("shutdown", << >>), S("no shutdown", << >>),
   SN("switchport access vlan", << >>, Num(2)), SN("switchport trunk allowed vlan", << >>, <<<<2, 4>>>>),
   S("ip address", <<"h1">>)}

AclLines ==
  {H("access-list", <<"A", "permit", "x">>), H("access-list", <<"A", "deny", "y">>), H("access-list", <<"B", "permit", "x">>),
   H("access-list", <<"A", "remark">>), H("ip access-list", <<"standard", "A">>), S("permit", <<"x">>)}

EosLines ==
  {Bang, HN("vlan", << >>, Num(2)), HN("vlan", << >>, <<<<2, 3>>>>), H("vlan database", << >>), SN("vlan", <<"n">>, Num(2)),
   SN("vlan", << >>, Num(3)), Gi1, SN("encapsulation dot1q", << >>, Num(2)), SN("vlan trunk allowed", << >>, Num(3))}

EosOther ==
  {H("hostname", <<"r">>), H("logging", <<"h1">>), H("logging", <<"buffered">>), H("logging server", <<"h1">>), H("sntp server", <<"h1">>),
   HN("ip route cidr", <<"h2", "5">>, <<<<0, 3>>>>), HN("ip route cidr", << >>, <<<<0, 3>>>>), HN("ip route", <<"Gi1", "h2">>, <<<<0, 3>>>>),
   H("router static", << >>), SN("prefix", <<"h3">>, <<<<4, 7>>>>), SN("prefix", <<"Null0">>, <<<<4, 7>>>>), S("name", <<"n">>),
   H("snmp-server", <<"community", "0", "c1">>), H("snmp-server", <<"community", "c2">>), H("snmp-server", <<"location">>)}

ProCurveLines ==
  {HN("vlan", << >>, Num(3)), SN("untagged", << >>, <<<<1, 2>>>>), SN("tagged", << >>, Num(1)), SN("tagged", <<"A1">>, Num(2)),
   S("exit", << >>), S("ip address", <<"h1">>), H("interface", <<"1">>), S("name", <<"n">>), S("disable", << >>)}

ProCurveOther ==
  {H("hostname", <<"r">>), H("snmp-server community", <<"c1">>), H("ntp server", <<"h1">>), H("sntp server", <<"priority", "h1">>),
   H("logging", <<"h2">>), HN("ip route", <<"h1">>, <<<<0, 3>>>>), HN("vlan", << >>, <<NaN>>)}

ExosLines ==
  {HN("create vlan", <<"v2">>, Num(2)), HN("create vlan", <<"v3">>, Num(3)), HN("configure vlan tagged", <<"v2">>, <<<<1, 2>>>>),
   HN("configure vlan tagged", <<"v3">>, Num(1)), HN("configure vlan untagged", <<"v3">>, Num(1))}

ExosOther ==
  {H("configure snmp sysName", <<"r">>), H("configure ntp server add", <<"h1">>), H("configure syslog add", <<"h2">>),
   H("configure snmp add community", <<"c1">>), H("configure vlan ipaddress", <<"v2", "h1">>), H("disable ports", <<"1">>),
   H("configure ports description-string", <<"1", "d">>), HN("configure iproute add", <<"h1">>, <<<<0, 3>>>>),
   HN("create vlan", <<"v2">>, Num(2)), H("sh", << >>)}

VrpLines ==
  {H("#", << >>), H("interface", <<"e1">>), H("interface", <<"e2">>), SN("port trunk permit vlan", << >>, <<<<1, 2>>>>),
   SN("port trunk allow-pass vlan", << >>, <<<<3, 3>>, To, <<5, 5>>>>), HN("vlan", << >>, Num(2)), S("description", <<"d">>),
   HN("vlan batch", << >>, <<<<2, 2>>, <<3, 3>>>>)}

VrpOther ==
  {H("sysname", <<"r">>), H("snmp-agent community", <<"read", "c1">>), H("ntp-service unicast-server", <<"h1">>),
   H("info-center loghost", <<"h2">>), HN("ip route-static", <<"h1">>, <<<<0, 3>>>>), HN("vlan", << >>, Num(2)),
   HN("vlan", << >>, <<NaN>>), S("name", <<"n">>), H("interface", <<"e1">>), S("shutdown", << >>), S("port link-type", <<"access">>),
   SN("port default vlan", << >>, Num(2)), S("ip address", <<"h1">>)}

-----------------------------------------------------------------------------
FortiLines ==
  {H("config", <<"ipv6">>), S("edit", <<"p2">>), S("set", <<"alias", "a">>), SN("set", <<"vlanid", "2">>, Num(2)), S("next", << >>),
   H("end", << >>)}

FortiZones ==
  <<H("config", <<"system zone">>), S("edit", <<"z1">>), S("set", <<"interface", "a">>), S("next", << >>), S("edit", <<"z2">>),
    S("set", <<"interface", "a", "b">>), S("next", << >>), H("end", << >>), H("config", <<"firewall policy">>), S("edit", <<"1">>)>>

PolicyLines ==
  {S("set", <<"srcintf", "a">>), S("set", <<"srcintf", "c", "b">>), S("set", <<"dstintf", "c">>), S("set", <<"action", "accept">>),
   S("set", <<"name", "n">>), S("set", <<"action">>)}

FortiSections ==
  {<<H("config", <<section>>), SN("set", <<key, value>>, <<<<0, 3>>>>), H("end", << >>), H("end", << >>)>> :
     section \in {"system global", "ntpserver", "system snmp community", "hosts", "router static", "system interface", "ipv6"},
     key \in {"hostname", "server", "name", "ip", "dst", "gateway", "device", "status", "type"}, value \in {"h1", "down", "vlan"}}

JunosLines ==
  {H("interfaces vlan members", <<"e1", "v2">>), HN("interfaces vlan members", <<"e1">>, Num(3)),
   H("interfaces interface-mode", <<"e1", "trunk">>), H("interfaces interface-mode", <<"e1", "access">>),
   H("interfaces address", <<"e1", "h1">>), HN("vlans vlan-id", <<"v2">>, Num(2)), HN("vlans vlan-id", <<"v2">>, <<NaN>>),
   H("interfaces description", <<"e1", "d">>), H("interfaces disable", <<"e2">>), H("system host-name", <<"r">>)}

JunosOther ==
  {H("snmp community", <<"c1">>), H("system ntp server", <<"h1">>), H("system syslog host", <<"h2">>), H("system host-name", <<"r">>),
   H("interfaces", <<"e1">>), HN("routing-options static route", <<"h1">>, <<<<0, 3>>>>), H("interfaces ethernet", <<"eth0">>)}

VyosLines ==
  {HN("interfaces ethernet", <<"eth0">>, Num(2)), HN("interfaces ethernet address", <<"eth0", "h1">>, Num(2)),
   HN("interfaces ethernet description", <<"eth0", "d">>, Num(2)), H("interfaces ethernet address", <<"eth0", "h2">>),
   H("interfaces ethernet address", <<"eth0">>),
   HN("interfaces ethernet disable", <<"eth0">>, Num(3)), HN("interfaces ethernet", <<"eth0">>, <<NaN>>),
   H("service snmp community", <<"c1">>), HN("protocols static route", <<"h1">>, <<<<0, 3>>>>), H("system host-name", <<"r">>)}

PanosLines ==
  {HN("network interface tag", <<"u1">>, Num(2)), H("network interface ip", <<"u1", "h1">>), H("network interface comment", <<"e1", "d">>),
   H("network interface comment", <<"u1", "d">>), H("network interface", <<"e1">>), H("zone", <<"z", "e1">>), H("zone", <<"z", "u1", "e1">>),
   H("security rules", <<"r", "from", "z">>), H("security rules", <<"r", "action", "allow">>), H("nat rules", <<"n", "source", "h1">>),
   H("nat rules", <<"n", "destination">>), H("nat rules", <<"n", "to", "z">>), HN("static-route destination", <<"v1", "s">>, <<<<0, 3>>>>),
   HN("static-route destination", <<"v2", "s">>, <<<<4, 7>>>>), H("static-route nexthop", <<"v1", "s", "h1">>), H("deviceconfig system hostname", <<"r">>), H("deviceconfig system snmp-setting", <<"c1">>)}

RouterOSLines ==
  {H("/interface bridge add", <<"br">>), HN("/interface vlan add", <<"e1">>, Num(2)), HN("/interface bridge port add", <<"e1", "c">>, Num(3)),
   HN("/interface bridge vlan add", <<"e1", "e2">>, <<<<2, 2>>, <<3, 4>>>>), HN("/interface bridge vlan add", <<"e1">>, Num(3)),
   H("/ip address add", <<"e1", "h1", "c">>), H("/interface disable", <<"e2">>)}

RouterOSOther ==
  {H("/system identity set", <<"r">>), H("/system ntp client set", <<"h1", "h2">>), H("/system logging action add", <<"h1">>),
   H("/snmp community add", <<"c1">>), HN("/ip route add", <<"h1">>, <<<<0, 3>>>>), HN("/interface vlan add", <<"e1">>, << >>), H("/", <<"x">>)}

SrosLines ==
  {H("configure system name", <<"r">>), H("configure system snmp community", <<"c1">>), H("configure system time ntp server", <<"h1">>),
   H("configure port", <<"p1">>), H("configure port mode", <<"p1", "trunk">>), H("configure port mode", <<"p1", "hybrid">>),
   H("configure port description", <<"p1", "d">>), H("configure port shutdown", <<"p1">>), H("configure router interface address", <<"i1", "h1">>),
   HN("configure router interface port", <<"i1">>, Num(2)), H("configure router interface", <<"i1">>), HN("configure service vpls", <<"d">>, Num(2)),
   HN("configure service vpls", << >>, Num(2)), HN("configure router static-route-entry", <<"h1">>, <<<<0, 3>>>>), H("configure", << >>)}

ParserSessions ==
  Parsing("cisco", Texts(<<Gi1>>, PortLines, 3) \o Texts(<< >>, AclLines, 4))
  \o Parsing("arista-eos", Texts(<<Gi1>>, PortLines, 2) \o Texts(<< >>, EosLines, 3) \o Texts(<< >>, EosOther, 2))
  \o Parsing("hpe-procurve", Texts(<<HN("vlan", << >>, Num(2))>>, ProCurveLines, 3) \o Texts(<< >>, ProCurveOther, 1))
  \o Parsing("extreme-exos", Texts(<< >>, ExosLines, 4) \o Texts(<< >>, ExosOther, 2))
  \o Parsing("huawei-vrp", Texts(<<H("interface", <<"e1">>)>>, VrpLines, 3) \o Texts(<< >>, VrpOther, 2))
  \o Parsing("fortinet-fortigate", Texts(<<H("config", <<"system interface">>), S("edit", <<"p1">>)>>, FortiLines, 4)
                                   \o Texts(FortiZones, PolicyLines, 3) \o <<FortiSections>>)
  \o Parsing("juniper", Texts(<< >>, JunosLines, 3) \o Texts(<< >>, JunosOther, 1))
  \o Parsing("vyos", Texts(<< >>, VyosLines, 3))
  \o Parsing("paloalto-panos", Texts(<< >>, PanosLines, 2))
  \o Parsing("mikrotik-routeros", Texts(<< >>, RouterOSLines, 3) \o Texts(<< >>, RouterOSOther, 1))
  \o Parsing("nokia-sros", Texts(<< >>, SrosLines, 2))

-----------------------------------------------------------------------------
\* files whose vendor is detected, and paths that say it
FirstLines ==
  {Blank, H("#", << >>), H("interfaces ethernet", <<"eth0">>), H("zone", <<"z", "e1">>), H("system host-name", <<"r">>),
   H("deviceconfig system hostname", <<"r">>), H("/ip address add", <<"e1", "h1">>), H("config", <<"system global">>),
   HN("create vlan", <<"v2">>, Num(2)), H("configure snmp sysName", <<"r">>), H("sysname", <<"r">>), Gi1}

AutoSessions ==
  Parsing("auto", Texts(<< >>, FirstLines, 2))
  \o <<{Alone(Job("parse", "auto", <<1>>), <<[hint |-> hint, text |-> <<Gi1>>]>>) :
          hint \in (Vendors \ {"juniper"}) \cup {"juniper-junos", "unknown"}},
       {Alone(Job("parse", "auto", <<input>>), <<Told(<<Gi1>>)>>) : input \in {2, Directory}}>>

-----------------------------------------------------------------------------
Asking(question, families) == Reading([Job("query", "cisco", <<1>>) EXCEPT !.question = question], families)

VLANTexts ==
  Texts(<<Gi1>>, {Gi2, S("switchport mode", <<"trunk">>), S("switchport mode", <<"access">>), SN("switchport access vlan", << >>, Num(2)),
                  SN("switchport trunk allowed vlan", << >>, <<<<2, 4>>>>), SN("switchport trunk allowed vlan", << >>, <<<<2, 3>>, <<5, 5>>>>),
                  SN("switchport trunk allowed vlan", << >>, <<All>>), HN("vlan", <<"n">>, Num(2)), SN("vlan", <<"n">>, Num(2)),
                  S("description", <<"allowed vlan all">>)}, 3)

RouteTexts ==
  Texts(<< >>, {HN("ip route", <<"h1">>, <<<<0, 3>>>>), HN("ip route", <<"h2", "250">>, <<<<0, 3>>>>), HN("ip route", <<"h3">>, <<Everywhere>>),
                HN("ip route", <<"Gi1", "h1">>, Num(5)), HN("ip route", << >>, Num(5)), Gi1,
                SN("ip route", <<"h1">>, Num(5))}, 3)

Whatever ==
  <<H("hostname", <<"r">>), Gi1, SN("switchport access vlan", << >>, Num(2)), S("switchport mode", <<"access">>),
    Gi2, S("switchport mode", <<"trunk">>), SN("switchport trunk allowed vlan", << >>, <<<<2, 4>>>>), H("ntp server", <<"h1">>),
    H("logging host", <<"h2">>), H("snmp-server", <<"community", "c1">>), H("access-list", <<"A", "permit", "x">>),
    HN("ip route", <<"h3">>, <<Everywhere>>)>>

Filled(words, name) == [n \in DOMAIN words |-> IF words[n] = "<id>" THEN "2" ELSE IF words[n] = "<name>" THEN name ELSE words[n]]

Questions ==
  {Filled(doc.words, name) : doc \in Documented, name \in {"Gi1", "A", "r", "h2", "net4"}}
  \cup {<< >>, <<"find", "trunks">>, <<"vlan">>, <<"vlan", "x">>, <<"vlan", "2", "x">>, <<"access", "vlan", "x">>, <<"is", "it">>,
        <<"find", "?">>, <<"?", "?">>, <<"help", "?">>, <<"route", "to", "?">>, <<"?", "find", "vlan", "2">>}

QuerySessions ==
  Asking(<<"vlan", "2">>, VLANTexts) \o Asking(<<"vlan", "0">>, VLANTexts) \o Asking(<<"vlan", "2", "trunks">>, VLANTexts)
  \o Asking(<<"vlan", "2", "declared">>, VLANTexts) \o Asking(<<"access", "vlan", "2">>, VLANTexts)
  \o Asking(<<"route", "to", "h1">>, RouteTexts) \o Asking(<<"routes", "vers", "net4">>, RouteTexts)
  \o <<{Alone([Job("query", "cisco", <<1>>) EXCEPT !.question = question, !.limit = limit], <<Told(Whatever)>>) :
          question \in Questions, limit \in 0..1}>>

-----------------------------------------------------------------------------
ServiceTexts ==
  Texts(<<H("hostname", <<"r">>)>>,
        {H("ntp server", <<"h1">>), H("ntp server", <<"h2">>), H("ntp server", <<"h1", "prefer">>), H("logging host", <<"h1">>),
         H("snmp-server", <<"community", "c1">>), H("snmp-server", <<"host", "h1", "traps", "c2">>),
         H("snmp-server", <<"host", "h1", "version", "3", "auth", "c1">>),
         H("snmp-server", <<"host", "h1", "c1">>), H("snmp-server", <<"host", "h1", "version", "2c", "c1">>), H("snmp-server", <<"host">>),
         H("snmp-server", <<"host", "h1", "traps", "version", "2c", "c2">>), H("snmp-server", <<"host", "h1">>), H("snmp-server", <<"traps">>), Gi1, Bang,
         S("ntp server", <<"h2">>), S("snmp-server", <<"community", "c1">>)}, 2)

Policy(ntp, syslog, snmp) == [ntp |-> ntp, syslog |-> syslog, snmp |-> snmp]

Checking(cmd, flags) ==
  Reading([Job(cmd, "cisco", <<1>>) EXCEPT !.policy = Policy(<<"h1", "h2">>, <<"h1">>, <<"c1">>), !.flags = flags], ServiceTexts)

CheckSessions ==
  Checking("check", Policy(<< >>, << >>, << >>)) \o Checking("check", Policy(<<"h2">>, << >>, <<"c2", "2c">>))
  \o Checking("summary", Policy(<< >>, << >>, << >>))
  \o <<{Alone([Job("check", "cisco", <<1>>) EXCEPT !.policy = Policy(<<"h1", "h2">>, << >>, << >>), !.limit = 1], <<Told(<<Gi1>>)>>)}>>

DiffTexts ==
  {<<Gi1>>, <<Gi1, Gi2>>, <<Gi2>>, <<Gi1, SN("switchport trunk allowed vlan", << >>, Num(2))>>, << >>,
   <<Gi1, SN("switchport trunk allowed vlan", << >>, Num(3))>>, <<Gi1, S("shutdown", << >>), Gi1>>,
   <<Gi1, S("description", <<"d">>), HN("vlan", << >>, Num(2))>>, <<Gi1, HN("vlan", << >>, Num(2)), S("name", <<"n">>)>>}

DiffSessions == <<{Alone(Job("diff", "cisco", <<1, 2>>), <<Told(before), Told(after)>>) : before, after \in DiffTexts}>>

-----------------------------------------------------------------------------
\* two that write the inventory, one of them two records of which the first is longer, and one
\* that reads it; and commands that are given the directory it is in
StoreFiles == <<Told(<<H("hostname", <<"r">>)>>), Told(<< >>), Told(<<Gi2>>)>>

StoreSessions ==
  <<{[files |-> StoreFiles, jobs |-> jobs] : jobs \in
       {<<Job("ingest", "cisco", <<1, 2>>), Job("ingest", "auto", <<3>>), Job("inventory", "cisco", <<Inventory>>)>>,
        <<Job("ingest", "cisco", <<2>>), [Job("query", "cisco", <<Inventory>>) EXCEPT !.question = <<"device", "r">>], NoJob>>,
        <<Job("ingest", "cisco", <<2>>), Job("ingest", "auto", <<Directory>>), Job("inventory", "cisco", <<Directory>>)>>}},
    {Alone(Job("inventory", "cisco", <<Directory>>), << >>)}>>

MCSessions == ParserSessions \o AutoSessions \o QuerySessions \o CheckSessions \o DiffSessions \o StoreSessions

-----------------------------------------------------------------------------
\* the entries of the outputs: [in, kind, lines], in being the directory
Word(word, a, b)   == [word |-> word, a |-> a, b |-> b, indented |-> FALSE]
Beneath(word, a, b) == [word |-> word, a |-> a, b |-> b, indented |-> TRUE]
Entry(in, kind, lines) == [in |-> in, kind |-> kind, lines |-> lines]

LLDPEntry(in, local, field, remote, port) ==
  Entry(in, "lldp", <<Word("local intf", local, 0), Word(field, remote, 0), Word("port id", port, 0)>>)
CDPEntry(in, remote, local, port) == Entry(in, "cdp", <<Word("device id", remote, 0), Word("interface", local, port)>>)
DescriptionEntry(in, local, remote, port) ==
  Entry(in, "running_config", <<Word("interface", local, 0), Beneath("description", remote, port), Beneath("ip address", 0, 0)>>)

Entries == <<
  LLDPEntry(1, 10, "system name", 40, 10), CDPEntry(1, 41, 11, 10), DescriptionEntry(1, 10, 60, 10), CDPEntry(1, 21, 10, 10),
  LLDPEntry(1, 20, "port description", 40, 10), LLDPEntry(2, 10, "chassis id", 21, 11), DescriptionEntry(2, 10, 60, 10),
  CDPEntry(2, 20, 10, 0), CDPEntry(3, 20, 10, 10), LLDPEntry(3, 10, "system name", 40, 10) >>

Tables ==
  [mac_table    |-> <<Word("dynamic", 10, 10), Word("dynamic", 11, 10), Word("dynamic", 10, 50)>>,
   arp          |-> <<Word("internet", 10, 50)>>,
   interface_ip |-> <<Word("row", 10, 0)>>]

FilesOf(chosen, in, tables) ==
  LET Mine(kind) == SelectSeq(chosen, LAMBDA entry : entry.in = in /\ entry.kind = kind)
      kinds == {chosen[n].kind : n \in {n \in DOMAIN chosen : chosen[n].in = in}}
  IN [kind \in kinds |-> FlattenSeq([n \in DOMAIN Mine(kind) |-> Mine(kind)[n].lines])]
     @@ [kind \in tables |-> Tables[kind]]

TreeOf(chosen, metadata) ==
  [n \in 1..3 |-> [name |-> IF metadata[n] \in {"named", Half} THEN 90 ELSE 20 * n, hostname |-> 20 * n, metadata |-> metadata[n],
                   files |-> FilesOf(chosen, n, IF n = 2 THEN {"mac_table"} ELSE IF n = 3 THEN {} ELSE {"arp", "interface_ip"})]]

SomeEntries(most) ==
  {[n \in 1 .. Cardinality(places) |-> Entries[SetToSortSeq(places, <)[n]]] :
     places \in {places \in SUBSET DOMAIN Entries : Cardinality(places) <= most}}

MCTrees ==
  {TreeOf(chosen, <<Absent, Absent, Absent>>) : chosen \in SomeEntries(4)}
  \cup {TreeOf(chosen, <<Absent, metadata, Absent>>) : chosen \in SomeEntries(1), metadata \in {None, "named", Half}}
=============================================================================
