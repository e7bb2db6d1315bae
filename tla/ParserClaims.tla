----------------------------- MODULE ParserClaims -----------------------------
(***************************************************************************)
(* What is asked of the configuration parsers: that a device says what its *)
(* file says. Each property finds the block or the object a line belongs   *)
(* to by the lines around it, not as the parsers' loops do.                *)
(***************************************************************************)
EXTENDS Offline

\* the devices just parsed of files of some vendors
Read(vendors) ==
  UNION {{rec \in ToSet(loaded[p]) : rec.vendor \in vendors} : p \in {p \in Procs : stage[p] = "answer"}}

\* the line an indented line is under, and its word
Header(text, i) == Max({0} \cup {h \in 1 .. i - 1 : text[h].word # None /\ ~text[h].indented})
Under(text, i)  == IF ~text[i].indented \/ Header(text, i) = 0 THEN None ELSE text[Header(text, i)].word

\* the lines that make an interface an access port of a VLAN, by dialect
AccessWords(vendor) ==
  IF vendor = "cisco" THEN {"switchport access vlan"}
  ELSE {"switchport access vlan", "vlan access", "encapsulation dot1q"}

\* Every "interface" line of a Cisco or IOS-like configuration makes one interface, which has
\* what its own lines say last, shows them, and shows no line of another block: neither a
\* missing "!" nor a blank line runs two blocks together (cisco.go:91-133, ioslike.go:121-185).
InterfacesAsWritten ==
  \A rec \in Read({"cisco"} \cup IosLikeVendors) :
    LET text  == rec.text
        ports == rec.dev.interfaces
        heads == {i \in DOMAIN text : text[i].word = "interface"}
        Of(i) == {n \in DOMAIN ports : ports[n].evidence[1] = i}
        Says(i, words) == LastOf(text, Own(text, i), words)
    IN /\ Len(ports) = Cardinality(heads)
       /\ \A i \in heads : \E n \in Of(i) :
            LET port == ports[n]
                down == Says(i, {"shutdown", "no shutdown"})
                told == Says(i, {"description"})
                vlan == Says(i, AccessWords(rec.vendor))
            IN /\ Of(i) = {n}
               /\ port.name = text[i].args[1]
               /\ Own(text, i) \subseteq ToSet(port.evidence)
               /\ \A j \in ToSet(port.evidence) \ {i} : j \in Own(text, i) \/ text[j].word = "!"
               /\ port.shutdown <=> down # 0 /\ text[down].word = "shutdown"
               /\ port.description = IF told = 0 THEN None ELSE text[told].args[1]
               /\ port.access = IF vlan = 0 THEN 0 ELSE NumberIn(text[vlan].ids)

\* a line that declares a VLAN of an IOS-like device
Declares(text, i) ==
  \/ /\ text[i].word = "vlan" /\ IsNumber(text[i].ids)
     /\ ~text[i].indented \/ Under(text, i) = "vlan database"
  \/ /\ text[i].word = "encapsulation dot1q" /\ NumberIn(text[i].ids) > 0
     /\ Under(text, i) = "interface"

\* a VLAN line that is indented but beneath no header is taken for a header itself
Outlined(text) == \A i \in DOMAIN text : text[i].word = "vlan" /\ text[i].indented => Under(text, i) \notin {None, "!"}

\* An IOS-like device has each VLAN that a block, a line of the database or a subinterface
\* declares, once, as the first of these shows it (ioslike.go:42-104, seenVLANs).
VLANsOnce ==
  \A rec \in {rec \in Read(IosLikeVendors) : Outlined(rec.text)} :
    LET vlans == rec.dev.vlans
        declared == {i \in DOMAIN rec.text : Declares(rec.text, i)}
        First(i) == \A j \in declared : NumberIn(rec.text[j].ids) = NumberIn(rec.text[i].ids) => i <= j
    IN /\ Len(vlans) = Cardinality({i \in declared : First(i)})
       /\ {<<vlans[n].id, vlans[n].evidence[1]>> : n \in DOMAIN vlans}
          = {<<NumberIn(rec.text[i].ids), i>> : i \in {i \in declared : First(i)}}

\* The numbered entries of one access list are all in one list, in the order written, however
\* many lists of that name there are, and that list is the first of them, which is the one the
\* path tracer consults (cisco.go:177-199).
NumberedAclWhole ==
  \A rec \in Read({"cisco"}) :
    LET text == rec.text
        acls == rec.dev.acls
        IsEntry(i) == text[i].word = "access-list" /\ Len(text[i].args) > 2
        Entries(name) == SelectSeq(Lines(1, Len(text)), LAMBDA i : IsEntry(i) /\ text[i].args[1] = name)
        Of(acl, name) == SelectSeq(acl.entries, LAMBDA entry : entry.evidence[1] \in ToSet(Entries(name)))
        First(n) == \A m \in 1 .. n - 1 : acls[m].name # acls[n].name
    IN /\ \A i \in DOMAIN text : IsEntry(i) => \E n \in DOMAIN acls : acls[n].name = text[i].args[1]
       /\ \A n \in DOMAIN acls :
            [m \in DOMAIN Of(acls[n], acls[n].name) |-> Of(acls[n], acls[n].name)[m].evidence[1]]
            = IF First(n) THEN Entries(acls[n].name) ELSE << >>

\* Cisco and IOS-like blocks and lists are read as they are written: all three
\* (cisco.go, ioslike.go).
BlocksAsWritten == InterfacesAsWritten /\ VLANsOnce /\ NumberedAclWhole

-----------------------------------------------------------------------------
\* the VLAN a line that lists ports puts them in; 0 for none
ListedIn(vendor, text, i) ==
  LET made == {c \in 1 .. i - 1 : text[c].word = "create vlan" /\ IsNumber(text[c].ids)
                                  /\ text[c].args[1] = text[i].args[1]}
      open == /\ Under(text, i) = "vlan"
              /\ \A j \in Header(text, i) .. i : text[j].word # "exit"
  IN IF vendor = "extreme-exos" THEN (IF made = {} THEN 0 ELSE NumberIn(text[Max(made)].ids))
     ELSE IF open THEN NumberIn(text[Header(text, i)].ids) ELSE 0

\* the ports it lists: an EXOS line names the VLAN first
PortsListed(vendor, ln) ==
  Ports(IF vendor = "extreme-exos" THEN [ln EXCEPT !.args = Tail(@)] ELSE ln)

\* Where VLANs list their ports, a port has the tagged VLANs that list it, in order, whatever
\* their order in the file, and the VLAN that lists it untagged last; a port that is listed is
\* there once (vlancentric.go:68-270, 303-345).
PortsAsListed ==
  \A rec \in Read(VlanCentricVendors) :
    LET text  == rec.text
        ports == rec.dev.interfaces
        Id(i) == ListedIn(rec.vendor, text, i)
        Lists(words) == {i \in DOMAIN text : text[i].word \in words /\ Id(i) # 0}
        tagged   == Lists({"tagged", "configure vlan tagged"})
        untagged == Lists({"untagged", "configure vlan untagged"})
        With(lines, name) == {i \in lines : name \in PortsListed(rec.vendor, text[i])}
    IN /\ \A m, n \in DOMAIN ports : ports[m].name = ports[n].name => m = n
       /\ \A i \in tagged \cup untagged :
            PortsListed(rec.vendor, text[i]) \subseteq {ports[n].name : n \in DOMAIN ports}
       /\ \A n \in DOMAIN ports :
            LET last == Max({0} \cup With(untagged, ports[n].name)) IN
            /\ ports[n].trunk = Ascending({Id(i) : i \in With(tagged, ports[n].name)})
            /\ ports[n].access = IF last = 0 THEN 0 ELSE Id(last)

\* the "interface" line a VRP line belongs to: the first since the last "#"; 0 for none
VrpOwner(text, i) ==
  LET hash == Max({0} \cup {j \in 1 .. i - 1 : text[j].word = "#"})
      own  == {h \in hash + 1 .. i - 1 : text[h].word = "interface"}
  IN IF own = {} THEN 0 ELSE Min(own)

\* The VLANs a list means: its numbers, and those from one to another that "-" or "to" joins
Singles(ids) == {ids[n][1] : n \in {n \in DOMAIN ids : IsNumber(<<ids[n]>>)}}
ToJoined(ids) == {n \in 2 .. Len(ids) - 1 : ids[n] = To /\ {n - 1, n + 1} \subseteq {k \in DOMAIN ids : IsNumber(<<ids[k]>>)}}
HasDash(ids)  == \E n \in DOMAIN ids : IsRange(ids[n]) /\ ids[n][1] < ids[n][2]
Meant(ids) == ToSet(VLANList(ids)) \cup UNION {ids[n - 1][1] .. ids[n + 1][1] : n \in ToJoined(ids)}

\* A trunk has the VLANs that its lines mean, in order, each once, and no other. Of a list with
\* a range that the dialect's parser cannot read, it need only have the numbers that are written.
TrunkTellsLines(trunk, text, lines, IsUnread(_)) ==
  LET AtLeast(ids) == IF IsUnread(ids) THEN Singles(ids) ELSE Meant(ids)
  IN /\ trunk = Ascending(ToSet(trunk))
     /\ ToSet(trunk) \subseteq UNION {Meant(text[i].ids) : i \in lines}
     /\ UNION {AtLeast(text[i].ids) : i \in lines} \subseteq ToSet(trunk)

\* the lines that permit VLANs on a VRP interface, in all its blocks
Permits(text, name) ==
  {i \in DOMAIN text : /\ text[i].word \in {"port trunk allow-pass vlan", "port trunk permit vlan"}
                       /\ VrpOwner(text, i) # 0
                       /\ text[VrpOwner(text, i)].args[1] = name}

\* A VRP trunk carries the VLANs of all its permit lines, in every block of the interface, and
\* of no line after the "#" that ends one (vrp.go:132-169, 200-224). The one exception is a
\* range written "10 to 20", of which the parser keeps the ends alone (vrp.go:263-290).
VrpTrunksWhole ==
  \A rec \in Read(VrpVendors) :
    \A n \in DOMAIN rec.dev.interfaces :
      LET port == rec.dev.interfaces[n]
      IN TrunkTellsLines(port.trunk, rec.text, Permits(rec.text, port.name), LAMBDA ids : ToJoined(ids) # {})

-----------------------------------------------------------------------------
\* FortiOS: the innermost "config" above a line that has not met its "end", and its name
OpenAt(text, i) ==
  LET Count(from, to, word) == Cardinality({k \in from .. to : text[k].word = word})
  IN Max({0} \cup {c \in 1 .. i - 1 : /\ text[c].word = "config"
                                     /\ \A k \in c .. i - 1 : Count(c, k, "end") < Count(c, k, "config")})

SectionAt(text, i) == IF OpenAt(text, i) = 0 THEN None ELSE text[OpenAt(text, i)].args[1]

\* the object the line is about: that of the last "edit" of its own section, until "next"; a
\* section nested in an object leaves it as it was
MarkAt(text, i) ==
  Max({0} \cup {j \in 1 .. i - 1 : text[j].word \in {"edit", "next"} /\ OpenAt(text, j) = OpenAt(text, i)})

ObjectAt(text, i) ==
  IF MarkAt(text, i) # 0 /\ text[MarkAt(text, i)].word = "edit" THEN text[MarkAt(text, i)].args[1] ELSE None

\* a section nested in that object has ended before the line
AfterNested(text, i) == ObjectAt(text, i) # None /\ \E k \in MarkAt(text, i) .. i : text[k].word = "end"

\* the "set" lines of one section
SetsIn(text, section) ==
  {i \in DOMAIN text : text[i].word = "set" /\ Len(text[i].args) > 1 /\ SectionAt(text, i) = section}

\* Every "set" line of a FortiOS interface is shown by the interface whose "edit" it is in, and
\* by no other, also after a nested section, but for the lines of an interface that come after a
\* section nested in it: the interface may show them, or else the one without a name does, and
\* no third one, whatever the nested section edited. A policy's zone is one that holds an
\* interface the policy names, and it has none only if no zone does (fortios.go:80-207, 331-372).
FortiAsNested ==
  \A rec \in Read({"fortinet-fortigate"}) :
    LET text == rec.text
        sets  == SetsIn(text, "system interface")
        after == {i \in sets : AfterNested(text, i)}
        In(port) == {i \in sets : ObjectAt(text, i) = port.name}
        Holding(names) == {zone.name : zone \in {zone \in ToSet(rec.dev.zones) : ToSet(zone.interfaces) \cap names # {}}}
        NamedBy(policy, key) == UNION {ToSet(Tail(text[i].args)) : i \in {i \in ToSet(policy.evidence) : text[i].args[1] = key}}
        ZoneIs(zone, names) == zone \in IF Holding(names) = {} THEN {None} ELSE Holding(names)
    IN /\ \A n \in DOMAIN rec.dev.interfaces :
            LET port  == rec.dev.interfaces[n]
                shown == ToSet(port.evidence)
                alias == Max({0} \cup {i \in In(port) : text[i].args[1] = "alias"})
            IN /\ In(port) \ after \subseteq shown
               /\ shown \subseteq In(port) \cup (IF port.name = None THEN after ELSE {})
               /\ alias \notin after /\ port.name # None =>
                    port.description = IF alias = 0 THEN None ELSE text[alias].args[2]
       /\ \A policy \in ToSet(rec.dev.policies) :
            /\ ZoneIs(policy.from, NamedBy(policy, "srcintf"))
            /\ ZoneIs(policy.to, NamedBy(policy, "dstintf"))

-----------------------------------------------------------------------------
\* Words of which the later line decides, for one object
Deciding == {{"interfaces interface-mode", "interfaces address"},
             {"interfaces ethernet", "interfaces ethernet address"},
             {"system host-name"}, {"deviceconfig system hostname"}}

\* what a line is about: a PAN-OS route line names its virtual router first
RouteWords  == {"static-route destination", "static-route nexthop"}
Subject(ln) == Field(ln.args, IF ln.word \in RouteWords THEN 2 ELSE 1)

\* two lines that may say different things of the same, or of two PAN-OS routes of one name
Rival(l, k) ==
  \/ Subject(l) = Subject(k) /\ (l.word = k.word \/ {l.word, k.word} \in Deciding)
  \/ {l.word, k.word} \subseteq RouteWords /\ Subject(l) = Subject(k) /\ l.args[1] # k.args[1]
  \/ {l.word, k.word} \in Deciding /\ l.word = k.word

Swapped(text, i) == [text EXCEPT ![i] = text[i + 1], ![i + 1] = text[i]]

\* what a device says, in whatever order and on whatever lines
Sense(dev) ==
  [list \in DOMAIN dev \ {"hostname", "evidence"} |-> {Content(dev[list][n]) : n \in DOMAIN dev[list]}]

\* Set lines declare: two that are not about the same thing may be exchanged without the device
\* becoming another, a VLAN's number and the port that refers to it by name among them
\* (juniper.go:41-114, 191-215, setform.go:66-99). The lines of PAN-OS routes that have one name
\* in two virtual routers are left out: the parser makes one route of them (setform.go:209-218).
SetLinesCommute ==
  \A rec \in Read({"juniper"} \cup SetVendors) :
    \A i \in 1 .. Len(rec.text) - 1 :
      ~Rival(rec.text[i], rec.text[i + 1]) =>
        \A dev \in ParseFile(rec.vendor, Swapped(rec.text, i)) :
          /\ dev.hostname = rec.dev.hostname
          /\ Sense(dev) = Sense(rec.dev)

\* what a RouterOS command makes of the interface it names
RouterOSModes ==
  ("/interface bridge add" :> "bridge") @@ ("/interface vlan add" :> "routed") @@
  ("/interface bridge port add" :> "access") @@ ("/ip address add" :> "routed") @@
  ("/interface bridge vlan add" :> "trunk")

\* the commands that tag an interface
Tagging(text, name) ==
  {i \in DOMAIN text : text[i].word = "/interface bridge vlan add" /\ name \in ToSet(text[i].args)}

\* A RouterOS interface is what the last command about it made it, and carries the VLANs that
\* "bridge vlan add" tags it with, in every such command (routeros.go:49-119, 204-217). The one
\* exception is a range, as in "vlan-ids=2,3-4", which the parser drops (routeros.go:193-201).
CommandsKept ==
  \A rec \in Read({"mikrotik-routeros"}) :
    \A n \in DOMAIN rec.dev.interfaces :
      LET text == rec.text
          port == rec.dev.interfaces[n]
          Making == Tagging(text, port.name) \cup {i \in DOMAIN text : text[i].word \in DOMAIN RouterOSModes /\ text[i].args[1] = port.name}
      IN /\ TrunkTellsLines(port.trunk, text, Tagging(text, port.name), HasDash)
         /\ port.mode = IF Making = {} THEN "unknown" ELSE RouterOSModes[text[Max(Making)].word]

\* Ports that VLANs list, trunks of several lines and ports that commands change have the VLANs
\* they were given, but for those inside a VRP range "10 to 20" or a RouterOS range "3-4": all
\* three (vlancentric.go, vrp.go, routeros.go).
PortsKept == PortsAsListed /\ VrpTrunksWhole /\ CommandsKept
=============================================================================
