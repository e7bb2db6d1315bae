------------------------------ MODULE Discovery ------------------------------
(***************************************************************************)
(* "netc discover": the parsing of a directory of command outputs          *)
(* (internal/discovery/discovery.go), followed by topology.Build.          *)
(*                                                                         *)
(* Names are numbers: the tens tell devices and interfaces apart, the      *)
(* units their spellings; 0 is the empty text. A line is [word, a, b,      *)
(* indented]: the text before its fields, two of these (a device or an     *)
(* interface, or a MAC address, whose unit is 0), and whether it starts    *)
(* with a blank.                                                           *)
(***************************************************************************)
EXTENDS Topology, ConfigText

VARIABLES
  tree,   \* the directories, in the order of their names: [name, metadata, files], where
          \* metadata is the file's hostname, or says that there is none or half of one,
          \* and files has the text of each kind of output that is there
  toRead, \* the directories left
  found,  \* the neighbours so far: reports with their evidence [dir, lines]
  table   \* the addresses so far

discoveryVars == <<tree, toRead, found, table>>

Absent == "absent"
Half   == "half"

\* commandFiles, in the order they are read
CommandFiles == <<"lldp", "cdp", "arp", "mac_table", "interface_ip", "running_config">>

\* deviceName; NoName where the metadata cannot be read
NoName == -1

DeviceName(dir) ==
  CASE dir.metadata = Half             -> NoName
    [] dir.metadata \in {Absent, None} -> dir.name
    [] OTHER                           -> dir.hostname

\* normalizeInterface: the long spelling (unit 1) becomes the short one (unit 0)
Normalized(interface) == IF interface % 10 = 1 THEN interface - 1 ELSE interface

\* an end of a report, as Topology compares and prints it
End(device, interface) ==
  [key  |-> IF device = 0 \/ interface = 0 THEN NoKey ELSE (device \div 10) * 10 + interface \div 10,
   name |-> device * 100 + Normalized(interface)]

-----------------------------------------------------------------------------
\* fieldValue: the first line of that word
FieldValue(text, block, word) ==
  LET at == {i \in ToSet(block) : text[i].word = word} IN IF at = {} THEN [a |-> 0, b |-> 0] ELSE text[Min(at)]

\* Mutant of SplitBlocks: the block that ends with the file is left out
SplitBlocksClosed(text, word) ==
  LET starts == InOrder({i \in DOMAIN text : text[i].word = word})
  IN [n \in 1 .. Len(starts) - 1 |-> Lines(starts[n], starts[n + 1] - 1)]

\* splitBlocks: a block runs from its first line to before that of the next. What comes
\* before the first block has no field of its own, and is left out by the callers.
SplitBlocks(text, word) ==
  LET starts == InOrder({i \in DOMAIN text : text[i].word = word})
  IN [n \in DOMAIN starts |-> Lines(starts[n], IF n < Len(starts) THEN starts[n + 1] - 1 ELSE Len(text))]

Neighbor(dir, local, remote, remoteInterface, protocol, lines) ==
  [local    |-> End(DeviceName(dir), local), remote |-> End(remote, remoteInterface),
   protocol |-> protocol, dir |-> dir.name, lines |-> lines]

\* the reports of one file, those with a local and a remote end
Heard(reports) == Picked(reports, {n \in DOMAIN reports : reports[n].local.name % 100 # 0 /\ reports[n].remote.name \div 100 # 0})

ParseLLDP(dir, text) ==
  LET Read(block) ==
        LET name == FieldValue(text, block, "system name").a IN
        Neighbor(dir, FieldValue(text, block, "local intf").a,
                 IF name # 0 THEN name ELSE FieldValue(text, block, "chassis id").a,
                 FieldValue(text, block, "port id").a, "lldp", block)
      blocks == SplitBlocks(text, "local intf")
  IN Heard([n \in DOMAIN blocks |-> Read(blocks[n])])

ParseCDP(dir, text) ==
  LET Read(block) ==
        LET ports == FieldValue(text, block, "interface") IN
        Neighbor(dir, ports.a, FieldValue(text, block, "device id").a, ports.b, "cdp", block)
      blocks == SplitBlocks(text, "device id")
  IN Heard([n \in DOMAIN blocks |-> Read(blocks[n])])

\* collectConfigBlock: a block starts at an interface line that is in none before it
ConfigBlocks(text) ==
  LET heads == {i \in DOMAIN text : text[i].word = "interface"}
      Free[i \in DOMAIN text] == \A h \in heads \cap 1 .. i - 1 : Free[h] => BlockEnd(text, h) <= i
      starts == InOrder({i \in heads : Free[i]})
  IN [n \in DOMAIN starts |-> BlockLines(text, starts[n])]

\* parseRunningConfig: the neighbours the descriptions tell of
ParseDescriptions(dir, text) ==
  LET blocks == ConfigBlocks(text)
      Told(block) == {i \in ToSet(block) : text[i].word = "description" /\ text[i].a # 0 /\ text[i].b # 0}
      Read(block) == Picked([i \in DOMAIN text |-> Neighbor(dir, text[block[1]].a, text[i].a, text[i].b, "interface_description", block)],
                        Told(block))
  IN FlattenSeq([n \in DOMAIN blocks |-> Read(blocks[n])])

FileNeighbors(dir, kind, text) ==
  CASE kind = "lldp"           -> ParseLLDP(dir, text)
    [] kind = "cdp"            -> ParseCDP(dir, text)
    [] kind = "running_config" -> ParseDescriptions(dir, text)
    [] OTHER                   -> << >>

-----------------------------------------------------------------------------
\* a MAC address is an end too
MacEnd(mac) == [key |-> mac, name |-> mac]

\* parseARP, parseMACAddressTable, parseIPInterfaceBrief and parseRunningConfig: a row each
Row(dir, kind, interface, mac) == [kind |-> kind, at |-> End(DeviceName(dir), interface), mac |-> MacEnd(mac)]

RowsOf(dir, kind, text, word) ==
  Picked([i \in DOMAIN text |-> Row(dir, kind, text[i].a, text[i].b)], {i \in DOMAIN text : text[i].word = word})

ConfigRows(dir, text) ==
  LET blocks == ConfigBlocks(text)
      Read(block) == Picked([i \in DOMAIN text |-> Row(dir, "config_ip", text[block[1]].a, 0)],
                        {i \in ToSet(block) : text[i].word = "ip address"})
  IN FlattenSeq([n \in DOMAIN blocks |-> Read(blocks[n])])

FileAddresses(dir, kind, text) ==
  CASE kind = "arp"            -> RowsOf(dir, "arp", text, "internet")
    [] kind = "mac_table"      -> RowsOf(dir, "mac_table", text, "dynamic")
    [] kind = "interface_ip"   -> RowsOf(dir, "interface_ip", text, "row")
    [] kind = "running_config" -> ConfigRows(dir, text)
    [] OTHER                   -> << >>

-----------------------------------------------------------------------------
\* what is read of the files of a directory that are there
ReadFiles(dir, Parse(_, _, _)) ==
  FlattenSeq([n \in DOMAIN CommandFiles |->
    IF CommandFiles[n] \in DOMAIN dir.files THEN Parse(dir, CommandFiles[n], dir.files[CommandFiles[n]]) ELSE << >>])

\* ParseDir, one directory
ReadDevice ==
  /\ pc = "idle" /\ toRead # << >>
  /\ DeviceName(Head(toRead)) # NoName
  /\ found' = found \o ReadFiles(Head(toRead), FileNeighbors)
  /\ table' = table \o ReadFiles(Head(toRead), FileAddresses)
  /\ toRead' = Tail(toRead)
  /\ UNCHANGED <<tree, topoVars>>

\* half of a metadata file ends the command
DiscoverFails ==
  /\ pc = "idle" /\ toRead # << >>
  /\ DeviceName(Head(toRead)) = NoName
  /\ pc' = "failed"
  /\ UNCHANGED <<discoveryVars, neighbors, addresses, byLocal, remotes, linkGroups, macs, links, conflicts>>

\* sortNeighbors and sortAddresses, which compare texts; neither is stable
Protocols == [cdp |-> 1, interface_description |-> 2, lldp |-> 3]
AddressKinds == [arp |-> 1, config_ip |-> 2, interface_ip |-> 3, mac_table |-> 4]

NoGreater(s, t) ==
  \A n \in DOMAIN s : s[n] <= t[n] \/ \E m \in 1 .. n - 1 : s[m] < t[m]

NeighborRank(r) == <<r.local.name, Protocols[r.protocol], r.remote.name>>
AddressRank(r)  == <<r.at.name, AddressKinds[r.kind], r.mac.name>>

\* discoverCmd calls Build on what ParseDir returns
DiscoverBuilds ==
  /\ pc = "idle" /\ tree # << >> /\ toRead = << >>
  /\ \E reports \in Sorted(found, LAMBDA i, j : NoGreater(NeighborRank(found[i]), NeighborRank(found[j]))),
        rows \in Sorted(table, LAMBDA i, j : NoGreater(AddressRank(table[i]), AddressRank(table[j]))) :
       BuildStarts(reports, rows)
  /\ UNCHANGED discoveryVars

DiscoverInit(directories) ==
  /\ tree = directories /\ toRead = directories
  /\ found = << >> /\ table = << >>
  /\ TopologyIdle

DiscoverNext ==
  \/ ReadDevice \/ DiscoverFails \/ DiscoverBuilds
  \/ TopologyNext /\ UNCHANGED discoveryVars
=============================================================================
