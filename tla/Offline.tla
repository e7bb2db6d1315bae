------------------------------- MODULE Offline -------------------------------
(***************************************************************************)
(* The offline commands and "netc discover" together, and what is asked of *)
(* them: that devices, answers, findings and changes say what the files    *)
(* say. Each property reads the files in a way of its own, by the place of *)
(* a line among the others, and not through the parsers' loops.            *)
(***************************************************************************)
EXTENDS Netc, Discovery

CONSTANTS
  Sessions,   \* the files and the jobs of the offline commands, in several sets
  Trees       \* the directories "discover" is given

\* a device as ir.Device has it: lists, of interfaces with the fields of ir.Interface
IsDevice(dev) ==
  /\ IsList(dev.vlans) /\ IsList(dev.interfaces) /\ IsList(dev.communities)
  /\ \A n \in DOMAIN dev.interfaces : DOMAIN dev.interfaces[n] = DOMAIN NewInterface(None, << >>)

\* what a parser sees of the files of a session, and of an inventory
Readings(s) == ToSet(s.files) \cup {[hint |-> None, text |-> << >>]}

\* a configuration: lines with their fields and numbers
IsConfig(text) ==
  /\ IsList(text)
  /\ \A i \in DOMAIN text :
       /\ IsList(text[i].args) /\ IsList(text[i].ids) /\ text[i].indented \in BOOLEAN
       /\ text[i].word = "ip route" => \A n \in DOMAIN text[i].ids : text[i].ids[n] \in Int \X Int

\* a policy, or the flags that replace parts of it
IsPolicy(policy) == DOMAIN policy = {"ntp", "syslog", "snmp"} /\ \A list \in DOMAIN policy : IsList(policy[list])

\* A "diff" is given two paths (main.go diffCmd), and whatever a parser makes of a file is a device.
ASSUME SessionsAssumption ==
  \A n \in DOMAIN Sessions : \A s \in Sessions[n] :
    /\ \A file \in Readings(s) : IsConfig(file.text)
    /\ \A p \in Procs : s.jobs[p].cmd \in {"check", "summary"} => IsPolicy(s.jobs[p].policy) /\ IsPolicy(s.jobs[p].flags)
    /\ \A p \in Procs : s.jobs[p].cmd = "query" => IsList(s.jobs[p].question)
    /\ \A p \in Procs : s.jobs[p].cmd = "diff" => IsList(s.jobs[p].inputs) /\ Len(s.jobs[p].inputs) = 2
    /\ \A p \in Procs : s.jobs[p].cmd # "none" =>
         \A file \in Readings(s) : Selected(s.jobs[p].vendor, file) \in Vendors =>
           \A dev \in ParseFile(Selected(s.jobs[p].vendor, file), file.text) : IsDevice(dev)

\* The numbers that stand for names: 0 for the empty text, else one with its spelling in the
\* units. The interfaces are nine, that their numbers do not run into the devices' (End).
IsDeviceName(n)    == n \in Nat /\ (n = 0 \/ n >= 10)
IsInterfaceName(n) == n = 0 \/ n \in 10..99

\* the lines that name a device
DeviceWords == {"system name", "chassis id", "device id", "description"}

IsLine(ln) == IF ln.word \in DeviceWords THEN IsDeviceName(ln.a) ELSE IsInterfaceName(ln.a)

\* A directory has names, and its files lines with names, and with MAC addresses in a table of
\* these.
IsDirectory(dir) ==
  /\ IsDeviceName(dir.name) /\ dir.name # 0
  /\ IsDeviceName(dir.hostname) /\ dir.hostname # 0
  /\ \A kind \in DOMAIN dir.files :
       LET text == dir.files[kind] IN
       /\ IsList(text)
       /\ \A i \in DOMAIN text :
            /\ IsLine(text[i])
            /\ IF kind \in {"arp", "mac_table", "interface_ip"}
               THEN text[i].b \in Nat /\ text[i].b % 10 = 0 ELSE IsInterfaceName(text[i].b)

\* os.ReadDir lists each name once.
ASSUME TreesAssumption ==
  \A directories \in Trees :
    /\ IsList(directories)
    /\ \A d \in DOMAIN directories : IsDirectory(directories[d])
    /\ \A d, e \in DOMAIN directories : directories[d].name = directories[e].name => d = e

OfflineVars == <<netcVars, discoveryVars, topoVars>>

OfflineInit ==
  \/ \E n \in DOMAIN Sessions : NetcInit(Sessions[n]) /\ DiscoverInit(<< >>)
  \/ \E directories \in Trees :
       /\ NetcInit({[files |-> << >>, jobs |-> [p \in Procs |-> [cmd |-> "none"]]]})
       /\ DiscoverInit(directories)

OfflineNext ==
  \/ NetcNext /\ UNCHANGED <<discoveryVars, topoVars>>
  \/ DiscoverNext /\ UNCHANGED netcVars

OfflineSpec == OfflineInit /\ [][OfflineNext]_OfflineVars

-----------------------------------------------------------------------------
\* those that are given the inventory, and read it
ReadsInventory(p) == job(p).cmd \notin {"none", "parse", "diff"} /\ job(p).inputs = <<Inventory>>

\* A command that reads the inventory, while others empty and write it or after one of them died,
\* answers of devices as an ingest parsed them. Where the inventory it opened was written by one
\* process alone, and none opened it to write since, it has the first devices of that one, in
\* order, and never a device nobody wrote (store/jsonl.go:17, :36, main.go ingestCmd).
StoreTellsWrites ==
  \A p \in Procs : ReadsInventory(p) /\ job(p).cmd # "ingest" =>
    /\ stage[p] \in {"answer", "done"} =>
         \A n \in DOMAIN loaded[p] : \E q \in Procs :
           /\ job(q).cmd = "ingest"
           /\ \E m \in DOMAIN loaded[q] : loaded[p][n] = loaded[q][m]
    /\ \A q \in Procs : source[p] = {q} =>
         /\ stage[p] # "garbled"
         /\ stage[p] \in {"answer", "done"} => job(q).cmd = "ingest" /\ IsPrefix(loaded[p], loaded[q])

-----------------------------------------------------------------------------
(***************************************************************************)
(* The inductive strengthening of StoreTellsWrites.                        *)
(***************************************************************************)
NetcTypeOK ==
  /\ stage \in [Procs -> Stages]
  /\ DOMAIN todo = Procs /\ DOMAIN loaded = Procs /\ DOMAIN handle = Procs /\ DOMAIN source = Procs
  /\ \A p \in Procs : IsList(loaded[p]) /\ IsList(handle[p].line) /\ handle[p].at \in Nat
  /\ IsList(inventory.cells)
  /\ authors \subseteq Procs

\* a process that has ingested, or was about to, and loads no more
HasIngested(q) == job(q).cmd = "ingest" /\ stage[q] \in {"write", "done", "failed", "dead"}

\* a hole, or a part of a record of an ingest
IsCell(cell) ==
  /\ cell = Cell(cell.by, cell.nth, cell.part)
  /\ cell.nth # 0 => cell.by \in Procs /\ HasIngested(cell.by) /\ cell.nth \in DOMAIN loaded[cell.by] /\ cell.part \in Nat

CellsOfIngests ==
  /\ \A m \in DOMAIN inventory.cells : IsCell(inventory.cells[m])
  /\ \A p \in Procs : stage[p] = "scan" => \A m \in DOMAIN handle[p].line : IsCell(handle[p].line[m])

\* Only an ingest comes to write, one record after the other, and those that may have written
\* the inventory are known.
WritersKnown ==
  /\ \A q \in authors : HasIngested(q)
  /\ inventory.there => authors # {}
  /\ \A p \in Procs :
       /\ stage[p] \in {"open", "write"} => job(p).cmd = "ingest"
       /\ stage[p] = "write" =>
            /\ p \in authors /\ inventory.there
            /\ handle[p].next = Cell(p, handle[p].next.nth, handle[p].next.part)
            /\ handle[p].next.nth \in Nat \ {0} /\ handle[p].next.part \in Nat
       /\ stage[p] = "scan" => source[p] # {} /\ \A q \in source[p] : q \in Procs /\ HasIngested(q)

\* What one process alone has written: its records from the first on, part by part; it goes on
\* where it ends.
NextOf(q, cells) == IF cells = << >> THEN Cell(q, 1, 1) ELSE Following(cells[Len(cells)])

FileOf(q, cells) ==
  \A m \in DOMAIN cells :
    /\ cells[m].nth # 0 /\ cells[m].by = q
    /\ cells[m] = IF m = 1 THEN Cell(q, 1, 1) ELSE Following(cells[m - 1])

SoleAuthor ==
  \A q \in Procs : authors = {q} =>
    /\ FileOf(q, inventory.cells)
    /\ stage[q] = "write" => handle[q].at = Len(inventory.cells) /\ handle[q].next = NextOf(q, inventory.cells)

\* A reader of such a file has the records whose newline it has passed, and the parts it has seen
\* of the next.
FirstOf(mine, theirs) == Len(mine) <= Len(theirs) /\ \A n \in 1 .. Len(mine) : mine[n] = theirs[n]

HasSeen(p, cell) ==
  IF cell.part = Parts(cell)
  THEN handle[p].line = << >> /\ Len(loaded[p]) = cell.nth
  ELSE /\ Len(handle[p].line) = cell.part /\ cell.part > 0
       /\ \A m \in 1 .. cell.part : handle[p].line[m] = Cell(cell.by, cell.nth, m)
       /\ Len(loaded[p]) = cell.nth - 1

ReaderOfOne(p, q) ==
  /\ authors = {q} /\ handle[p].at <= Len(inventory.cells)
  /\ FirstOf(loaded[p], loaded[q])
  /\ IF handle[p].at = 0 THEN handle[p].line = << >> /\ loaded[p] = << >> ELSE HasSeen(p, inventory.cells[handle[p].at])

\* A command that reads the inventory parses nothing, and has what it read.
ReadersHaveRecords ==
  \A p \in Procs : ReadsInventory(p) /\ job(p).cmd # "ingest" =>
    /\ stage[p] \notin {"parse", "open", "write"}
    /\ stage[p] \in {"start", "read"} => loaded[p] = << >> /\ source[p] = {}
    /\ stage[p] # "failed" => \A n \in DOMAIN loaded[p] : \E q \in Procs :
         HasIngested(q) /\ \E m \in DOMAIN loaded[q] : loaded[p][n] = loaded[q][m]
    /\ \A q \in Procs : source[p] = {q} =>
         /\ stage[p] # "garbled"
         /\ stage[p] = "scan" => ReaderOfOne(p, q)
         /\ stage[p] \in {"answer", "done"} => HasIngested(q) /\ FirstOf(loaded[p], loaded[q])

NetcInv == NetcTypeOK /\ CellsOfIngests /\ WritersKnown /\ SoleAuthor /\ ReadersHaveRecords

-----------------------------------------------------------------------------
\* what the command of a process printed, where nothing cut it short
Printed(p, cmds) == stage[p] = "done" /\ job(p).cmd \in cmds /\ job(p).limit = 0

\* a block goes on to a "!" or to a line that is not indented
Closes(ln) == ln.word = "!" \/ (ln.word # None /\ ~ln.indented)

\* the lines a header has: those that follow it
Own(text, i) == {j \in i + 1 .. Len(text) : \A k \in i + 1 .. j : ~Closes(text[k])}

\* the lines of a Cisco configuration that are in no block
Headers == {"interface", "vlan", "ip access-list"}
Outside(text) == {i \in DOMAIN text : \A h \in 1 .. i - 1 : text[h].word \in Headers => i \notin Own(text, h)}

\* the last of some lines with one of the words; 0 for none
LastOf(text, lines, words) == Max({0} \cup {j \in lines : text[j].word \in words})

\* The patterns "help" lists, with what each asks for (parse.go:41-59)
Pattern(words, intent, mode) == [words |-> words, intent |-> intent, mode |-> mode]

Documented ==
  {Pattern(<<"vlan", "<id>">>, "vlan", "used"), Pattern(<<"vlan", "<id>", "used">>, "vlan", "used"),
   Pattern(<<"vlan", "<id>", "active">>, "vlan", "used"), Pattern(<<"vlan", "<id>", "declared">>, "vlan", "declared"),
   Pattern(<<"vlan", "<id>", "trunks">>, "vlan", "trunks"), Pattern(<<"vlan", "<id>", "access">>, "vlan", "access")}
  \cup {Pattern(words, "vlan", "used") : words \in
          {<<"where", "is", "vlan", "<id>">>, <<"who", "uses", "vlan", "<id>">>, <<"ou", "est", "vlan", "<id>">>}}
  \cup {Pattern(words, "access_vlan", None) : words \in
          {<<"access", "vlan", "<id>">>, <<"vlan", "<id>", "access", "ports">>, <<"interfaces", "access", "vlan", "<id>">>}}
  \cup {Pattern(words, "trunks", None) : words \in
          {<<"trunks">>, <<"trunk", "ports">>, <<"interfaces", "trunk">>, <<"interfaces", "en", "trunk">>}}
  \cup {Pattern(words, "default_route", None) : words \in
          {<<"default", "route">>, <<"default", "gateway">>, <<"route", "0/0">>, <<"route", "par", "defaut">>}}
  \cup {Pattern(words \o <<"<name>">>, "route_dst", None) : words \in
          {<<"route", "to">>, <<"routes", "vers">>, <<"route", "for">>}}
  \cup {Pattern(<<word, "<name>">>, "interface", None) : word \in {"interface", "intf", "port"}}
  \cup {Pattern(<<word, "<name>">>, "acl", None) : word \in {"acl", "access-list"}}
  \cup {Pattern(<<word, "<name>">>, "device", None) : word \in {"device", "host", "switch", "equipement"}}
  \cup {Pattern(words, "ntp", None) : words \in {<<"ntp">>, <<"ntp", "servers">>, <<"serveurs", "ntp">>}}
  \cup {Pattern(words, "syslog", None) : words \in
          {<<"syslog">>, <<"logging">>, <<"syslog", "hosts">>, <<"serveurs", "syslog">>}}
  \cup {Pattern(words, "snmp", None) : words \in {<<"snmp">>, <<"snmp", "communities">>, <<"communautes", "snmp">>}}
  \cup {Pattern(words, "zones", None) : words \in {<<"zones">>, <<"firewall", "zones">>}}
  \cup {Pattern(words, "policies", None) : words \in {<<"policies">>, <<"security", "policies">>, <<"politiques">>}}
  \cup {Pattern(<<word>>, "help", None) : word \in {"help", "?", "aide", "commands"}}

Fits(words, question) ==
  /\ Len(words) = Len(question)
  /\ \A n \in DOMAIN words :
       IF words[n] = "<id>" THEN IsVLANWord(question[n]) ELSE words[n] \in {"<name>", question[n]}

\* A question of a pattern "help" lists is understood as that pattern says, whichever patterns
\* are tried before it, and the same after "find" and with a "?" at its end. The one exception
\* is the pattern "?" itself: "find ?" and "? ?" are empty questions (parse.go:61-71, 102-157).
QueryUnderstood ==
  \A p \in Procs : stage[p] = "answer" /\ job(p).cmd = "query" =>
    LET q == job(p).question
        pq == ParseQuery(q)
    IN \A doc \in Documented : Fits(doc.words, q) /\ ("?" \in ToSet(q) => q = <<"?">>) =>
         /\ pq.intent = doc.intent /\ pq.mode = doc.mode
         /\ q # <<"?">> => ParseQuery(<<"find">> \o q) = pq /\ ParseQuery(q \o <<"?">>) = pq

\* what a Cisco interface is by the last of its own lines
Said(text, i, words) == LastOf(text, Own(text, i), words)

ModeSaid(text, i) ==
  LET at == Said(text, i, {"switchport mode", "ip address"})
  IN IF at = 0 THEN "unknown" ELSE IF text[at].word = "ip address" THEN "routed" ELSE text[at].args[1]

UsesAccess(text, i, id) ==
  LET at == Said(text, i, {"switchport access vlan"})
  IN ModeSaid(text, i) = "access" /\ id = IF at = 0 THEN 0 ELSE NumberIn(text[at].ids)

\* a trunk carries what its last list says, and all where any of its lists does
Carries(text, i, id) ==
  LET at == Said(text, i, {"switchport trunk allowed vlan"})
  IN /\ ModeSaid(text, i) = "trunk"
     /\ \/ at # 0 /\ id \in ToSet(VLANList(text[at].ids))
        \/ \E j \in Own(text, i) : AllowsEvery(text[j])

\* The question for a VLAN of a Cisco device is answered by the access ports and the trunks
\* whose own lines give it them, in this order, the broad trunks last, and by its declaration
\* only where it was asked for or nothing uses the VLAN (query.go:102-192). A configuration
\* that says "allowed vlan all" elsewhere, as in a description, is left out: the trunk it is
\* said of is shown as one that carries every VLAN (query.go:156-168).
VlanAnswerExact ==
  \A p \in Procs :
    /\ Printed(p, {"query"}) /\ [n \in DOMAIN loaded[p] |-> loaded[p][n].vendor] = <<"cisco">>
    /\ \A i \in DOMAIN loaded[p][1].text : ~Mentions(loaded[p][1].text[i])
    =>
      LET text  == loaded[p][1].text
          pq    == ParseQuery(job(p).question)
          heads == {i \in Outside(text) : text[i].word = "interface"}
          access == {i \in heads : UsesAccess(text, i, pq.id)}
          trunks == {i \in heads : Carries(text, i, pq.id)}
          declared == {i \in Outside(text) : text[i].word = "vlan" /\ IsNumber(text[i].ids) /\ NumberIn(text[i].ids) = pq.id}
          Asks(mode) == pq.intent = "vlan" /\ pq.mode = mode
          shown == {result.evidence[1] : result \in ToSet(answer[p])}
          Rank == [access |-> 1, trunk |-> 2, trunk_broad |-> 3, declared |-> 4]
      IN /\ Asks("access") \/ pq.intent = "access_vlan" => shown = access
         /\ Asks("trunks") => shown = trunks
         /\ Asks("declared") => shown = declared
         /\ Asks("used") => shown = IF access \cup trunks = {} THEN declared ELSE access \cup trunks
         /\ pq.intent = "vlan" => \A m, n \in DOMAIN answer[p] :
              m < n => /\ Rank[answer[p][m].role] <= Rank[answer[p][n].role]
                       /\ answer[p][m].evidence # answer[p][n].evidence

\* The route to an address is the first of those with the longest prefix that hold it, and
\* there is an answer whenever one does (routes.go:11-44).
RouteAnswer ==
  \A p \in Procs :
    Printed(p, {"query"}) /\ [n \in DOMAIN loaded[p] |-> loaded[p][n].vendor] = <<"cisco">> =>
      LET text == loaded[p][1].text
          pq   == ParseQuery(job(p).question)
          Holds(i) == /\ text[i].word = "ip route" /\ text[i].args # << >> /\ text[i].ids # << >>
                      /\ Addresses[pq.name] \in text[i].ids[1][1] .. text[i].ids[1][2]
          Size(i) == text[i].ids[1][2] - text[i].ids[1][1]
          holding == {i \in Outside(text) : Holds(i)}
      IN pq.intent = "route_dst" /\ IsIPv4(pq.name) =>
           /\ Len(answer[p]) = IF holding = {} THEN 0 ELSE 1
           /\ \A n \in DOMAIN answer[p] : \E i \in holding :
                /\ answer[p][n].evidence = <<i>>
                /\ \A j \in holding \ {i} : Size(i) < Size(j) \/ (Size(i) = Size(j) /\ i < j)

\* A question is understood as "help" says and answered as the files say: all three
\* (internal/query).
AnswersExact == QueryUnderstood /\ VlanAnswerExact /\ RouteAnswer

-----------------------------------------------------------------------------
\* The community a line of a Cisco configuration gives, as IOS writes the line: a host may have
\* a VRF, then a kind of notice, then a version, with a level of security, before it.
PastWord(fields, n, words, k) == IF Field(fields, n) \in words THEN n + k ELSE n
PastKind(fields) == PastWord(fields, PastWord(fields, 3, {"vrf"}, 2), {"traps", "informs"}, 1)
Levels == {"auth", "noauth", "priv"}

CommunityOn(ln) ==
  LET fields == IF ln.word = "snmp-server" THEN ln.args ELSE << >>
      n      == PastKind(fields)
  IN CASE Field(fields, 1) = "community" -> Field(fields, 2)
       [] Field(fields, 1) = "host" ->
            Field(fields, IF Field(fields, n) = "version" THEN PastWord(fields, n + 2, Levels, 1) ELSE n)
       [] OTHER -> None

\* Lines that leave no doubt: a server alone, and a host with its community next to it or next
\* to a version that has no level.
ServerAlone(ln) == Len(ln.args) = 1

PlainSNMP(ln) ==
  LET n == PastKind(ln.args) IN
  ln.word = "snmp-server" /\ Field(ln.args, 1) = "host" =>
    /\ \A m \in 3 .. n - 1 : ln.args[m] # "version"
    /\ IF Field(ln.args, n) = "version" THEN n < Len(ln.args) /\ Field(ln.args, n + 2) \notin Levels
       ELSE n = 3 /\ \A m \in DOMAIN ln.args : m > 2 => ln.args[m] # "version"

\* the lines outside the blocks of a Cisco configuration that start with a word, and the
\* servers they name
LinesOf(text, word) == {text[i] : i \in {i \in Outside(text) : text[i].word = word}}
ServersSaid(text, word) == {ln.args[1] : ln \in LinesOf(text, word)}

\* what findings warn of by one rule, and the lines of those that are critical
Warned(findings, rule) == {f.value : f \in {f \in ToSet(findings) : f.severity = "warning" /\ f.rule = rule}}
CriticalLines(findings) == {f.evidence : f \in {f \in ToSet(findings) : f.severity = "critical"}}

\* The check of a Cisco configuration warns of every required server that no line outside the
\* blocks names, and of nothing else, where none of these lines has options after its server:
\* "ntp server h1 prefer" gives no h1 (cisco.go:78, 80). It finds the lines there that give a
\* forbidden community, of a host too, and no line inside a block; what it makes of a host with
\* a VRF or a kind of notice and no version, or with a level after its version, is not asked
\* (cisco.go:344). The summary's counts add up to the findings (compliance.go:29-95,
\* cisco.go:50-105, 279-351).
FindingsExact ==
  \A p \in Procs :
    /\ Printed(p, {"check"}) /\ [n \in DOMAIN loaded[p] |-> loaded[p][n].vendor] = <<"cisco">> =>
         LET text   == loaded[p][1].text
             policy == PolicyFromFlags(job(p).policy, job(p).flags)
             critical == CriticalLines(answer[p])
             WarnsOfAbsent(rule, word) ==
               (\A ln \in LinesOf(text, word) : ServerAlone(ln)) =>
                 Warned(answer[p], rule) = ToSet(policy[rule]) \ ServersSaid(text, word)
         IN /\ WarnsOfAbsent("ntp", "ntp server")
            /\ WarnsOfAbsent("syslog", "logging host")
            /\ critical \subseteq {<<i>> : i \in Outside(text)}
            /\ \A i \in Outside(text) : PlainSNMP(text[i]) =>
                 (<<i>> \in critical <=> CommunityOn(text[i]) \in ToSet(policy.snmp) \ {None})
    /\ Printed(p, {"summary"}) =>
         \A counts \in {answer[p].severity, answer[p].rule} :
           answer[p].findings = FoldFunction(+, 0, counts)

\* what an object is, but for the lines that show it
Content(object) == [field \in DOMAIN object \ {"evidence"} |-> object[field]]

\* Of the objects of one kind, each that is gone, has come or has changed is told once, and no
\* other.
ToldOnceEach(changes, object, old, new, altered) ==
  LET Told(key, type) == Cardinality({n \in DOMAIN changes :
                           /\ changes[n].object = object
                           /\ changes[n].key = key /\ changes[n].type = type})
      One(said) == IF said THEN 1 ELSE 0
  IN /\ \A key \in DOMAIN old \cup DOMAIN new :
          /\ Told(key, "removed") = One(key \notin DOMAIN new)
          /\ Told(key, "added") = One(key \notin DOMAIN old)
          /\ Told(key, "changed") = One(key \in altered)
     /\ \A n \in DOMAIN changes : changes[n].object = object => changes[n].key \in DOMAIN old \cup DOMAIN new

\* An interface has changed if it is another in any respect, a VLAN if its name is.
TellsDifference(changes, before, after) ==
  LET oldVlans == LastByKey(before.vlans, "id")
      newVlans == LastByKey(after.vlans, "id")
      old      == LastByKey(before.interfaces, "name")
      new      == LastByKey(after.interfaces, "name")
  IN /\ ToldOnceEach(changes, "vlan", oldVlans, newVlans,
            {id \in DOMAIN oldVlans \cap DOMAIN newVlans : oldVlans[id].name # newVlans[id].name})
     /\ ToldOnceEach(changes, "interface", old, new,
            {name \in DOMAIN old \cap DOMAIN new : Content(old[name]) # Content(new[name])})

\* "diff" tells which VLANs and interfaces differ, each once. The other parts of a device it
\* does not compare: routes, access lists, services, the hostname (diff.go:22-73).
ChangesTellDifference ==
  \A p \in Procs : Printed(p, {"diff"}) =>
    TellsDifference(answer[p], loaded[p][1].dev, loaded[p][2].dev)

\* The inductive strengthening of ChangesTellDifference: a "diff" parses its two files, in
\* order, and answers of the devices it has.
DiffOfTwo(p) ==
  /\ stage[p] \in {"start", "parse", "answer", "done", "failed", "dead"}
  /\ \A n \in DOMAIN loaded[p] : IsDevice(loaded[p][n].dev)
  /\ stage[p] = "start" => loaded[p] = << >>
  /\ stage[p] = "parse" => IsList(todo[p]) /\ Len(loaded[p]) + Len(todo[p]) = 2
  /\ stage[p] \in {"answer", "done"} => Len(loaded[p]) = 2
  /\ stage[p] = "done" => answer[p] \in DiffDevices(loaded[p][1].dev, loaded[p][2].dev)

DiffInv ==
  /\ DOMAIN answer = Procs
  /\ \/ \E n \in DOMAIN Sessions : session \in Sessions[n]
     \/ \A p \in Procs : job(p).cmd = "none"
  /\ \A p \in Procs : job(p).cmd = "diff" => DiffOfTwo(p)

\* The inductive strengthening of FindingsExact: a device is what a parser makes of its text, and
\* an answer is of the devices the command has.
IsRecord(record, s) ==
  /\ record.dev \in ParseFile(record.vendor, record.text)
  /\ \E p \in Procs : \E file \in Readings(s) :
       /\ s.jobs[p].cmd # "none"
       /\ record.text = file.text
       /\ record.vendor = Selected(s.jobs[p].vendor, file) /\ record.vendor \in Vendors

AnswerInv ==
  /\ DOMAIN answer = Procs
  /\ \/ \E n \in DOMAIN Sessions : session \in Sessions[n]
     \/ \A p \in Procs : job(p).cmd = "none"
  /\ \A p \in Procs :
       /\ job(p).cmd = "none" => stage[p] = "done"
       /\ \A n \in DOMAIN loaded[p] : IsRecord(loaded[p][n], session)
       /\ stage[p] = "done" /\ job(p).cmd \in {"check", "summary", "query"} => answer[p] \in Answers(job(p), loaded[p])

-----------------------------------------------------------------------------
\* The lines of the entry that starts at a line of an LLDP or CDP output, and the entries that
\* name the interface they were heard on and, in the first line for it, the device heard.
FirstWord(kind) == IF kind = "lldp" THEN "local intf" ELSE "device id"

EntryOf(text, kind, i) == {j \in i .. Len(text) : \A k \in i + 1 .. j : text[k].word # FirstWord(kind)}

Names(text, kind, i, word) ==
  \E j \in EntryOf(text, kind, i) :
    /\ text[j].word = word /\ text[j].a # 0
    /\ \A k \in EntryOf(text, kind, i) : text[k].word = word => j <= k

NamedEntries(text, kind) ==
  {i \in DOMAIN text :
     /\ text[i].word = FirstWord(kind) /\ text[i].a # 0
     /\ IF kind = "lldp" THEN Names(text, kind, i, "system name") \/ Names(text, kind, i, "chassis id")
                         ELSE Names(text, kind, i, "interface")}

ReportsIn(reports, dir, kind) == {n \in DOMAIN reports : reports[n].dir = dir.name /\ reports[n].protocol = kind}

\* Every entry of an LLDP or CDP output that names the interface it was heard on and the
\* device heard makes one report, the last entry of the file too, and a line of one entry
\* is never read as another's (discovery.go:159-190, 262-279).
NeighborsTellFiles ==
  \A d \in DOMAIN tree : ToSet(toRead) \cap {tree[d]} = {} =>
    \A kind \in {"lldp", "cdp"} \cap DOMAIN tree[d].files :
      LET text    == tree[d].files[kind]
          reports == ReportsIn(found, tree[d], kind)
      IN /\ Cardinality(reports) = Cardinality(NamedEntries(text, kind))
         /\ {found[n].lines[1] : n \in reports} = NamedEntries(text, kind)
         /\ \A n \in reports : ToSet(found[n].lines) = EntryOf(text, kind, found[n].lines[1])

\* The inductive strengthening of NeighborsTellFiles and, with TopologyInv, of
\* TopologyTellsReports: the directories read are the first of the tree, their reports tell
\* their files, and no port has the key of a MAC address.
DirectoryTold(reports, dir, kind) ==
  LET text == dir.files[kind]
      here == ReportsIn(reports, dir, kind)
  IN /\ \A n \in here : /\ reports[n].lines[1] \in NamedEntries(text, kind)
                         /\ ToSet(reports[n].lines) = EntryOf(text, kind, reports[n].lines[1])
     /\ \A i \in NamedEntries(text, kind) : \E n \in here : reports[n].lines[1] = i
     /\ \A m, n \in here : reports[m].lines[1] = reports[n].lines[1] => m = n

IsPort(end) == end \in Endpoint /\ (end.key = NoKey \/ end.key % 10 # 0)
IsMac(end)  == end \in Endpoint /\ end.key % 10 = 0

IsReport(report) == IsPort(report.local) /\ IsPort(report.remote)
IsRow(row)       == IsPort(row.at) /\ IsMac(row.mac)

DirectoriesRead ==
  /\ tree = << >> \/ tree \in Trees
  /\ IsList(found) /\ IsList(table)
  /\ \A n \in DOMAIN found : IsReport(found[n])
  /\ \A n \in DOMAIN table : IsRow(table[n])
  /\ \E last \in 0 .. Len(tree) :
       /\ toRead = [n \in 1 .. Len(tree) - last |-> tree[last + n]]
       /\ \A n \in DOMAIN found : \E d \in 1 .. last : found[n].dir = tree[d].name
       /\ \A d \in 1 .. last : \A kind \in {"lldp", "cdp"} \cap DOMAIN tree[d].files : DirectoryTold(found, tree[d], kind)

DiscoveryInv == DirectoriesRead /\ (pc = "failed" \/ TopologyInv)
=============================================================================
