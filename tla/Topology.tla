------------------------------- MODULE Topology -------------------------------
(***************************************************************************)
(* topology.Build (internal/topology/topology.go): the candidate links and *)
(* conflicts inferred from what the devices report of their neighbours.    *)
(* Three of its loops range over a map, in an order Go draws at random.    *)
(*                                                                         *)
(* An endpoint is [key, name]: a device and interface, as normalised by    *)
(* endpointKey and as spelled by whoever reports it. Keys are numbers in   *)
(* the order of the normalised texts, names in that of the spellings.      *)
(***************************************************************************)
EXTENDS OrderedLists

NoKey == 0   \* an endpoint that lacks its device, interface or MAC

-----------------------------------------------------------------------------
VARIABLES
  neighbors,   \* the reports Build was given, in the order discovery sorted them:
               \* [local, remote: endpoints, protocol]; a report's place is its evidence
  addresses,   \* the address table it was given: [kind, at: endpoint, mac: endpoint]
  pc,          \* the loop it is in; "idle" before it was called
  byLocal,     \* the groups left to visit: sets of reports of one local endpoint
  remotes,     \* the groups left within the one visited
  linkGroups,  \* the reports of each link key, in the order the loops came by them
  macs,        \* the addresses left
  links, conflicts

topoVars == <<neighbors, addresses, pc, byLocal, remotes, linkGroups, macs, links, conflicts>>

Usable(i) == neighbors[i].local.key # NoKey /\ neighbors[i].remote.key # NoKey

Local(i)  == neighbors[i].local.key
Remote(i) == neighbors[i].remote.key

\* a set of reports, grouped by an endpoint of theirs
ByLocal(S)  == {{j \in S : Local(j) = Local(i)} : i \in S}
ByRemote(S) == {{j \in S : Remote(j) = Remote(i)} : i \in S}

TopologyIdle ==
  /\ neighbors = << >> /\ addresses = << >>
  /\ pc = "idle"
  /\ byLocal = {} /\ remotes = {}
  /\ linkGroups = << >>
  /\ macs = << >>
  /\ links = << >> /\ conflicts = << >>

\* Build(reports, table): what it does before its loops
BuildStarts(reports, table) ==
  /\ neighbors' = reports /\ addresses' = table
  /\ pc' = "local"
  /\ byLocal' = ByLocal({i \in DOMAIN neighbors : Usable(i)})'
  /\ macs' = table
  /\ UNCHANGED <<remotes, linkGroups, links, conflicts>>

-----------------------------------------------------------------------------
LinkKey(a, b) == <<a.key, b.key>>

\* endpointLess: the lesser end is A
Oriented(a, b) == IF b.key < a.key THEN <<b, a>> ELSE <<a, b>>

\* in hundredths
Confidence(sources) ==
  IF {"lldp", "cdp"} \subseteq sources THEN 95
  ELSE IF {"lldp", "cdp"} \cap sources # {} THEN 80
  ELSE IF "mac_table" \in sources THEN 55 ELSE 35

Sources(group) == {neighbors[group[n]].protocol : n \in DOMAIN group}

LinkFromNeighbors(group) ==
  LET first == neighbors[group[1]]
      ends  == Oriented(first.local, first.remote)
  IN [a |-> ends[1], b |-> ends[2], sources |-> Sources(group), evidence |-> ToSet(group),
      confidence |-> Confidence(Sources(group))]

\* Mutant of Mismatch: two reports are taken for two remote ends
MismatchOfTwo(group) == Cardinality(group) > 1

\* more than one remote end
Mismatch(group) == Cardinality(ByRemote(group)) > 1

NeighborConflict(group) ==
  [at |-> neighbors[InOrder(group)[1]].local, sources |-> Sources(InOrder(group)), evidence |-> group]

VisitLocal ==
  /\ pc = "local" /\ remotes = {}
  /\ \E group \in byLocal :
       /\ byLocal' = byLocal \ {group}
       /\ remotes' = ByRemote(group)
       /\ conflicts' = IF Mismatch(group) THEN Append(conflicts, NeighborConflict(group)) ELSE conflicts
  /\ UNCHANGED <<neighbors, addresses, pc, linkGroups, macs, links>>

\* Mutant of Join: the group of the link's other end is replaced
JoinLast(key, group) ==
  [k \in DOMAIN linkGroups \cup {key} |-> IF k = key THEN InOrder(group) ELSE linkGroups[k]]

Join(key, group) ==
  [k \in DOMAIN linkGroups \cup {key} |->
     IF k # key THEN linkGroups[k]
     ELSE IF key \in DOMAIN linkGroups THEN linkGroups[key] \o InOrder(group) ELSE InOrder(group)]

VisitRemote ==
  /\ pc = "local"
  /\ \E group \in remotes :
       LET link == LinkFromNeighbors(InOrder(group)) IN
       /\ remotes' = remotes \ {group}
       /\ linkGroups' = Join(LinkKey(link.a, link.b), group)
  /\ UNCHANGED <<neighbors, addresses, pc, byLocal, macs, links, conflicts>>

GroupsDone ==
  /\ pc = "local" /\ byLocal = {} /\ remotes = {}
  /\ pc' = "link"
  /\ UNCHANGED <<neighbors, addresses, byLocal, remotes, linkGroups, macs, links, conflicts>>

VisitLink ==
  /\ pc = "link"
  /\ \E key \in DOMAIN linkGroups :
       /\ links' = Append(links, LinkFromNeighbors(linkGroups[key]))
       /\ linkGroups' = [k \in DOMAIN linkGroups \ {key} |-> linkGroups[k]]
  /\ UNCHANGED <<neighbors, addresses, pc, byLocal, remotes, macs, conflicts>>

LinksDone ==
  /\ pc = "link" /\ DOMAIN linkGroups = {}
  /\ pc' = "mac"
  /\ UNCHANGED <<neighbors, addresses, byLocal, remotes, linkGroups, macs, links, conflicts>>

-----------------------------------------------------------------------------
\* linksFromMACAddresses, in the order of the table

MacLink(address) ==
  LET ends == Oriented(address.at, address.mac) IN
  [a |-> ends[1], b |-> ends[2], sources |-> {"mac_table"}, evidence |-> {},
   confidence |-> Confidence({"mac_table"})]

SameLink(l, m) == LinkKey(l.a, l.b) = LinkKey(m.a, m.b)

\* Mutant of Skipped: a link seen before is listed again
SkippedUnusable(address) ==
  address.kind # "mac_table" \/ address.at.key = NoKey \/ address.mac.key = NoKey

\* the entry is no usable MAC entry, or its link was seen
Skipped(address) ==
  \/ address.kind # "mac_table" \/ address.at.key = NoKey \/ address.mac.key = NoKey
  \/ \E n \in DOMAIN links : links[n].sources = {"mac_table"} /\ SameLink(links[n], MacLink(address))

VisitAddress ==
  /\ pc = "mac" /\ macs # << >>
  /\ macs' = Tail(macs)
  /\ links' = IF Skipped(Head(macs)) THEN links ELSE Append(links, MacLink(Head(macs)))
  /\ UNCHANGED <<neighbors, addresses, pc, byLocal, remotes, linkGroups, conflicts>>

\* sortLinks by key and sortConflicts by description; neither sort is stable
LinkBefore(l, m) ==
  l.a.key < m.a.key \/ (l.a.key = m.a.key /\ l.b.key <= m.b.key)

ConflictBefore(c, d) == c.at.name <= d.at.name

Rearranged(seq) ==
  {[n \in DOMAIN seq |-> seq[order[n]]] :
     order \in {f \in [DOMAIN seq -> DOMAIN seq] : \A i, j \in DOMAIN seq : i # j => f[i] # f[j]}}

SortAndReturn ==
  /\ pc = "mac" /\ macs = << >>
  /\ pc' = "done"
  /\ links' \in Rearranged(links)
  /\ conflicts' \in Rearranged(conflicts)
  /\ \A i, j \in DOMAIN links : i < j => LinkBefore(links'[i], links'[j])
  /\ \A i, j \in DOMAIN conflicts : i < j => ConflictBefore(conflicts'[i], conflicts'[j])
  /\ UNCHANGED <<neighbors, addresses, byLocal, remotes, linkGroups, macs>>

-----------------------------------------------------------------------------
TopologyNext ==
  \/ VisitLocal \/ VisitRemote \/ GroupsDone
  \/ VisitLink \/ LinksDone \/ VisitAddress \/ SortAndReturn

-----------------------------------------------------------------------------
UsableReports   == {i \in DOMAIN neighbors : Usable(i)}
Ends(i)         == {Local(i), Remote(i)}
Reporting(ends) == {i \in UsableReports : Ends(i) = ends}

FromReports == {n \in DOMAIN links : links[n].evidence # {}}

Tells(link, ends) ==
  LET reports == Reporting(ends) IN
  /\ {link.a.key, link.b.key} = ends
  /\ \E i, j \in reports : {link.a, link.b} = {neighbors[i].local, neighbors[j].remote}
                           \/ {link.a, link.b} = {neighbors[i].local, neighbors[j].local}
                           \/ {link.a, link.b} = {neighbors[i].remote, neighbors[j].remote}
  /\ link.evidence = reports
  /\ link.sources = {neighbors[i].protocol : i \in reports}
  /\ link.confidence >= 80 <=> \E i \in reports : neighbors[i].protocol \in {"lldp", "cdp"}
  /\ link.confidence = 95 <=> {"lldp", "cdp"} \subseteq {neighbors[i].protocol : i \in reports}

\* In whatever order the maps are visited, two ends some device reports make one link,
\* whichever end reported it and however it was spelled, with every report of it as its
\* evidence; nothing else makes one (topology.go:26-50).
LinksTellReports ==
  pc = "done" =>
    /\ \A i \in UsableReports : \E n \in FromReports :
         /\ Tells(links[n], Ends(i))
         /\ \A m \in FromReports : m # n => links[m].evidence \cap links[n].evidence = {}
    /\ UNION {links[n].evidence : n \in FromReports} = UsableReports

\* A conflict for each local endpoint with more than one remote one, and for no other,
\* however often the same remote was reported (topology.go:30-37).
ConflictsTellReports ==
  pc = "done" =>
    LET Disputed == {Local(i) : i \in {i \in UsableReports :
                       \E j \in UsableReports : Local(i) = Local(j) /\ Remote(i) # Remote(j)}}
    IN /\ Len(conflicts) = Cardinality(Disputed)
       /\ \A at \in Disputed : \E n \in DOMAIN conflicts :
            conflicts[n].at.key = at /\ conflicts[n].evidence = {i \in UsableReports : Local(i) = at}

\* The links come in the order of their keys and none comes twice: not for the two ends
\* that report it, nor for the same MAC learned twice (topology.go:46-48, 109-135).
LinksOnceInOrder ==
  pc = "done" => \A n, m \in DOMAIN links : n < m => ~LinkBefore(links[m], links[n])

\* The topology says what the reports say, once: all three (topology.go:16-51).
TopologyTellsReports ==
  /\ LinksTellReports
  /\ ConflictsTellReports
  /\ LinksOnceInOrder

-----------------------------------------------------------------------------
(***************************************************************************)
(* Build by itself, for any reports and any table.                         *)
(***************************************************************************)
Endpoint == [key : Nat, name : Int]

\* What discovery hands over: two ends a report, and no port has the key of a MAC address,
\* which linksFromMACAddresses gives an interface of its own (topology.go:118).
Given(reports, table) ==
  /\ reports \in Seq(ToSet(reports)) /\ table \in Seq(ToSet(table))
  /\ \A i \in DOMAIN reports : reports[i].local \in Endpoint /\ reports[i].remote \in Endpoint
  /\ \A n \in DOMAIN table : table[n].at \in Endpoint /\ table[n].mac \in Endpoint
  /\ \A n \in DOMAIN table, i \in DOMAIN reports :
       table[n].mac.key # NoKey => table[n].mac.key \notin {reports[i].local.key, reports[i].remote.key}

BuildSpec(reports, table) ==
  TopologyIdle /\ [][(pc = "idle" /\ BuildStarts(reports, table)) \/ TopologyNext]_topoVars

(***************************************************************************)
(* The inductive strengthening of TopologyTellsReports.                    *)
(***************************************************************************)
ReportsAt(at)       == {i \in UsableReports : Local(i) = at}
ReportsOf(at, from) == {i \in ReportsAt(at) : Remote(i) = from}

\* the link a report is of, and all the reports of a link
KeyOf(i)   == LET ends == Oriented(neighbors[i].local, neighbors[i].remote) IN LinkKey(ends[1], ends[2])
Keyed(key) == {i \in UsableReports : KeyOf(i) = key}

Contested(at) == \E i, j \in ReportsAt(at) : Remote(i) # Remote(j)

TopologyTypeOK ==
  /\ pc \in {"idle", "local", "link", "mac", "done"}
  /\ Given(neighbors, addresses)
  /\ IsList(macs) /\ ToSet(macs) \subseteq ToSet(addresses)
  /\ IsList(links) /\ IsList(conflicts)
  /\ pc = "idle" => neighbors = << >> /\ conflicts = << >>
  /\ pc \in {"idle", "local"} => links = << >>
  /\ pc # "local" => byLocal = {} /\ remotes = {}
  /\ pc \notin {"local", "link"} => DOMAIN linkGroups = {}

\* A group is all that one end reports, or all it reports of another end; a link's, reports of
\* that link.
GroupsWhole ==
  /\ \A group \in byLocal : \E i \in UsableReports : group = ReportsAt(Local(i))
  /\ \A group \in remotes : \E i \in UsableReports : group = ReportsOf(Local(i), Remote(i))
  /\ \A key \in DOMAIN linkGroups : linkGroups[key] \in Seq(Keyed(key)) /\ linkGroups[key] # << >>

Joined(i) == KeyOf(i) \in DOMAIN linkGroups /\ i \in ToSet(linkGroups[KeyOf(i)])

\* No report is lost on its way from one loop to the next.
NoneLost ==
  \A i \in UsableReports :
    /\ pc = "local" => Joined(i) \/ \E group \in byLocal \cup remotes : i \in group
    /\ pc = "link" /\ KeyOf(i) \in DOMAIN linkGroups => Joined(i)
    /\ pc \notin {"idle", "local"} /\ KeyOf(i) \notin DOMAIN linkGroups =>
         \E n \in DOMAIN links : links[n].evidence = Keyed(KeyOf(i))

\* a link made from the reports of the link that i is of
LinkOf(link, i) ==
  /\ LinkKey(link.a, link.b) = KeyOf(i)
  /\ {link.a, link.b} = {neighbors[i].local, neighbors[i].remote}
  /\ link.evidence = Keyed(KeyOf(i))
  /\ link.sources = {neighbors[j].protocol : j \in Keyed(KeyOf(i))}
  /\ link.confidence = Confidence(link.sources)

IsReported(link) == \E i \in UsableReports : LinkOf(link, i)

IsLearned(link) ==
  \E address \in ToSet(addresses) :
    address.at.key # NoKey /\ address.mac.key # NoKey /\ link = MacLink(address)

\* Links are of reports or of addresses, and no two are one.
LinksApart ==
  /\ \A n \in DOMAIN links : \/ IsReported(links[n])
                             \/ pc \in {"mac", "done"} /\ IsLearned(links[n])
  /\ \A n, m \in DOMAIN links : n # m => ~SameLink(links[n], links[m])
  /\ \A n \in DOMAIN links : LinkKey(links[n].a, links[n].b) \notin DOMAIN linkGroups
  /\ pc = "done" => \A n, m \in DOMAIN links : n < m => LinkBefore(links[n], links[m])

\* The conflicts are those of the ends visited.
ConflictsSoFar ==
  /\ \A n \in DOMAIN conflicts : \E i \in UsableReports :
       /\ conflicts[n].at.key = Local(i) /\ conflicts[n].evidence = ReportsAt(Local(i))
       /\ Contested(Local(i)) /\ ReportsAt(Local(i)) \notin byLocal
  /\ \A n, m \in DOMAIN conflicts : n # m => conflicts[n].at.key # conflicts[m].at.key
  /\ \A i \in UsableReports : pc # "idle" /\ Contested(Local(i)) =>
       ReportsAt(Local(i)) \in byLocal \/ \E n \in DOMAIN conflicts : conflicts[n].at.key = Local(i)

TopologyInv == TopologyTypeOK /\ GroupsWhole /\ NoneLost /\ LinksApart /\ ConflictsSoFar
=============================================================================
