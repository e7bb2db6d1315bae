# network-compiler: a TLA+ verification project

`netc` parses configurations of network devices into one inventory, answers
queries about it (`netc query`, `netc path`), plans and runs a read-only
collection from live devices (`netc collect`), and asks single diagnostics of
them, from the command line or over HTTP (`netc diag`, `netc serve`). This
directory holds its specifications: TLA+ modules translated from the Go source,
configurations that check them with TLC on small instances, and theorems that
the TLA+ proof system checks for every value of the constants. Line numbers in
comments refer to the source.

`PROJECT.json` is the index: for each definition the lines it stands for, for each
run its properties, for each property a plausible bug (a "Mutant of" definition)
that makes it fail, for each hazard the properties that would catch it.

To check: `tlc -config <X>.cfg <MC module>` for a run, `tlapm <X>Proofs.tla` for the proofs.

## The system

| Component | State it keeps | Operations | Hard part |
|---|---|---|---|
| Audit log (`internal/diag/audit.go`) | a slice of entries, an atomic counter | `Append`, `Entries` | unlocked `append` under concurrent requests |
| Diagnostics service (`internal/diag`) | configuration only; per request: target, command, class, context, result | `Diagnose`, `ValidatePath` | early returns around one call that reaches a device; deadline against late answer; errors turned into observations |
| Runners (`internal/diag/transport`, `fake.go`) | a session or process per command | `Run` | what ends a command when the device does not |
| Output parsing (`internal/diag/parse.go`) | none | ping parsers tried in turn | half outputs, another vendor's text |
| HTTP server (`internal/server`) | an immutable inventory, one `Service` | one goroutine per request | shares the `Service`; clients go away |
| Path tracer (`internal/path`) | the position of the flow, hops, visited devices | `Trace` | loops, tie-breaks, the order of ACL, subnet, route and policy |
| Collection guard (`internal/guard`) | decisions, counters of the limits | `ReadTargets`, `BuildPlan` | one pass with two limits, then a sort |
| Collection runner (`internal/collect`) | plan file, output directory, audit file | `plan`, `verify`, `run`, `ingest` | files that outlive each command; failures; a process that dies |
| Topology (`internal/topology`) | groups of neighbour reports | `Build` | iteration over maps |
| Discovery (`internal/discovery`) | neighbours and addresses found so far | `ParseDir` | where an entry of an output ends; feeds the topology |
| Configuration parsers (`internal/parser`, `internal/ir`) | the device so far, the line to read next, an open object or a stack of sections | `ParseFile` of nine families of dialects, `Select`, `DetectVendor` | which block or object a line belongs to; what a later line keeps of an earlier one; maps turned into lists |
| Queries (`internal/query`) | none | `parseQuery`, `Run`, the lookups | overlapping patterns; what uses a VLAN; the longest prefix |
| Store (`internal/store`) | JSONL files | `WriteRecordsJSONL`, `ReadRecordsJSONL` | truncate, then write, with no lock and no rename |
| Diff, compliance, reports (`internal/diff`, `compliance`, `report`) | none | `Devices`, `Check`, `Summarize` | map order, duplicates |
| Command line (`cmd/netc`) | one process per command | `parse`, `ingest`, `inventory`, `query`, `check`, `diff`, `discover`, `collect` | processes side by side on the same files |

How they interact. The server and the command line call `Service.Diagnose`, which
asks a runner and appends to the audit log; `ValidatePath` calls `path.Trace`
and then `Diagnose` once per hop. `collect plan` writes the guard's decisions to
a plan file with its hash; `collect run`, another process, reads the file,
verifies the hash the operator confirmed and hands the allowed commands to a
runner, leaving one directory per device; `collect ingest` and `discover` read
that directory; `discover` feeds the topology; the inventory and the facts they
write are what `query`, `path` and `serve` read. Nothing is shared in memory but
the `Service` and its log, and nothing coordinates the processes but files.

What makes each correct: a command that would configure a device reaches it only under a
capability, and any other that is not read-only only if it is approved or in the confirmed
plan; an attempt leaves the audit entry its client was told of; the status, the output files and the error counts tell what
happened on the device; a plan is in scope and within its limits; a path reported
is one the configuration supports and does not depend on the order of files;
an agreement between prediction and observation was observed; a link is what
the reports say, in whatever order a map yields them; and everything ends.

## The modules

| Module | Models | Run by | Proved in |
|---|---|---|---|
| `AuditLog` | `AuditLog.Append` as the memory steps of the unlocked `append`: draw the identifier, load the header, grow, store, fill the slot part by part | `MCDiagService` | `DiagServiceProofs` |
| `AuditTrail` | what the documents promise of the log: append-only, numbered in order | a property (`SerialTrail`) of `MCDiagService` | `DiagServiceProofs` |
| `DiagRules` | resolution, rendering, classification, approval: functions of the request | through `DiagService` | |
| `RunResults` | what a runner may return and the status read from it | through `DiagService`, `PathValidate` | |
| `DiagService` | `Service.Diagnose` in concurrent sessions, composed with `AuditLog` | `MCDiagService` | `DiagServiceProofs` |
| `CollectGuard` | `ReadTargets` and `BuildPlan`: checks, limits, sort | `MCCollectGuard` | `CollectGuardProofs` |
| `CollectRun` | `collect plan` and `collect run` around the plan file, the output directory and the audit file | `MCCollectRun` | `CollectRunProofs` |
| `PathTrace` | `Trace`, one hop at a time | `MCPathTwins`, `MCPathTrace` | `PathTraceProofs` |
| `PathTwins` | `PathTrace` twice, the inventory reordered | `MCPathTwins` | `PathTwinsProofs` |
| `PathValidate` | `ValidatePath`: a trace, then a ping per hop, parsed and compared; composed with `PathTrace` and `RunResults` | `MCPathValidate` | `PathValidateProofs` |
| `OrderedLists` | lists, and the places of a list in their order | through the rest | |
| `ConfigText` | lines, devices and their objects, indented blocks: what the parsers share | through `Registry` | |
| `CiscoText`, `IosLikeText` | Cisco IOS; EOS, AOS-CX, IOS XR, NX-OS and FSOS, which share its blocks | through `Registry` | |
| `VlanCentricText`, `VrpText` | ProCurve, AOS-Switch and EXOS; VRP and Comware | through `Registry` | |
| `FortiText`, `SetText`, `CommandText` | FortiOS; Junos, VyOS, EdgeOS and PAN-OS; RouterOS and SR OS | through `Registry` | |
| `Registry` | the parser a file is read with, and the detection of its vendor | through `Netc` | |
| `Query`, `Analyses` | the query language; diff, compliance and counts | through `Netc` | `QueryProofs`, `NetcProofs` |
| `Netc` | the offline commands as processes around the inventory file | `MCOffline` | `NetcProofs` |
| `Topology` | `topology.Build` | `MCOffline` | `NetcProofs` |
| `Discovery` | `ParseDir`, composed with `Topology` as `netc discover` does | `MCOffline` | `NetcProofs` |
| `Offline` | `Netc` beside `Discovery`; what is asked of both | `MCOffline` | `NetcProofs`, `QueryProofs` |
| `ParserClaims` | what is asked of the parsers | `MCOffline` | |

Correspondence of state and actions with the code:

* `AuditLog`: `slice` is the header `a.entries` (array, length, capacity), `heap`
  the backing arrays, `local[w]` the header goroutine w loaded, `seq` the atomic
  counter; `step[w]` is where w is in `Append`. The growth doubles the capacity,
  as Go does below 256 elements. An entry is some twenty words: `Fill` writes its parts (`Parts`: the
  identifier and each other field) one at a time in any order, `unwritten[w]` being those to come, so that
  two appends on one slot mix their entries; `Return` ends the append. Loads and stores that tear a header or
  one field are left out, so every outcome of the model is one of the program, and the program has
  more. `contended` and `appended` are history.
* `DiagService`: a session is a goroutine of `handleDiag`; `pc[s]` its place in
  `Diagnose`, `ctx[s]` why its context ended, `run[s]` the runner's result. Clients
  disconnect and deadlines expire at any step. `sent` and `answered` are history.
* `CollectGuard`: `cursor` walks the decisions in file order, `allowedSeen` and
  `perCIDR` are the two counters of `applyRunLimits`; `WritePlan` sorts.
* `CollectRun`: `rpc` is the place of the one run, `disk` its files with the
  truncation and the write of `os.WriteFile` as two steps, `planFile` the plan
  in the file (0 while truncated). `Crash` is possible at every step, a failing
  system call wherever `failing` names its kind. The runs of one behaviour follow each
  other on the same files.
* `PathTrace`: `current`, `ingress`, `hops` and `visited` are `Trace`'s variables; an
  action is one early return of the loop, or the step to the next device.
  Prefixes are sets of addresses. A text is the numbers and the port words that
  `portMatches` finds in it.
* `PathValidate`: the checks grow by one per ping; a ping's output is
  what the three parsers look for in it, whole or cut off at any place up to the line before its end,
  after the last reply too. A device that answers something else than a ping answers nothing, prose or a
  banner, with any exit status (`PingRefused`).
* `ConfigText` and the modules of the dialects: a file is a sequence of lines, a line
  the words that select a case of a parser, the fields after them, the numbers among these, and
  whether it is indented. A parser is a fold of one step per line over the device so far, as its
  loop is; where a parser skips a block, `next` is the line to go on with. A device's objects
  carry the numbers of the lines their evidence shows. Where the code ranges over a map, or sorts
  without stability, the parser yields a set of devices (`VlanCentricDevices`, `FortiDevices`,
  `RouterOSDevices`).
* `Query` and `Analyses` are operators: the code has no state there. Addresses are numbers, a
  destination is the range of its addresses.
* `Netc`: `stage[p]` is how far a process is, `todo[p]` the paths to parse, `loaded[p]` the devices it has.
  `inventory` is the file, a sequence of cells: each is a part of a record, the last one its newline, and a
  longer record has more. There is no lock: each writer empties the file when it opens it, and goes on from
  its own offset (`handle`), so that what two of them write may lie over each other, with zeros where neither
  wrote (`Hole`). A reader scans cell by cell meanwhile. A line that is all of one record is that record
  (`IsWhole`); half a line is an error; a line of parts of several records is an error or a device
  nobody wrote ("garbled"). A process dies or a write fails between any two steps, and a parser that panics
  (`Panics`, a VyOS line that ends after "address") ends its process ("dead"). `authors` and `source`
  are history: who may have written what the file holds, and what a reader reads.
* `Discovery`: one step reads one device's directory; names are numbers whose tens
  tell devices and interfaces apart and whose units tell their spellings.
* `Topology`: a group is a set of reports, a map's range loop the choice of any
  group left; the unstable sorts choose any admissible order.

## The runs

| Run | Asks | Bounds |
|---|---|---|
| `diag_pair` | identifiers unique; an attempt whose append met no other is never lost, by any later contended append, and told by the log as its client was | 2 sessions, 3 appends of entries of an identifier and three fields, for 2 requests that differ in all of these: arrays grow 1, 2, 4, so a stale header meets a full and a grown array |
| `diag_session` | one request at a time: what reaches a device under every class, approval and runner; the status tells it; the log refines `AuditTrail`, every command sent has its entry; the deadline answers every command but the ssh runner's | 1 session, 2 requests of 9 kinds one after the other, every runner and none: two growths of the log |
| `diag_readonly` (violation) | the class diagnostic is read-only | 1 session, 1 request |
| `diag_lost` (violation) | the same promise under two sessions | 2 sessions |
| `diag_hang` (violation) | the deadline under the ssh runner | 1 session |
| `collect_guard` | limits, scope, and the plan against its definition by rank | all inventories of up to 4 of 6 kinds of target, and two odd ones; run limit 2, CIDR limit 1, overlapping CIDRs |
| `collect_run` | only the confirmed plan is sent; audit, files and error count tell what happened; a run ends | 2 plans, 2 runs, both kinds of faults; a device at two addresses, a target without device, commands that share a file |
| `path_trace` | hops justified, no device twice, `delivered` arrives, and the same answer for the inventory in reverse order | 4 devices on a LAN, 8 route lists on three of them, 5 pairs of ACLs and policies, 5 flows, `MaxHops` 3 so that some traces end at the limit and some at a device seen before |
| `path_acl` (violation) | the first matching ACL entry is used | the same, with numbered access lists |
| `validate_path` | an agreement was observed; no check without destination; checks follow the path | the network of `path_trace` reduced, every runner and fault |
| `validate_formats` (violation) | a ping that lost nothing shows replies | two more formats |
| `offline` | parsers: a device says what its file says, found by the place of each line and not by the parser's loop; inventory: a command gets devices that an ingest parsed, and the first of one ingest, in order, if it alone wrote; answers, findings and changes are those the files call for; discovery and topology: reports, links and conflicts are those of the outputs, in any order of the maps | for each dialect every text of up to 2 to 4 lines out of those that interact, after the lines that open a block; 3 processes, two of which ingest at once, one of them two records; `MaxVLAN` 9 and `WideRange` 3 (256 in the code), so that a list of three is broad; any 4 of 10 entries of 3 discovered devices |

Why the bounds are enough: each is chosen so that the case a property is about
happens, and the mutants show it, since each run finds its property violated
under its own bounds when the code has the bug. Two sessions already give every
overlap of two appends; a third append comes before the two, as an entry that must survive them, or after, and
meets what they left. The requests of `diag_pair` reach no device (one is refused, the other finds no runner), and its
entries have no field for the runner: how a run's outcome becomes a status is `diag_session`'s question.
Two runs of a collection leave every pair of old and new file; more runs repeat them.

The texts of `offline` are short because what can go wrong in a parser is between two or three
lines: a header, a statement and what closes or follows them; every sequence of those lines is
tried, also the ones no test has (a block left open, a statement under no header, a
reference before its declaration). A longer text repeats these.

Deadlock is not checked where a program or a bounded behaviour comes to its end.

### Fairness

`DiagService!Fairness` is weak fairness of a session's own steps, of its timer, of a
dial that fails and of the kill of a process whose context ended: the Go
scheduler runs every runnable goroutine, timers fire, `net.Dialer` has a timeout
and `exec.CommandContext` kills. No device is assumed to answer. `CollectFairSpec` is weak fairness
of the run's steps and its deadline, under the exec runner; a device's
answer is not among them. `PathTrace`, `CollectGuard`, `Topology`, `Discovery` and the commands of `Netc` promise nothing of when they end and need none.

### What the violations show

* `diag_readonly`: any text asked as a `show` is of the class diagnostic unless it is one that configures,
  and runs without approval, though the same text as an `exec` needs one (`classify.go:34`).
* `diag_lost`: two overlapping appends leave one entry out of the log, though its
  `audit_id` was returned (`audit.go:38`).
* `diag_hang`: `SSHRunner.Run` hands its context to the dial alone; a device that is
  connected and silent holds the request past its deadline (`exec.go:157`).
  `collect run` uses the same runner by default and stops in the same way.
* `path_acl`: the number of a raw Cisco access list is read as a port, so an entry that
  limits no port is skipped (`path.go:352`).
* `validate_formats`: a summary line without counts ends the search of the
  parsers, and a ping that lost nothing is shown as unreachable (`parse.go:49`).

### Where properties that hold make exceptions

The code has corners where what a reader expects does not hold. A property of a passing run names each
in its comment and leaves out that case alone:

* `AuditMatchesAnswer` speaks of attempts whose append met no other: two that
  write one slot leave in it the identifier of one and the class or status of the other (`audit.go:38`).
* `OnlyAuthorisedSent` speaks of texts that configure and of `exec`; what a `show` runs is
  `DiagnosticReadOnly`, which `diag_readonly` violates.
* `MatchIsObserved`: a device that answers nothing with exit status 0 counts as reachable
  (`service.go:310`), and the marks of a banner are taken for replies. `RepliesSeen`: a process killed after the
  last reply and before the summary has lost nothing and is shown as unreachable, unless each reply left
  a mark of its own.
* `StoreTellsWrites` promises the devices of one ingest where one alone wrote what the reader opened and none
  emptied it since; of several writers at once it promises no more than that a record that was decoded
  whole is one an ingest parsed.
* `PortsKept`: but for the VLANs inside a range. Of "port trunk allow-pass vlan 3 to 5" VLAN 4 is lost, as
  `parseVLANIDs` looks for "to" within a field (`vrp.go:271`); RouterOS "vlan-ids=3-4" is dropped
  (`routeros.go:196`). The corpus lists the first among what the parser has to read.
* `FortiAsNested`: but for the lines of an edit after the "end" of a section nested in it: they go to an
  interface without a name, its "vlanid" too (`fortios.go:104`).
* `SetLinesCommute`: but for the lines of PAN-OS routes of one name in two virtual routers, which become one route with
  the virtual router of the last (`setform.go:211`), and for lines of which the later decides.
* `QueryUnderstood`: a "?" at the end is dropped before "find" is, so "find ?" is an empty request and not help.
  `VlanAnswerExact`: a port whose block has "allowed vlan all" or "allowed all" in any line, a
  description included, is taken for a broad trunk (`query.go:161`).
* `FindingsExact`: but for server lines with options ("ntp server h1 prefer" makes a server "h1 prefer", so
  h1 is missing from every check, `cisco.go:78`) and SNMP hosts with a kind of notice, a VRF or a level of
  security ("snmp-server host h1 traps c2" has the community "traps", so that a check that forbids c2 finds
  nothing, `cisco.go:344`).
* `ChangesTellDifference`: `diff` compares VLAN names and interfaces; routes, access lists, services and
  host names it leaves out.

## The proofs

All theorems are about the same specifications TLC checks; their constants are
constrained by each module's named `ASSUME` alone, so they hold for any number of goroutines,
requests, devices, plans, limits and faults. "Bounds" such as `MaxAppends` and `MaxRuns` are
arbitrary naturals in them.

* `DiagServiceProofs`, of the log. `AuditInv` is `AuditTypeOK` with four parts. `HeadersWellFormed`: an array that
  a header names exists and has its capacity. `UncontendedAlone`: a writer uncontended so
  far is the only one in the middle of an append. `UncontendedWrites`: the parts such a writer has
  stored are in its slot as it stored them. `UncontendedAnchored`: an entry that must be kept is in
  its slot of the current array *and* of the array of every writer in the middle of an append,
  below the slot it will fill; without the second half a stale store could
  bring back an array without the entry. `IdsUnique` needs that identifiers in use were drawn.
  `SlotsAppended` says of every part of every slot of every array, current or abandoned, that it is blank or
  was written by an append that has stored its length; `LogHoldsAppended` is its theorem. That an entry
  whose append met no other is whole wherever the log has its identifier (`UncontendedWhole`) needs more:
  an identifier is in no slot but the one its append stores to (`IdsPlaced`), and once the append
  is done every array that has the identifier has the whole entry, at one index (`UncontendedPlaced`).
  One goroutine alone implements `AuditTrail`, the log the documents promise (`LoneWriterTrail`):
  `SerialInv` says that no append is contended (`NoneContended`) and that the entry being appended
  carries the identifier last drawn while the counter is the number of entries written, and one more
  while one is on its way (`NumberedInOrder`); the step that
  writes the last part of a slot is the trail's, every other one a stutter.
* `DiagServiceProofs`, of the service. The service is shown to implement the log (`ServiceUsesLog`), so the log's
  invariant carries over; `AuthorisedOnly` is by the guards of `Start` alone, and `StatusSound` that tickets
  in `sent` were drawn, and a session past its runner knows whether it sent. `AuditNeverMisleads`
  joins `UncontendedWhole` with `EntriesTell`: a ticket appended has one answer, and its entry is about
  that answer's request. Together with `UncontendedKept` it says what the unlocked log is
  good for: an attempt whose append met no other is there for ever, and told right. `SentIsAnswered` says a request sent
  to a device is answered as sent; `SerialSentAudited` that sessions one after the other lose
  no entry, from the refinement of the trail (`SerialServiceTrail`).
* `CollectGuardProofs`. `ScopeInv` says each decision is `CheckTarget` of its target
  but for a permission withdrawn; `CountInv` bounds the decisions passed by the counters, which
  run ahead because a target rejected by its CIDR's limit has used a place of the run's.
  The stable sort is a permutation because `Rank` is shown a bijection (`RankBijective`).
  `PlanAlwaysMatchesLimits` states the plan without counters or loop: `LimitInv` says that the
  decisions the cursor has passed are those the limits ask for, each counter a number of the
  targets acceptable so far, and `SortInv` that the plan written is their rearrangement by rank.
* `CollectRunProofs`. `CollectInv` is `CollectTypeOK`, which ties the plan at hand
  to the confirmed one, with `OnlyAllowedRemains`: the targets and commands still to
  come are allowed ones. The order of the loops is a lexicographic
  minimum, whose existence is `LexicographicallyLeast`. For the files, `LoopInv` says what the
  loops have behind them: an answer about to be logged as ok is a whole file (`LogTellsFile`), and
  while no error is counted every target passed has its metadata (`DescribedSoFar`) and every
  command passed, its file of this run (`FreshSoFar`). For the history: the last
  command sent is the one at hand until its entry is written (`SendAtHand`), every entry has its send
  (`EntriesHaveSends`), and the sends and entries of a run lie side by side (`PairedSoFar`). For the count:
  of the targets passed, those nothing was sent to were given up with one error each (`AskedSoFar`,
  `ErrorsSoFar`). The one assumption on the plans is that an allowed target
  has an allowed command, which the guard's plan does.
* `PathTraceProofs`. `PathInv` adds `OnTheWay`: where the flow is follows from the last hop.
  The searches (`LongestPrefixRoute`, `FirstOf`, `ContainingInterface`) are shown to find what
  `HopsJustified` asks for, with `LeastElement`: a set of integers bounded from below has a least.
  `Walked` makes the answer a function of the inventory and the flow: the hops so far are `Way` (each
  the one the device before it decides) and the verdict and its reason those of the last
  (`Ending`). `TraceAnswers` is its theorem.
* `PathTwinsProofs`. `SameAnswerAlways` does not compare the traces while they run, as they keep no
  step with each other. Each gives the answer of its inventory (`TraceAnswers`, instantiated for
  the second). Inventories of the same devices in another order have the same answer:
  the searches choose by host before place (`SameContaining`, `SameNextHop`), so
  two ways agree hop by hop, by the least hop where they would not (`SameSteps`), neither goes on where
  the other ends (`NoLonger`), and the ends agree (`SameAnswers`, `SameReports`).
  It needs that `Order` is a permutation, and hosts that differ.
* `PathValidateProofs`. A step of the validation is one of the trace or leaves it alone
  (`PathBelow`), so `PathInv` holds of it. `ValidateInv` adds `ChecksInStep` (one check per ping, at
  most one per hop, none before the trace has ended), `ChecksMade` (what each check pings, and that
  it shows nothing as reachable that did not reply), `AnswerTold` and `HandsOn` (a hop
  that goes on has a next hop). What the parsers read in a ping without replies is `NoReplyPrinted`
  and `NoReplySoFar`, by cases of the format. `RepliesAlwaysSeen`, the converse, is about the formats
  whose summary counts packets; the run `validate_formats` shows it false of the others.
* `NetcProofs`. `NetcInv` says whose cells the inventory holds (`CellsOfIngests`, `WritersKnown`) and, where it has
  one author, that the file is the first cells of what that ingest loaded, in order, and its writer at their end
  (`SoleAuthor`); that a reader has records that ingests parsed, in a line it has not ended the cells of
  such (`ReadersHaveRecords`), and of a single source the first records and the first cells of
  the next (`ReaderOfOne`). What an ingest loaded does not change after it began to write.
  `StoreTellsWrites` follows, for any processes, files, parsers and commands, any number of them writing at once:
  the steps of discovery leave the commands' state alone.
  `TopologyAlwaysTellsReports` is about `Build` by itself (`BuildSpec`), for any reports and addresses it
  may be given (`Given`: two ends a report, and no port with the key of a MAC address). `TopologyInv`
  follows a report through the loops: the groups are whole (`GroupsWhole`), each report is in a group left
  to visit, in the list of its link or in the evidence of one (`NoneLost`), links come from reports or
  addresses and no two are one (`LinksApart`), and the conflicts are those of the ends
  visited (`ConflictsSoFar`). No order of the maps is assumed. That the list of a group
  has all of it (`InOrderLists`) is by counting.
  `ChangesAlwaysTell` says of any two files what the run says of its own, of VLANs and of interfaces (`KindToldOnce`
  is for both). `DiffInv` follows a `diff`
  through its two files to two devices and an answer of theirs (`DiffOfTwo`), whatever other
  commands do meanwhile. An answer lists what there is to tell, each thing once, in whatever orders the two
  passes over the maps took (`DevicesTold`, `ListsJoined`); and two interfaces of one name
  differ where `interfaceChanged` compares them (`ContentCompared`): it leaves no field out. The
  assumption, `SessionsAssumption`, is that a configuration is a list of lines with their fields, a policy
  three lists, and that a parser makes devices with the fields of `ir.Device` and no
  others, which Go's types give the code; TLC evaluates it for the sessions of the run.
  `FindingsAlwaysExact` says of any Cisco configuration and any policy what the run says of its own: the
  warnings of a `check` are the required servers that no line outside the blocks names, where these have no
  options, and its criticals are lines there, of the plain ones exactly those that give a forbidden community.
  `CommunityOn` is the grammar of IOS; that the parser's place is the same on a plain line is `PlainGiven`. `AnswerInv` says that
  each command has devices a parser made of the texts it was given, and an answer of theirs, whatever other
  commands do meanwhile and however it came by them (its files or the inventory). About the parser, the loop of
  `ParseFile` is a recursive function, and the proof goes by induction over its lines: the loop is
  always before a line that is in no block or past lines that are in one (`LoopPlace`: the block a
  header opens is skipped, a "!" that ends it is read, a header within a block opens none), and its device
  has the servers and communities of the lines outside the blocks up to there (`LoopTold`). About the
  rules, what is picked from a list are its items at the places picked (`PickedMembers`), so that the
  findings are those of the sets (`AreFindings`). The counts of a `summary` add up to its
  findings whichever of severity and rule they are by (`CountsAddUp`).
  `NeighborsAlwaysTell` and `DiscoverAlwaysTells` are about `netc discover` as a whole, for any directories
  and outputs. `DiscoveryInv` says that the directories read are the first of the tree, that the reports of
  each tell the entries of its LLDP and CDP outputs (`DirectoryTold`), and that the topology's invariant
  holds. The blocks an output is split into are its entries, each once (`BlocksAreEntries`), and the fields
  found in a block are those of its own lines (`FieldFound`); what files are read one after the other
  keeps the place of each report (`FlattenPlaces`), which joins `BlocksAreEntries` to the whole. The two
  sorts may leave equal items in any order (`SortedTyped`), and what they yield is always what
  `Build` may be given (`SortedGiven`), as no end of a report has the key of a MAC address
  (`EndTyped`). The assumption, `TreesAssumption`, is that a directory is listed once, and that the numbers
  that stand for names in its files are names: devices without bound, nine interfaces of ten spellings
  each, as the tens of an interface are one digit of the key of an end.
* `QueryProofs` is about `netc query`, whose answers `AnswerInv` makes those of devices a parser made of the
  texts the process has. `QueryAlwaysUnderstood` says of any list of words what the run says of its questions:
  in a form that "help" lists, they are taken for that form, after "find" or with a "?" at the end too (`FindBefore`, `MarkGoes`). `Matching` is the set of the
  thirteen patterns that match a question; for every documented form it is shown to have one member
  (`HelpAsked` to `AccessAsked`), so that the order in which `ParseQuery` tries them decides nothing
  (`OneMatches`): the patterns look alike but no two overlap on a documented question.
  With the two theorems that follow it makes `AnswersAlwaysExact`.
  `RouteAlwaysAnswered` and `VlanAlwaysAnswered` say of any Cisco configuration and any address or VLAN that the
  answer is what the lines say, from the parser on. The loop of `ParseFile` keeps the routes, the interfaces
  and the VLANs of the device so far lists of one object per line outside the blocks, in the order of these
  lines (`AreRoutes`, `AreInterfaces`, `AreVLANs`), by the same induction as `FindingsAlwaysExact`. An
  interface is what the *last* line of each kind of its block makes of it: `IsReadOf` is kept line by
  line (`ReadOfMore`), the reader of a block being a recursive function too. The role of an interface is then
  what its lines say (`AccessTold`, `TrunkTold`), the three roles share out the lines that use a VLAN and no line
  has two (`RoleLinesTold`), and the lists of the roles, joined, stay in the order of their ranks
  (`RankedJoined`). For routes, the comparison that keeps the first of the longest is shown to find the
  first of the smallest networks that hold the address (`RouteFound`). The assumption, `SessionsAssumption`,
  says of questions that they are lists of words, and of `ip route` lines that their numbers are ranges of addresses.

What stays with TLC: liveness (`DeadlineAnswers`, `RunEnds`) and the violations; and what is asked of
the parsers by themselves: `BlocksAsWritten`, `PortsKept`, `FortiAsNested` and `SetLinesCommute`
of `ParserClaims`. These are about all nine dialects at once, whose loops are folds over
the lines of a file by a library operator with an operator for a parameter (`FoldLeft`): their result
for every text needs induction over the text, which the prover has for a function (the loop of
`CiscoDevice` and of `CiscoInterface`) and not for such an operator.

## What is not modelled

* Splitting text: fields and quotes (`internal/syntax`), globs, accents and punctuation of a
  question, the spelling of addresses and masks, the YAML and flag readers, redaction. A line comes
  to the models with its fields and numbers told apart.
* The fields of a device nothing reads back: SNMP locations, contacts and traps, protocols and
  sequence numbers of access list entries, services and applications of policies.
* Credentials, known_hosts loading, the content of HTML pages.
* Two `collect run` at once on one output directory; loads and stores that tear a slice header or a field.
* `collect ingest` on a directory left by a dead run: the truncated file is in `CollectRun` and the
  parser of a cut text in `Netc`, but not the two together. It makes an empty device of it.
* What a JSON line made of the parts of several records decodes to: `Netc` stops there ("garbled"), and counts it
  as an answer about nobody's device. Buffered reads: a reader takes one cell at a time.
* The page's script (`server/ui.go`): an answer that comes late replaces a newer one. The
  read-only endpoints answer from an inventory that never changes, through the functions of `Query`,
  `Analyses` and `PathTrace`.
* Spelling of a link's ends, which depends on map order (`topology.go:84`).
* Two devices of one name: the first is addressed, as in the code, and no property speaks of it.

What the program does that a reader may not expect; the models follow it, and no document promises
otherwise: "find ?" is an empty request, while "?" is help (`parse.go:61`); a description that says
"allowed vlan all" makes its port a broad trunk (`query.go:161`); a VyOS line that ends after "address" is a
panic (`setform.go:144`); `switchport trunk allowed vlan add` replaces the list (`cisco.go:125`); a VLAN block with a
list of numbers is dropped (`cisco.go:140`); a route through an interface takes the distance for a
next hop (`cisco.go:162`); a PAN-OS or VyOS file that begins with its host name is read as Junos
(`registry.go:72`); a directory given as input includes the inventory that lies in it
(`main.go:746`).

## Plan

Done, in the order of importance: the audit log and the service that shares it, the guard and
the runner of the collection, the path tracer and its validation, the topology with the
discovery that feeds it, the parsers, and the offline commands around the inventory.

1. `Query` against `PathTrace`: where `findRouteDst` and `betterRoute` choose different routes
   (the first ignores the distance the second compares).
2. `CollectIngest`: `CollectRun`'s files read by `Netc`, what an inventory may hold after a crash
   of either.
3. `GuardConfig`: the configuration compiled, defaults and its contradictions.
4. The page's requests and answers.
5. Proofs: what a dialect's step does to one line.
